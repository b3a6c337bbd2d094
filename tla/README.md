# A verification project for the Instruction Hub toolchain

This directory models the stateful parts of the Promptless Instruction Hub
toolchain in TLA+, checks the models with TLC and proves theorems about them
with TLAPS. It is written against the source; where this file names a source
file without a directory it is in
`src/promptless_instruction_hub/managed_runtime_assets/host_enrollment/promptless_host_runtime/`.

- [1. The system](#1-the-system): components, state, operations, what is hard
- [2. Plan](#2-plan): the modules, in order, and what is left
- [3. Modules and code](#3-modules-and-code): how state and actions correspond
- [4. Runs](#4-runs): what each run checks, its bounds, the fairness
- [5. Findings](#5-findings)
- [6. Proofs](#6-proofs)
- [7. Limits](#7-limits): abstractions, what is only checked, what is not modelled

## 1. The system

The toolchain has two halves. The *compiler and publisher* turn a hub repository
into plugin packages and publish them. The *host runtime* is shipped in those
packages and is run by the hooks of an agent host (Claude Code, Codex, Claude
Desktop) on a user's machine: every hook starts a short process, many of them run
at once, and all they have in common is a few files and a remote worker. That
half is where most of the behaviour is hard, and it was modelled first. Of the other
half the publisher, the scan, the build with its check, the merge of MCP servers and the
places assets are rendered to are modelled; what is written into the files is not.

### The host runtime

| component | state | operations | shared with |
|---|---|---|---|
| Trace collector, `traces.py` | the source ledger: per transcript an end offset and the digest of the prefix up to it; its lock | `collect`: first request of the hook's transcript, catch-up on it, scan of the native roots, upload of idle transcripts; one locked transaction per request; reconciliation after a 409 | other collectors (ledger), hosts (transcripts), worker (watermark) |
| Enrollment, `enrollment.py` | credential and pending approval per cache key; leader lock | obtain: cached credential, else poll the pending approval, else become leader, open the browser, record the session, poll, store; forget a rejected credential or a dead session | all `ensure`, `enroll`, `collect`, `reset` processes; the hosted service; the user |
| Storage, `storage.py` | `host-enrollment.json` and others, one lock file each | load, atomic replace, lock, try-lock | everything above and below |
| Session orchestration, `cli.py` | none of its own | `ensure`; detached session start supervised by a second process; `enroll`, `reset`, `status` | notices, enrollment, collector |
| Notices, `notices.py` | versions seen, first success pending and shown, welcomes shown | read before the output and recorded after it (updates); claimed before the output (first success, welcome); deferred by detached runs | overlapping session starts |
| Lifecycle hooks, `managed_runtime.py` and the executable `promptless-host-runtime` | none: the installed versions of the plugin are the host's | a hook's script: find a complete bundle, its own or (at the end of a session) another version's; find a Python; run the launcher, which detaches the supervisor, which may start a collector | the host's installer, the host's timeout, the diagnostic log |
| Host configuration, `host_config.py` | the hosts' own config files | remove the blocks earlier versions managed, with a backup | the user's editor |
| Output, `output.py` | queued control output, last status, diagnostic log | priority queue of one object; log rotation | overlapping processes |
| Worker transport and policy, `worker.py`, `validation.py` | none | timeouts, 401/403, other refusals, validation | worker |

### Compiler and publisher

| component | state | operations |
|---|---|---|
| Publisher, `scripts/run.sh`, `templates/gitlab/instruction-hub.yml`, `.github/workflows/publish.yml` | source branch (hub, version, marketplace pointers), release branch (generated output with its manifest) | read both branches, resolve the version, build, release commit, source commit, atomic push of both refs under leases; the jobs that start it |
| Version resolution, `release/versions.py`, `release/manifests.py` | the manifest of the last release | the hub's next version |
| Scan, `scan/hub.py`, `mcp_config.py` | `assets/`, `plugins/pig.yaml` of the hub | import skills, root and Cursor MCP files of a repository; add them to the PIG plugin |
| Compiler, `compiler.py`, `fs.py`, `assets.py` | six generated paths of the worktree | `init`; `build`: validate, compile into a temporary directory, replace path by path; `build --check`: compile and compare |
| Validation and renderers, `validate/hub.py`, `render/`, `commands.py`, `managed_skills.py`, ... | none | support modes, destinations and invocation names of each target, merge of MCP servers, files in each target's format |

### Interaction

A collector needs the credential that enrollment keeps and drops it when the
worker rejects it. Enrollment and notices update different keys of one state file.
A session start is a launcher, which announces what earlier runs have left to announce,
and a detached supervisor, which runs `ensure` and then `collect` and is never heard. All of
them are started by a hook's script out of a bundle that the host's installer may be
replacing. What the compiler generates is what the publisher commits and what the hooks
are part of. The worker
keeps its own watermark per source: after a lost answer it and the ledger disagree,
and the worker is authoritative (`src/README.md` 689-699).

### What is hard

No process waits for another except on a file lock; any of them can die at any
point; every request can time out after it was committed. The hazards listed in
`PROJECT.json` fall into these groups.

1. **Lost and late requests** of the collector, against a transcript that grows,
   is replaced, or disappears, and a ledger that may be damaged.
   *Correct means*: the worker has an exact, record-aligned prefix of each
   transcript; the ledger claims only bytes the worker has; one generation of a
   file is not continued by another (section 7 has the exception); a conflict on a
   transcript that only grew never blocks it; everything is uploaded in the end.
2. **Overlapping enrollments**: state read in one locked section and acted on in
   another, or without the lock.
   *Correct means*: the user is asked once; the session the user is looking at is
   the one that is polled; the host ends up enrolled.
3. **Notices claimed, deferred and recorded** by processes that overlap and of which
   some are never heard.
   *Correct means*: a one-time notice is not shown twice, and what counts as shown or
   as announced was not swallowed by a process that went on living.
4. **Replacement of the user's configuration file**, which has no lock.
   *Correct means*: what the user wrote is in the file or in a backup.
5. **A bundle that changes under its hooks**: it is checked once and loaded two or three
   times, by processes of which the later ones have no output and nobody waits for them.
   *Correct means*: what was accepted loads; a failure is said or logged; the end of a
   session is quiet; an update does not cost the session its upload.
6. **Scans and builds that stop halfway**, at any file.
   *Correct means*: the next scan leaves exactly what the repository has; servers meant
   for one target reach no other (section 7 has the exception); a valid repository
   makes a valid hub; a build that ended well passes its check.
7. **Two computations of one place**: validation claims destinations, renderers write.
   *Correct means*: what was accepted is written side by side.
8. **Concurrent publishers**.
   *Correct means*: both refs or none, no version reused for another version basis,
   none lowered, an unchanged rerun creates no commit (`src/README.md`).

## 2. Plan

| order | module | about | state |
|---|---|---|---|
| 1 | `SourceRanges`, `SourceReader` (+ `Proofs` of each) | how transcripts are cut into ranges | done |
| 2 | `TranscriptDelivery` | abstract: in-order delivery of whole records | done |
| 3 | `TraceCollector` (+ `MC`, `Proofs`) | collectors, ledger, worker; implements 2 while files only grow | done |
| 4 | `Enrollment` (+ `MC`, `Proofs`) | credential, pending approval, leader | done |
| 5 | `SemVer` | the order of versions | done |
| 6 | `Publisher` (+ `MC`, `Proofs`) | publish mode of `run.sh`, the jobs around it, the version it resolves | done |
| 7 | `HostConfig`, `SessionStart` (+ `MC`, `Proofs`) | the config file; launcher, supervisor and visible runs, notices, output queue | done |
| 8 | `HookLauncher` (+ `Proofs`) | a hook from the host's call to the detached upload, with the installer at work | done |
| 9 | `PluginRendering` | where validation expects and renderers write the assets of a plugin | done |
| 10 | `HubScan`, `HubBuild` (+ `HubMC`, `HubProofs`) | scan, MCP merge, build, check, commit and clone | done |
| 11 | `SessionStart`, liveness | a deferred success is announced in the end; needs a smaller instance of its own | if it can be made small enough |
| 12 | native hooks of plugins (`render/hooks.py`, `hook_runtime.py`) | what a generated hook runs for each target | if it turns out to have more than formats |

Every safety property of the runs is proved (section 6). Worth proving next: that a
claimed file of rules or projected content is not written over by another
(`PluginRendering` says nothing of these yet).

## 3. Modules and code

`PROJECT.json`, "map", gives the lines of every definition.

### SourceRanges and SourceReader

`SourceRanges` states in closed form what `_iter_source_events` cuts out of a
transcript: a *record* is closed by a newline, a *range* is the longest run of
records within `CHUNK_TARGET_BYTES` (or one record), a record over
`MAX_RECORD_BYTES` is reported alone. Its operators are used by the collector, so a
collector step reads a source at once. `SourceReader` is the loop itself, one line
per step, with its buffer and file position; the `reader` run shows that the two
agree on every content up to the bound, and `SourceReaderProofs` that they always do. A
digest is modelled by the bytes it is taken of: digests are equal exactly when the bytes
are.

### TraceCollector

State and code:

| variable | code |
|---|---|
| `file`, `unreadable` | the transcripts |
| `ledger`, `corrupt`, `lock` | the ledger file, whether it parses, its lock file. An entry is the acknowledged prefix; its length is `end_offset`, itself `prefix_sha256` |
| `phase`, `step`, `found` | where `_run_collect` is: the three calls of `_upload_source_paths` and the scan between them; within a transaction: before the lock, locked, request posted, answered |
| `loaded`, `request`, `answer` | the local `ledger`, `batch` and `response` of `_upload_source_paths` |
| `watermark`, `archive` | the worker's last committed range; all bytes it ever committed |
| `stray` | requests on the wire whose sender is gone |
| `catchUp` | whether there is any catch-up time at all |
| `replaced`, `earlier`, `mistaken`, `ledgerLost` | history: sources whose file was replaced, what was in it before, sources of which the worker acknowledged bytes as a duplicate that it does not have, sources whose ledger was lost |

Actions follow the code: `StartCollect`; `LockAndLoad` (poll for the lock, load,
quarantine a ledger that does not parse); `PostBatch` (the first event of the first
source that has one); `NothingToUpload`; `RecordAcknowledged`;
`ReconcileWatermark` or `ConflictEndsRun` for a 409; `ScanRoots`; `NoCatchUp`;
and the ways a run ends early: `DeadlineExceeded`, `Abandon` (timeout, crash, lost
answer), `WorkerRefuses`. The worker is the tests' `_FakeWorkerHandler`
(`WorkerHandles`), extended by refusing at will and by handling a request late
(`WorkerHandlesStray`). It compares offsets, never bytes, so that a range at or below
the watermark is a duplicate whatever is in it. The environment appends to transcripts, replaces them,
makes them unreadable, or damages the ledger.

`TranscriptDelivery` is what all of this promises for a transcript that only grows:
the worker receives whole records in order, once, and only what it received is
considered sent. `TraceCollector!IsDelivery` is the refinement: `file`, `archive` and
`ledger` are the abstract `transcript`, `delivered` and `acknowledged`.

### Enrollment

One agent host, so one credential cache key. `stored` and `pending` are the two
entries of the state file, `leader` the leader lock; `pc`, `session`, `credential`
are what a process holds between two steps; the sessions are numbered by the
browser launch they come from and a credential has the number of its session.
Each section under the state file's lock is a step: `LoadPending`, `Recheck`,
`ReloadPending` or `OpenBrowser`, `RecordPending`, `StoreCredential`,
`ForgetPending`, `ForgetCredential`; the lock itself is exclusive and the file is
replaced atomically (`storage.py`), so nothing is lost by not modelling it here.
`Follow` and the first look at the credential read the file without the lock.
`Dies` stands for every failed request, for the callback that does not come within
300 s, and for a killed process; a poll may have been answered nevertheless.
`PollConsumes` selects between the tests' worker, which gives the same answer to
every poll, and a service that hands out a credential once and then says
`consumed`, an answer `_poll_enrollment_session` handles.

`needed` counts the approvals the host has had reason to ask for: one, and one more
after a death, an expiry, a revocation or a reset. `OneBrowserApproval` compares it
with the browser launches.

A consequence of `LeaderRecordsItsOwnSession`: the branch of
`_store_pending_enrollment` in which a session stored by somebody else wins is not
taken by processes that all use the leader lock.

### SemVer and Publisher

`SemVer` has a version as the groups that `SEMVER_RE` matches: three numbers, and the
prerelease identifiers, each a number or a word. `Below` is `_compare_semver`.

A branch is the sequence of its commits: equal sequences are equal refs, a prefix is an
ancestor. A source commit holds the version in `hub.yaml`, everything else that is
authored, and what the pointers were generated for; a release commit holds what its
output was generated from and whether its manifest is in order. `run` is what a
publisher has in its shell variables: `head` is the checkout, `sourceBase`,
`releaseBase`, `sourceCommit` and `releaseCommit` are the variables of the same names.

| actions | code |
|---|---|
| `PushSource`, `StartByHand`, `StartJob` | what starts a job, the commit it checks out, the toolchain it takes (any) |
| `FollowSourceBranch`, `LeaveToNewerPipeline` | the script of the GitLab job before `run.sh` |
| `StartInClone` | `run.sh` run by a person, on a commit that is not pushed |
| `SnapshotSource`, `SourceAdvanced` | `snapshot_publish_source` |
| `FetchRelease` | `copy_previous_release_branch` |
| `PrepareCommits`, `UnreadableRelease` | from `resolve_publish_version` to the two commits |
| `ReadRefs`, `LeaseIsStale` | `git push`: the client compares the advertised refs with the leases, except those that are up to date |
| `UpdateRefs`, `RefMoved` | `git push --atomic`: the server updates all refs that are sent, or none |
| `RunFails`, `OtherReleaseCommit` | a run that dies or is refused; a foreign commit on the release branch |

That git does not check the lease of a ref that is up to date is what `run.sh` 605-606
says of it, and what git 2.39 does. The serialisation of jobs by the CI service
(`concurrency`, `resource_group`) is not assumed: every property holds without it.

What a publication generates is its content and its toolchain; what versions are resolved
from is `BasisOf` these, any function: `versions.py` 95-97 compares names and bytes of the
files under `dist/<target>` and the manifest's tables, and outputs that differ elsewhere
have one basis. In `publisher_races` the toolchains differ for one content in the basis and
for the other only outside it.

`queue` holds the jobs not yet started. A publisher's own push starts none (README of
the repository, 122; the same holds of GitHub's job token). A person's publication from
a clone would; `StartByHand` stands for that job.

### HostConfig and SessionStart

`HostConfig` is the configuration file that `ensure` cleans: `file` is the file (its
managed markers and the user's edits), `saved` what the backups hold, `copy` what a
process has read. `ReadFile`, `BackUp` and `ReplaceFile` are the three accesses of
`_ensure_codex_config` and `_write_with_backup`; anything may happen between two of them.

`SessionStart` extends it by the rest of a session start. A process is a *launcher*
(`session-start --detach`), the *supervisor* it spawns, or `ensure`, visible or quiet.

| variable | code |
|---|---|
| `seen`, `firstPending`, `firstShown`, `welcomed` | the keys of `host-enrollment.json` that notices use |
| `lastSeen` | `PendingPluginUpdate`; `UpToDate` is its absence |
| `held` | `update_notice`, `first_success_notice`, `internal_welcome_notice` of a run |
| `out` | `_PENDING_CONTROL_OUTPUT` and its priority |
| `file`, `saved`, `copy` | see above |
| `shown`, `repeated`, `baseline`, `unsafe`, `replacing` | bookkeeping for the properties |

| actions | code |
|---|---|
| `Launch`, `StartEnsure`, `NoSources` | the two commands; a supervisor is spawned first and announces nothing |
| `ReadUpdate`, `ClaimDeferred`, `ClaimWelcome` | the locked sections of `notices.py` that come before the output |
| `OpenBrowser`, `EnrollmentPends`, `GetPolicy` | `_run_host_enrollment` up to the policy; how the credential comes about is `Enrollment`'s |
| `ReadConfig`, `BackUpConfig`, `ReplaceConfig` | `_ensure_host_config` |
| `Settle` | the check-in, then the first success is claimed, deferred or, by a quiet run, left |
| `EmitAndRecord`, `Flush` | `_emit`, the record of the version, and the `finally` of the command |
| `EnsureFails`, `StateFileFails`, `Die` | an exception after which the error is put out; a state file that cannot be used, which notices swallow; a kill |
| `InstallUpdate`, `Reset`, `EditConfig` | the plugin is updated, `reset`, the user edits |

A one-time notice is identified by what it stands for: the first success by the number
of resets before it, the welcome by its version.

### HookLauncher

| variable | code |
|---|---|
| `disk` | the files of each installed version of the plugin: absent, not readable, good |
| `hook` | host, event, plugin root and whether there is a Python: what the hook is called with |
| `pc`, `at`, `pass`, `file`, `siblings`, `chosen` | where the script is: version, pass (exists, readable) and file of the check, versions left, version to run |
| `back`, `loaded` | the detached process and how far it, or the launcher, has read the bundle |
| `collected`, `told`, `recorded` | what came of it: uploads, messages or exit code of the hook, entries of the diagnostic log |
| `killed`, `unloaded`, `touched` | bookkeeping: killed by the host; processes that could not load; versions changed since the script began to look at them |

| actions | code |
|---|---|
| `FindRoot`, `NextFile`, `OwnIsChecked`, `ListSiblings`, `SiblingIsChecked`, `Probe` | the script, once in JavaScript for Claude (`_node_host_runtime_hook_script`) and once in shell for Codex; where they differ the action asks for the host |
| `LauncherReads`, `LauncherCannotLoad`, `LauncherCannotStart`, `Detach`, `CannotDetach`, `Notices` | the launcher: load, copy the input, spawn the supervisor, announce |
| `SupervisorReads` to `CollectDesktop` | `_supervise_session_start` |
| `CollectorReads` to `Gather` | `_supervise_collect` and the collector it starts |
| `Change`, `Kill` | the host's installer (one file of one version at a time), the host's timeout |

What the work does is the matter of the other modules; here it ends well or fails.
A bundle is loaded file by file, in each process anew.

### PluginRendering

No state: an asset as one target sees it, the destination and the name validation claims
for it (`Claims`, `Destination`, `Invocation`), the place the renderers write it to
(`Rendered`), and that two accepted assets are not written to one place
(`AcceptedIsApart`). `HubMC` has TLC evaluate it for all pairs of assets over three names,
two of which differ in case; `HubProofs` proves it for all.

### HubScan and HubBuild

| variable | code |
|---|---|
| `source` | the scanned repository: skill directories, root MCP files, Cursor's |
| `skills`, `mcps`, `sidecar` | `assets/skills`, `assets/mcps`, the sidecar of Cursor's file: absent, empty or written |
| `includes`, `pluginEmpty` | the references of `plugins/pig.yaml`; whether that file is empty |
| `pc`, `dir`, `copied`, `found`, `rootServers` | where the running command is, and the locals of `scan_hub` |
| `out`, `compiled`, `path` | the generated paths, the build's temporary directory, how many paths are replaced |
| `scanned`, `built` | bookkeeping: the last scan (build) ended well and nothing it read has changed since |

| actions | code |
|---|---|
| `BeginScan` to `SkillImported` | `_import_skills`, `_copy_skill_tree`: empty the destination, copy file by file; `RefuseSkill`, `MeetLink`: what ends the scan |
| `ReadRoot`, `CopyRoot`, `ReadCursor`, `CopyCursor`, `RefuseMcp` | `_import_mcp_configs`, `_copy_mcp_config`: a copy opens, and so empties, its destination, and then writes it |
| `OpenSidecar`, `WriteSidecar` | the sidecar of `_copy_mcp_config`: `write_yaml` truncates the file and then writes it |
| `OpenPlugin`, `WritePlugin` | `_update_pig_plugin`, likewise |
| `BeginBuild`, `RemovePath`, `CopyPath`, `EndBuild` | `build_hub`, `replace_tree` |
| `ScanDies`, `BuildDies`, `EditSource` | a killed command, a change of the repository |
| `RestorePlugin` | a person removes an empty `pig.yaml`, which no command takes, and `pig init` makes it anew |

`Compiles` is what `load_plugins`, `load_assets`, `validate_hub` and `collect_mcp_servers`
refuse of a hub: an empty plugin, a skill without SKILL.md, two files of one asset, a sidecar
without its file, a file that cannot be read or is otherwise refused, a literal secret, a
reference to nothing, the reserved skill, invocation names that clash (`GetAlong`, by
`PluginRendering`), a server merged twice. `Acceptable` says the same of the scanned
repository: `DeliveredIsDeclared` relates the two. `Servers` the merge of MCP servers for a target, `CheckPasses` the check. What is
generated is represented by what it was made from (`Payload`), and marketplace files, which
hold ids and names only, by `Listing`. `Cloned` is git: files without empty directories.
The commands run one after the other, as a person runs them; nothing in the code keeps
two of them apart.

## 4. Runs

All runs check for deadlock except `reader`, whose loop ends, and those of the
publisher, which stop when every run allowed by the bounds has ended. Bounds are named
constants of the modules.

| run | instance | states | shows |
|---|---|---|---|
| `reader` | every content of up to 9 bytes over {byte, newline}, every start offset; limit 4, target 3 | 22 k | the ranges tile the complete records, nothing is left behind, and a longer file never yields a shorter range for the same start |
| `collector_safety` | 2 collectors, one shared transcript of up to 6 bytes written in whole or partial records, 2 faults | 1.1 M | `WorkerOneRangeAhead`, `ConflictsReconcile`, refinement of `TranscriptDelivery` (which an archive that is no beginning of the transcript would break) |
| `collector_mishaps` | 2 collectors, up to 4 bytes, 2 faults and 2 mishaps (replaced, lost, corrupted) | 946 k | `ClaimsAreCommitted`, `ArchiveIsOneGeneration`, `LedgerForwardOnly`, `ArchiveIsTranscript` for sources that were not replaced |
| `collector_liveness` | a session with a transcript and one that sweeps two sources, 1 fault, 1 lost file, with or without catch-up time | 29 k | `EverythingUploaded` |
| `enrollment` | a start, an `enroll` command, a collector; any one mishap; a service that hands out a credential once; up to 5 browsers | 42 k | `LeaderRecordsItsOwnSession`, `RunAsksTwiceAtMost`, `EventuallyEnrolled` |
| `enrollment_recheck_race` | 2 starts, no mishap | | violates `OneBrowserApproval` |
| `publisher_races` | 2 publishers, 2 contents, 2 toolchains, versions 0.1.0-alpha and 0.1.1; 1 push, 1 run by hand or in a clone, 1 mishap; both kinds of host | 807 k | `ReleasesMoveForward`, `PublicationsAreWhole`, `UnpublishedIsNoticed`, `NothingIsOverwritten`, `LandsOnItsSnapshots`, `UnchangedRerunCreatesNoCommits`, `HighRequestIsHonoured` |
| `publisher_request` | 1 publisher, 1.0.0-alpha and then 1.0.0 | | violates `RequestIsHonoured` |
| `session_start` | 2 processes: launchers with supervisors, visible `ensure`; 2 plugin versions; any one death, failure, reset or edit | 3.6 M | `OneTimeNoticesOnce`, `ClaimedIsShown`, `RecordedIsAnnounced`, `EditsAreKept` |
| `hook_launcher` | either host and event, 2 versions of 2 files in any state, 2 changes by the installer, 1 failure, a kill at any time | 276 k | `CheckedBundleLoads`, `StartFailureIsKnown`, `TerminalIsQuiet`, `OwnBundleFirst`, `TerminalCollects` |
| `hub` | four skill directories, of which two map to one id, one to the reserved id, and one has a skill with the name of another; one server with three possible commands, one of them a secret; every kind of MCP file, all four targets; one edit, one death | 2.9 M | `ImportedSkillsMirror`, `CursorOnlyStaysOnCursor`, `DeliveredIsDeclared`, `CommittedOutputPasses` |
| `hub_clone` | a hub for Claude only | | violates `CommittedOutputPasses` |

**Why the bounds are enough.** In the reader, 9 bytes with a record limit of 4 and a
target of 3 hold oversized records, records between target and limit, ranges of
several records, and any two of these next to each other. In the collector, a lost
answer followed by growth and a retry takes two records (4 bytes); a third lets the
reconciled remainder be posted as well; two faults give a lost answer and a late
request, or two of either; two collectors are enough for every race for the ledger,
since at most one holds it. In `collector_liveness` records and chunks are of one byte, and
the worker never stands inside a request, so that no 409 is answered: that conflicts are
reconcilable is shown by `collector_safety`. A mishap and a fault in each order are covered by two
of each. In the enrollment three processes of the three kinds hold the leader, a
follower or second poller, and one that drops the credential; a mishap between any two
steps is every way in which one run is interrupted. The first browser is opened by
anybody, and four more cover a browser after each way an approval is lost; where the bound
is met a behaviour cannot ask again, which for an invariant only ends it early, and
`EventuallyEnrolled` holds in spite of it.
In the publisher,
two runs that overlap, a push between any two of their steps, and a foreign commit
or a failed run are all in one run; three publications in a row (first job, the push's
job, the one by hand) let a version be bumped from a prerelease to 0.1.1, where it meets the
version that people ask for. All properties of the run are proved for all bounds.
Publishers are interchangeable, and so are toolchains (`Names`).
In the session start, sections of the state file are single steps and what a process
carries is its own, so a notice shown twice or swallowed takes two processes at a
time; slots are used again, so that any number follow one another. One edit between any
two steps of two cleaners is every order of the three accesses. `session_start` leaves
the quiet `ensure`, which neither claims nor records, to the proofs; slots are
interchangeable (`Slots`). All its invariants are proved for all bounds.
In the hooks, two versions are the plugin's own and one beside it, either of which may be
the later in order; two files are the first, which the shell lists versions by, and
another. Two changes damage a version that was accepted and one that was about to be
chosen, or repair one and damage the other. The invariants are proved for all bounds. In
the hub, one server is enough, as servers are merged name by name; what the repository may
be at first is every combination of MCP files with the first two directories, and for what
validation refuses every combination of the three directories that clash, a refused file,
and every combination of MCP files with a secret (`HubMC`); a death or an error at every
step, also between opening a file and writing it, precedes a scan that ends well. The properties of these runs and of the reader and the collector are proved for
all bounds as well.

**Fairness of the collector.** Weak fairness of each process's own steps and of the
worker's answer: a run is a running process, every request has a timeout, and hooks
keep firing. Strong fairness of taking the ledger lock: a waiting run polls every
50 ms and the holder lets go after each request, so a run that polls for ever finds
it free. Faults, mishaps and appends are not fair and are bounded.

**Fairness of the enrollment.** Weak fairness of each process's steps (sessions keep
starting, each wait has a deadline), and the user answers a request that does not
expire first. Nothing says which comes first, the user's answer or the deadline of
the poll. There is no fairness of the leader lock beyond that: it is tried once.

**Fairness of the hooks.** Weak fairness of the hook's processes and of the detached ones:
they run, and every request they make has a timeout. Nothing is assumed of the installer,
of the host's timeout or of failures; `TerminalCollects` names them as what may come
between.

## 5. Findings

`enrollment_recheck_race`: starts A and B both find nothing pending. A becomes leader,
opens the browser, records session 1 and gives up at the 35 s deadline of the poll. The
user approves. B now gets the lock, becomes leader and re-checks the credential: none
yet. The next start of A finds session 1 pending, polls it without the leader lock,
stores the credential and pops the session. B's second look, at the pending session,
finds nothing, and B opens a second browser for a host that is enrolled by then. The
comment at `enrollment.py` 213-214 says of the unlocked poll that "no cross-plugin
coordination is needed here", and `src/README.md` 780-782 promises "at most one browser
approval".

A second way to the same outcome, which has no run of its own: two starts hold the same
revoked credential. The first gets its 401, forgets it, enrolls again and stores a new
one. Then the second gets its 401 and `_forget_cached_host_credential` deletes the stored
credential, which is the new one, and a second browser is opened.

A third way to the same outcome needs a service that hands out a credential once
(`PollConsumes`): of two pollers one is approved and the other is told `consumed`; the
second drops the pending session before the first has stored the credential.

None of the three loses the enrollment: `EventuallyEnrolled` holds, with such behaviours
included.

`publisher_request`: the last release is 1.0.0-alpha; `hub.yaml` is set to 1.0.0 and the
content changes. `_bump_patch` makes 1.0.1 of 1.0.0-alpha, which is above 1.0.0, and
that is released. `src/README.md` 250-251 says that a higher version in `hub.yaml`
requests that release. `BumpIsAbove` and `ReleasesMoveForward` hold: the version is
only higher than necessary. Section 6 shows how far the promise does hold: always between
versions without prerelease (`FinalRequestsAreHonoured`).

`hub_clone`: `render_target_plugins` makes the directories `.agents/plugins`,
`.claude-plugin` and `.cursor-plugin` for every hub, but writes a marketplace file only for
the hub's targets (`render/plugins.py` 29-30, 46-51), and `trees_equal` tells an empty
directory from none (`fs.py` 162-163). Git keeps no empty directories. A hub without one of
these targets that commits its generated output finds their paths stale in every
clone, although `src/README.md` 198-200 offers `pig build --check` for hubs that
keep generated files in the branch. With all targets the property holds (run `hub`).

## 6. Proofs

`SourceRangesProofs`, `SourceReaderProofs`, `TraceCollectorProofs`, `EnrollmentProofs`,
`PublisherProofs`, `SessionStartProofs`, `HookLauncherProofs` and `HubProofs` hold theorems
for every value of the constants, from the named assumptions of the modules. Every
invariant and action property that a passing run checks is one of them; what the runs add is
liveness, and the confidence that the instances reach the interesting cases.

**The collector.** `TypeCorrect`: `Spec => []TypeOK`, with the invariant `IInv`. That the
ledger does not reach further than the worker (`LedgerBehindWorker`) is not inductive:
a run writes to the ledger what follows from the ledger it loaded, the request it
posted and the answer it got, all of which are older. `IInv` adds that a
request carries exactly the bytes of its range and of the prefix before it
(`RequestsWellFormed`), that an answer belongs to a request (`InFlight`), and that what
was loaded and what was answered is behind the worker (`LoadedBehindWorker`,
`AnswersBehindWorker`). The argument: the worker's watermark only grows
(`WatermarkGrows`), so whatever was behind it stays so; every step is one of five
changes to a run (`AllRunsStep`); and the two ways an entry is written,
`AcknowledgedEntry` and `ReconciledEntry`, end where the answer says.

**The bytes.** `LedgerClaimsCommitted`: `Spec => []ClaimsAreCommitted`, and
`GenerationsApart`: `Spec => []ArchiveIsOneGeneration`, whatever was replaced, lost or
corrupted. The worker compares offsets only, so that nothing it does keeps two files
apart. What does is what each request carries unseen: its `prefix`, the bytes before its
start, which the reader compared with the ledger's entry. `GInv` says that they are the
beginning of the archive (`WireFollowsArchive`), that a request was cut from one generation
of its file (`WireOfOneGeneration`), and that what was answered and loaded is archived. A
commit at the watermark then continues the file it was cut from (`CommitIsUpto`). Excepted are
the sources in `mistaken`: a replaced file whose range was taken for a duplicate
(`OnlyReplacedMistaken`: no other source gets there).

**What the worker has.** `ArchiveFaithful`, `OneRangeAhead`, `EveryConflictReconciles`,
`LedgerMovesForward`. They rest on `DInv`, which follows the bytes from
the reader to the worker while the transcript grows under it. Every request on the
wire, posted or left behind by a run that died, was cut from the transcript it names
(`WireCut`), and begins beyond neither the worker (`WireBehindWorker`) nor the ledger
(`WireBehindLedger`); one that is still posted continues the entry its run loaded
(`FromLoaded`), which is the ledger's as long as the run holds the lock (`HolderLoaded`);
the worker has the transcript up to its watermark, where a range ends (`WorkerCopies`). The delicate
part is a retry. The first request was lost or its answer was, the transcript has grown,
and the retry carries a longer range with the same start. Both may still reach the worker,
in either order. So the request that is posted last must be the longest of those with
its start (`PostedIsLongest`), for which a range must never shrink when its file grows
(`NextEndGrows`); then a conflict always names an end that the next read can continue
from (`ConflictIsWatermark`). What is excepted is what the code leaves open: a transcript
that was replaced and a ledger that was lost, which an unreadable one counts as
(`CorruptIsLost`).

**The delivery.** `DeliversInOrder`: `Spec /\ []OnlyGrown => IsDelivery`. As long as
transcripts only grow and no ledger is lost, every step of every collector, worker, fault
and crash is a step of `TranscriptDelivery` (more is written, the next piece is
delivered, or acknowledged) or a stutter (`StepIsDelivery`). `OnlyGrown` is a statement about
the environment, the same that the abstract specification makes; the runs without
mishaps satisfy it.

**The ranges.** `NextEndIsRecordEnd`: if there is a complete record behind the offset,
the next range exists, ends at a record end and is not empty, which is what makes every
request advance. `SliceProperties`: the bytes cut out have the length of the range.
`NextEndGrows`: a longer file yields the same range or a longer one.

**The reading loop.** `LoopYieldsTheRanges`, `LoopReadsToTheEnd` and `LoopRangesGrow`: the
loop of `_iter_source_events`, line by line, yields the ranges of the closed form for any
file and limits. The invariant says of the buffer that it is a range that may end
here (`BufferIsRange`), and two lemmas say when it has to: the next record does not fit
(`RangeIsFull`), or it does and the buffer with it is a range again (`RangeContinues`).

**The enrollment.** `LeaderExclusive`: `Spec => []LeaderRecordsItsOwnSession`. From taking
the lock to recording its session a process holds the lock (`LeaderHoldsLock`), only a
process in that section records a session, and the browser is opened only when no
usable session is pending; since nobody else can be in the section, none becomes
pending while the browser is open. `AsksTwiceAtMost`: `Spec => []RunAsksTwiceAtMost`, and
`EnrollmentTypes`. What a run may have opened depends on where it is: nothing before it has
asked, one window if it comes back there with a rejected credential, which
happens once (`BrowsersCounted`).

**Versions.** `VersionsTotallyOrdered`: `Below` is a strict total order, although its
prerelease part compares numbers, words and lengths in turn. `BumpIsAbove`: a bumped
version is above the one before. `MaxIsHighest`: `MaxSemver` is below neither argument.

**The publisher.** `VersionsMoveForward`: `Spec => []ReleasesMoveForward`;
`PublicationsLandOnTheirSnapshots`: `Spec => LandsOnItsSnapshots`; `OriginOnlyGrows`:
`Spec => NothingIsOverwritten`; and type correctness with them (`PublisherTypes`).
None of them is inductive by itself, since what is pushed was made from branches read
earlier. The invariant adds, for each run, that what it holds is right by itself
(`RunOK`): its commits extend the bases it read; its release moves forward from its
base, by the total order (`PublishVersionForward`, `ForwardAppend`); and it changes
both branches or none. So both refs are sent and compared by the server, or none is;
and if the source ref turns out to be up to date, the run made no source commit, so its
release has the output of the one before (`PreparedCommits`, `PushExtends`).

`PublicationsLandWhole`: `Spec => []PublicationsAreWhole`; `RerunsCreateNoCommits`:
`Spec => UnchangedRerunCreatesNoCommits`; `NothingUnpublishedGoesUnnoticed`:
`Spec => []UnpublishedIsNoticed`. They need `PInv`, which relates the runs to origin: the
commits of a run are a function of what it read (`MadeFromBases`); what it read is a prefix
of what is there, or somebody's own commit that is not (`HeadIsKnown`, `BaseIsBehind`); if
both branches end with a publication, it is the same one (`InStep`); what counts under each
publisher, hub and version adds up (`AllAreWhole`, of which a push adds one to both sides:
`PushIsWhole`); and the hub on the
source branch is released, or a run for it waits, is under way or has failed (`Owed`).
The exception again is the run that finds its source commit pushed by others: nobody but
people has pushed after it (`OnlyPeoplePushed`), or the release branch would have changed.
The attempt to prove `UnpublishedIsNoticed` found an error of the model, at bounds beyond
those of the run: the failure of the job for a new hub was forgotten when a run for an
older one succeeded. `failed` now is forgotten only by a run that found the source branch
as it has to be, or by a push that changes the hub.

`HighRequestsAreHonoured`: `Spec => HighRequestIsHonoured`; `FinalRequestsAreHonoured` says
where `RequestIsHonoured`, which the run `publisher_request` refutes, does hold. By `PInv` a
run that lands has the last release as its base, so the version that lands is the one
computed from it (`LandedVersion`), and that is the request unless the next patch is above it
(`RequestFromNextPatch`). Between a final version and its next patch there is no other final
version (`FinalIsNotPassedOver`), so only a prerelease, or the final version that one leads
up to, can be passed over.

**The session start.** Every invariant of the run is proved: `NoticesAreShownOnce`,
`ClaimedNoticesAreShown`, `RecordedVersionsAreAnnounced`, `UserEditsAreKept` and
`SessionStartTypes`. `OneTimeNoticesOnce` only speaks of what has been shown; the
invariant (`IInv`) says where every one-time notice is: latched if it is anywhere, with one
process or shown but never both, and somewhere while the state file calls it shown
(`NoticesInv`). A step leaves the notices where they are, claims one that was not
latched, or hands those of a process over (`NoticesStay`, `NoticeIsClaimed`,
`NoticesAreHandedOver`). That a process cannot lose what it has claimed is a fact about
priorities and order (`RunOK`): up to its check-in, after which nothing raises, it has
claimed nothing, and the only output that can be queued before the last one is the
browser banner, whose priority is below that of every result (`EmitHandsOver`). The
user's edits need one fact of the control state, `ReplacersBackedUp`, and one of the
file: while somebody is about to replace it, all edits but the unsafe ones have a backup
(`BackedUp`).

**The hooks.** All five invariants of the run: `AcceptedBundleLoads`, `NoSilentStart`,
`QuietTerminal`, `OwnVersionFirst`, `TypeCorrect`. The central fact is about a check that
takes many steps: as long as the installer leaves the version alone, every file the second
pass has gone by is readable (`PassedFilesAreGood`); so the chosen version is complete until
the installer comes to it (`ChosenIsComplete`), and whoever cannot load it has the
installer to thank (`LoadersNeedAChange`). A version that is looked at again, as the
plugin's own is when the siblings are listed, starts with a clean record. What was said and
logged follows step by step (`Talk`, `WorkIsTraced`). That `First` of a set of versions
exists is proved from the well-foundedness of the strict subset order, as induction over
numbers is not available.

**The hub.** `RenderedApart`: in an accepted plugin of any size nothing among the skills and
commands is written over another asset or over the compiler's update skill. Whatever is written
there is claimed, at exactly the place it is written to (`WrittenIsClaimed`), and claims are
compared. `SkillsMirror`: `Spec => []ImportedSkillsMirror`; while a scan goes through the
directories, those it has gone by are in the hub as they are in the repository (`SoFar`) and the one
it copies has the files it has gone by and no others (`CopySoFar`). A second directory of
the same id cannot spoil the first, because it ends the scan before it touches anything.
`CursorOnly`: `Spec => []CursorOnlyStaysOnCursor`; nothing refers to Cursor's servers before
their sidecar is there (`SidecarFirst`), which then is absent no more; the property's
hypothesis is that it is not empty. `RepositoryIsDelivered`:
`Spec => []DeliveredIsDeclared`, for any number of scans and builds that died or failed on
the way: after a scan an unchanged repository's hub compiles if and only if validation
refuses nothing the repository has (`HubCompiles`). It holds because nothing that was written is taken away (`RefsHaveAssets`), and
what a hub has of a repository that nobody changed can only be that repository's own
(`Unedited`): every skill has a directory, the only MCP file is the root's under its
own suffix, and Cursor's is there only if it adds something. A scan that ends well then
completes it, wherever an earlier one stopped; files that were emptied by one that died are
the repository's own under their names, and are written again (`McpsSoFar`). `HubTypeCorrect` is type correctness.
`BuildThenCheckPasses`: after a build that ended well a check of that worktree passes; the
paths a build has gone by are what it compiled (`Replacing`), and the hub has not changed
since (`WellBuilt`). `ClonePasses`: `Spec => []CommittedOutputPasses` under the hypothesis
that the hub has all three targets with marketplaces, which the hub of the run has.
`CloneFails` proves the other side, for all targets: without one of the three the check
fails in every clone, right after the build. This is the finding of `hub_clone`.

**Only model-checked.** Liveness (`EverythingUploaded`, `EventuallyEnrolled`,
`TerminalCollects`) needs ENABLED and is out of reach of the prover. So is induction over
data: the proofs use finite sets and the well-founded subset order where they need a first
or a greatest element. The two properties that the code violates
(`OneBrowserApproval`, `RequestIsHonoured`) are shown by counterexamples.

## 7. Limits

Abstracted in the collector: a source is read in one step (the code takes its size
first and stops there, so what is appended during the read is not read); a batch holds one
chunk (`MAX_UPLOAD_CHUNKS_PER_BATCH` is 1) and the second event the generator reads
ahead is not modelled; batch ids, lifecycle events and metadata; ledger entries
of older versions, which have no digest; the policy request at the start of a run is in
`Enrollment`.

Two generations of a transcript can be mixed after all, with the worker of the tests. A file
is replaced after some of it was committed, or between a post and its answer; the
identity check finds no match with the ledger, and the new file is posted from offset 0.
If that range ends at or below the worker's watermark, the worker takes it for a duplicate
and accepts it (`helpers.py` 643-646); the ledger records bytes that were never committed,
and the next range of the new file starts at the watermark and is appended to the bytes of
the old one. `src/README.md` 694-699 says that a replacement "cannot silently mix two source
generations", and also that "rewinds" and "changed source identities" are not reconciled. The
real worker is not in the repository, so that this is a limit of the models and not a
finding: `mistaken` has the sources it happened to, and `ClaimsAreCommitted` and
`ArchiveIsOneGeneration` hold of all others.

What the models do not claim: after a transcript was replaced, or a ledger with two
or more committed ranges was lost, the worker's 409 is not one the runtime
reconciles; every later run ends in an error there and later sources in path order
wait. The README of the repository says so (698-699), and `EverythingUploaded` excludes
these sources.

Abstracted in the enrollment: other cache keys, the host instance id, the internal-identity
flag, the content of policies, check-ins; that a follower's or collector's first look
at the file happens without the lock makes no difference, as the file is replaced
atomically.

Abstracted in the publisher: a hub's content and the toolchain are names, and with the
version they determine the output; different content or another toolchain is always
another output, though not always another version basis. An output that differs outside the
basis only (modes of files, the marketplace files at the root) is published under the version
that is out already; `src/README.md` 248-249 says "changed output advances the patch
version", and `ReleasesMoveForward` claims it of the basis only. Build metadata of versions, which no comparison looks at. A manifest is
in order or not. Branches are only extended: that somebody rewrites the source branch,
deletes the release branch or reverts it is outside the model. A job that fails because
another push came first is not retried by anyone; the repository says "rerun from the
latest source branch after a race", and `UnpublishedIsNoticed` says that the failure is
visible. A publication that changes neither the source nor the output may land although the
source branch moved to its own commit meanwhile, since git looks at no lease of a ref that is up
to date; `src/README.md` 256-257 allows no exception, but this one harms nothing.

Abstracted in the session start: one agent host (each has its own keys); the diagnostic
log and the last status; failures of a launcher before it has spawned its supervisor, which
touch no notice; a failure of the standard streams; a state file that was replaced
and whose directory then could not be synced, which the code takes for not written.
Of `_has_internal_promptless_identity` and the claim of the welcome, two sections, only
the second is a step: the first only reads, and its result is a choice.

Abstracted in the hooks: exceptions that the handlers of `cli.py` do not name and a
diagnostic log that cannot be written, either of which would leave a failure of the supervisor
unknown in spite of `StartFailureIsKnown`; what enrollment, notices and collection do; the size of the hook's
input and its wording; the Pythons do not change while they are probed. Versions are
numbered in the order of their directories' names, which is the order of both scripts
and not that of versions: 0.10.0 comes before 0.9.0. A version that runs in place of the
plugin's own reports the version of the plugin root. How the compiler puts bundle
and hooks into the plugins is not modelled.

Abstracted in scan and build: a skill's directory is the set of its files, one of which
stands for what may not be imported and one for what validation refuses in a file; the
front matter of skills can be read, and an `asset.yaml` that comes with a skill narrows
nothing; `rmtree` and a copied file of a skill are one step; the inventory of context
files, which nothing reads; other configuration errors of the hub itself; server
configurations are compared as a whole. While an MCP file is copied the repository does not
change. Nobody edits the hub by hand, but for a plugin file that has no contents, and no two
commands overlap.

Cursor's servers can reach other targets. The MCP files, the sidecar and `pig.yaml` are
written in place. A scan that dies after `write_yaml` has truncated the sidecar of
`cursor-mcp.json` leaves an empty one, which says nothing about targets, and
`_merge_default_support` gives it all of them; if an earlier scan has imported Cursor's file,
the plugin refers to these servers already. The reason the sidecar itself gives is
"Cursor-specific MCP config is only distributed to Cursor." (`scan/hub.py` 273). The next scan that imports Cursor's file repairs it, but none does once
that file is gone or the root file covers it. `CursorOnlyStaysOnCursor` excepts the empty
sidecar, and nothing else: absent, it has not been referred to yet. A scan that dies while
it writes `pig.yaml` leaves that empty, and then no scan, build or init does anything
until somebody removes it (`RestorePlugin`).

What these models do not claim. `DeliveredIsDeclared` is about a repository that did not
change since the hub was made (`edits = 0`), because a scan only adds and replaces: after
`.mcp.json` has become `mcp.yaml` the hub has two files of one asset and no longer
compiles; Cursor's servers stay in the hub after the root file has come to cover them; a
skill whose source directory is gone stays, also if a failed scan left half of it. After a
failed scan a half-copied skill that has its SKILL.md compiles. A scan replaces an
imported skill with all that was edited in it. A server file without a map of names gets
its default name from its stem in the scan and from the asset's id in the hub. Validation
compares skills, commands and agents that become skills; that two rules or projections have one
id in `rules/` or `projected/` is not looked at and not claimed by `AcceptedIsApart`.

What the models do not claim of the session start: a notice whose process is killed
between claim and flush is
lost, and so is an update notice between the record of its version and the flush, since
`_record_plugin_version_seen` comes after `_emit`, which only queues, and before
`_flush_control_output` (`ClaimedIsShown` and `RecordedIsAnnounced` count what a dead
process had in hand as shown). A run of an older version that ends late sets
`last_seen_plugin_versions` back, and the update is announced again. A deferred
`needs_restart` is replaced by a later `configured`. That a deferred success is announced
in the end needs a healthy run to follow and was not checked.

Not modelled: the formats that the renderers write, native hooks and their runtime, the
rotation of the diagnostic log, and the components marked so in `PROJECT.json`, with the
reason given there: contracts, metadata and redaction are constants and functions without
state; the command line dispatches; the smoke test is a driver.
