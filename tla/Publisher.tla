----------------------------- MODULE Publisher -----------------------------
(***************************************************************************)
(* Publication of a hub: run.sh in publish mode, the version it resolves   *)
(* (versions.py) and the GitLab job around it.  A publisher reads the      *)
(* source branch, then the release branch, builds, and pushes one commit   *)
(* to each in an atomic push under leases, while developers and other      *)
(* publishers push too.                                                    *)
(*                                                                         *)
(* A branch is the sequence of its commits, so that equal sequences are    *)
(* equal refs, and a prefix is an ancestor.  Branches are never rewritten  *)
(* here: that is for their owners to do, and they do not.                  *)
(*                                                                         *)
(* Abstracted: a hub's content and a toolchain are names, and together     *)
(* with the version they determine the generated output (the tree of a     *)
(* release) and the marketplace pointers; BasisOf is the part of the       *)
(* output that versions are resolved from.  Push credentials and branch    *)
(* names are left out.                                                     *)
(***************************************************************************)
EXTENDS SequencesExt, SemVer

CONSTANTS
  Publisher,  \* runs of run.sh that can overlap
  Content,    \* what people author in the hub
  Toolchain,  \* the toolchain revisions in use
  BasisOf,    \* the version basis of a content and a toolchain
  Requested,  \* the versions people write into hub.yaml
  MaxPushes,  \* bound: pushes by people
  MaxByHand,  \* bound: runs started by hand
  MaxMishaps  \* bound: runs that die or are refused, foreign release commits

ASSUME PublishersAreNoPeople == Publisher \cap {"developer", "other"} = {}
ASSUME BasisOfOutputs == DOMAIN BasisOf = Content \X Toolchain
ASSUME RequestedAreVersions == Requested \subseteq Version
ASSUME PublisherBounds == MaxPushes \in Nat /\ MaxByHand \in Nat /\ MaxMishaps \in Nat

VARIABLES
  host,    \* "github" or "gitlab": what starts a run, and from where
  source,  \* the source branch at origin
  release, \* the release branch at origin; <<>> while it does not exist
  queue,   \* jobs that wait, by the length of the source branch they were started for
  run,     \* what each publisher has in hand
  failed,  \* a run failed since the hub on the source branch last changed, and
           \* none that found the branch as it was to be has succeeded since
  pushes, byHand, mishaps

vars == <<host, source, release, queue, run, failed, pushes, byHand, mishaps>>

NoPointers == "no pointers"
Author == Publisher \cup {"developer", "other"}

(* A source commit: hub.yaml's version, everything else that is authored,  *)
(* and what the marketplace pointers were generated for.  A release        *)
(* commit: the output, and whether its manifest is in order.               *)
SourceCommit ==
  [by : Author, content : Content, version : Version, pointers : Content \cup {NoPointers}]
ReleaseCommit ==
  [by : Author, content : Content, tool : Toolchain, version : Version, intact : BOOLEAN]

Step == {"idle", "queued", "checked out", "snapshot", "fetched", "prepared", "pushing",
         "pushing release"}
Run ==
  [step : Step, head : Seq(SourceCommit), tool : Toolchain \cup {"none"},
   sourceBase : Seq(SourceCommit), releaseBase : Seq(ReleaseCommit),
   sourceCommit : Seq(SourceCommit), releaseCommit : Seq(ReleaseCommit)]

NoRun == [step |-> "idle", head |-> <<>>, tool |-> "none", sourceBase |-> <<>>,
          releaseBase |-> <<>>, sourceCommit |-> <<>>, releaseCommit |-> <<>>]

Init ==
  /\ host \in {"github", "gitlab"}
  /\ source \in {<<[by |-> "developer", content |-> c, version |-> v, pointers |-> NoPointers]>> :
                   c \in Content, v \in Requested}
  /\ release = <<>>
  /\ queue = {1}
  /\ run = [p \in Publisher |-> NoRun]
  /\ failed = FALSE
  /\ pushes = 0
  /\ byHand = 0
  /\ mishaps = 0

At(p, step) == run[p].step = step

\* The hub as run.sh compiles it.
Hub(p) == Last(run[p].head)

RunEnds(p, withFailure) ==
  /\ run' = [run EXCEPT ![p] = NoRun]
  /\ failed' = withFailure

origin == <<source, release>>
bounds == <<pushes, byHand, mishaps>>

----------------------------------------------------------------------------
(* People, and what starts a run                                           *)

ChangesHub(content, version) ==
  content # Last(source).content \/ version # Last(source).version

(* Mistake: hub.yaml is not among the paths whose changes start a job. *)
PushContent(content, version) ==
  /\ pushes < MaxPushes
  /\ pushes' = pushes + 1
  /\ source' = Append(source, [Last(source) EXCEPT !.by = "developer",
                                                   !.content = content, !.version = version])
  /\ queue' = IF host = "github" \/ content # Last(source).content
              THEN queue \cup {Len(source) + 1} ELSE queue
  /\ failed' = (failed /\ ~ChangesHub(content, version))
  /\ UNCHANGED <<host, release, run, byHand, mishaps>>

(* A push to the source branch starts a run; on GitLab only one that       *)
(* changes the hub.                                                        *)
PushSource(content, version) ==
  /\ pushes < MaxPushes
  /\ pushes' = pushes + 1
  /\ source' = Append(source, [Last(source) EXCEPT !.by = "developer",
                                                   !.content = content, !.version = version])
  /\ queue' = IF host = "github" \/ ChangesHub(content, version)
              THEN queue \cup {Len(source) + 1} ELSE queue
  /\ failed' = (failed /\ ~ChangesHub(content, version))
  /\ UNCHANGED <<host, release, run, byHand, mishaps>>

StartByHand ==
  /\ byHand < MaxByHand
  /\ byHand' = byHand + 1
  /\ queue' = queue \cup {Len(source)}
  /\ UNCHANGED <<host, origin, run, failed, pushes, mishaps>>

(* A job checks out the commit it was started for.                         *)
StartJob(p) ==
  /\ At(p, "idle")
  /\ \E n \in queue, t \in Toolchain :
       /\ run' = [run EXCEPT ![p].step = IF host = "gitlab" THEN "queued" ELSE "checked out",
                             ![p].head = SubSeq(source, 1, n),
                             ![p].tool = t]
       /\ queue' = queue \ {n}
  /\ UNCHANGED <<host, origin, failed, bounds>>

(* Someone runs run.sh in a clone, on a commit that is not pushed yet.     *)
StartInClone(p, content) ==
  /\ At(p, "idle")
  /\ byHand < MaxByHand
  /\ byHand' = byHand + 1
  /\ \E t \in Toolchain :
       run' = [run EXCEPT ![p].step = "checked out",
                          ![p].head = Append(source, [Last(source) EXCEPT !.by = "developer",
                                                                          !.content = content]),
                          ![p].tool = t]
  /\ UNCHANGED <<host, origin, queue, failed, pushes, mishaps>>

\* The paths the GitLab job compares: hub.yaml and what else is authored.
SameHub(a, b) == a.content = b.content /\ a.version = b.version

(* The GitLab job takes up the commits that came after its own if they     *)
(* leave the hub as it is ...                                              *)
FollowSourceBranch(p) ==
  /\ At(p, "queued")
  /\ SameHub(Hub(p), Last(source))
  /\ run' = [run EXCEPT ![p].step = "checked out", ![p].head = source]
  /\ UNCHANGED <<host, origin, queue, failed, bounds>>

(* ... and otherwise ends without failing: "a newer pipeline owns          *)
(* publication".                                                           *)
LeaveToNewerPipeline(p) ==
  /\ At(p, "queued")
  /\ ~SameHub(Hub(p), Last(source))
  /\ RunEnds(p, failed)
  /\ UNCHANGED <<host, origin, queue, bounds>>

----------------------------------------------------------------------------
(* run.sh                                                                  *)

SnapshotSource(p) ==
  /\ At(p, "checked out")
  /\ IsPrefix(source, run[p].head)
  /\ run' = [run EXCEPT ![p].step = "snapshot", ![p].sourceBase = source]
  /\ UNCHANGED <<host, origin, queue, failed, bounds>>

SourceAdvanced(p) ==
  /\ At(p, "checked out")
  /\ ~IsPrefix(source, run[p].head)
  /\ RunEnds(p, TRUE)
  /\ UNCHANGED <<host, origin, queue, bounds>>

FetchRelease(p) ==
  /\ At(p, "snapshot")
  /\ run' = [run EXCEPT ![p].step = "fetched", ![p].releaseBase = release]
  /\ UNCHANGED <<host, origin, queue, failed, bounds>>

(* Mistake: what the toolchain generates is not part of the version basis. *)
SameContent(commit, content, tool) == commit.content = content

\* Both bases are taken at the previous version.  A basis holds the names and
\* bytes of the files under dist/<target> and what the manifest says of plugins,
\* assets and runtimes; outputs can differ in more (file modes, and the
\* marketplace files at the root) and still have the same basis.
ReleaseBasis(commit) == BasisOf[commit.content, commit.tool]
SameBasis(commit, content, tool) == ReleaseBasis(commit) = BasisOf[content, tool]

(* Mistake: the request is looked at only if the basis changes. *)
VersionOfSameBasis(p) ==
  LET previous == Last(run[p].releaseBase)
      configured == Hub(p).version
  IN IF run[p].releaseBase = <<>> THEN configured
     ELSE IF SameBasis(previous, Hub(p).content, run[p].tool)
     THEN previous.version
     ELSE MaxSemver(configured, BumpPatch(previous.version))

PublishVersion(p) ==
  LET previous == Last(run[p].releaseBase)
      configured == Hub(p).version
  IN IF run[p].releaseBase = <<>> THEN configured
     ELSE IF SameBasis(previous, Hub(p).content, run[p].tool)
     THEN MaxSemver(configured, previous.version)
     ELSE MaxSemver(configured, BumpPatch(previous.version))

Output(p) == [by |-> p, content |-> Hub(p).content, tool |-> run[p].tool,
              version |-> PublishVersion(p), intact |-> TRUE]

SameTree(a, b) == [a EXCEPT !.by = b.by] = b

\* prepare_release_commit: a commit unless the output is there already.
ReleaseWith(p) ==
  LET base == run[p].releaseBase
  IN IF base # <<>> /\ SameTree(Last(base), Output(p)) THEN base ELSE Append(base, Output(p))

\* Mistake: the version is not written back.
SourceWithoutVersion(p) ==
  IF \/ ReleaseWith(p) # run[p].releaseBase
     \/ Hub(p).version # PublishVersion(p)
     \/ Hub(p).pointers # Hub(p).content
  THEN Append(run[p].head, [Hub(p) EXCEPT !.by = p, !.pointers = Hub(p).content])
  ELSE run[p].head

\* prepare_source_commit: the version and the pointers, and an empty commit
\* if the release changes but they do not.
SourceWith(p) ==
  IF \/ ReleaseWith(p) # run[p].releaseBase
     \/ Hub(p).version # PublishVersion(p)
     \/ Hub(p).pointers # Hub(p).content
  THEN Append(run[p].head, [Hub(p) EXCEPT !.by = p, !.version = PublishVersion(p),
                                          !.pointers = Hub(p).content])
  ELSE run[p].head

\* Mistake: a release that does not change is left alone.
UnrecordedRelease(p) == ReleaseWith(p)

\* An empty commit on the release branch if only the source branch changes.
RecordedRelease(p) ==
  IF SourceWith(p) # run[p].sourceBase /\ ReleaseWith(p) = run[p].releaseBase
  THEN Append(run[p].releaseBase, [Last(run[p].releaseBase) EXCEPT !.by = p])
  ELSE ReleaseWith(p)

\* The previous manifest has passed every validator, or there is none.
InOrder(p) == run[p].releaseBase # <<>> => Last(run[p].releaseBase).intact

PrepareCommits(p) ==
  /\ At(p, "fetched")
  /\ InOrder(p)
  /\ run' = [run EXCEPT ![p].step = "prepared",
                        ![p].sourceCommit = SourceWith(p),
                        ![p].releaseCommit = RecordedRelease(p)]
  /\ UNCHANGED <<host, origin, queue, failed, bounds>>

(* The manifest of the last release is missing or not in order.            *)
UnreadableRelease(p) ==
  /\ At(p, "fetched")
  /\ ~InOrder(p)
  /\ RunEnds(p, TRUE)
  /\ UNCHANGED <<host, origin, queue, bounds>>

\* git push, the client: a ref that is where it should be already is up to
\* date, whatever its lease.  Others can have brought it there if the run adds
\* no commit to what it checked out; a commit it makes is nowhere else.
SourceIsUpToDate(p) ==
  source = run[p].sourceCommit /\ run[p].sourceCommit \in {run[p].sourceBase, run[p].head}
ReleaseIsUpToDate(p) ==
  release = run[p].releaseCommit /\ run[p].releaseCommit = run[p].releaseBase

LeasesHold(p) ==
  /\ SourceIsUpToDate(p) \/ source = run[p].sourceBase
  /\ ReleaseIsUpToDate(p) \/ release = run[p].releaseBase

(* The refs the server advertises are up to date or at their leases.  A    *)
(* ref that is up to date is not sent, and nothing guards it any more.     *)
ReadRefs(p) ==
  /\ At(p, "prepared")
  /\ LeasesHold(p)
  /\ IF SourceIsUpToDate(p) /\ ReleaseIsUpToDate(p)
     THEN RunEnds(p, FALSE)
     ELSE /\ run' = [run EXCEPT ![p].step = IF SourceIsUpToDate(p) THEN "pushing release"
                                            ELSE "pushing"]
          /\ UNCHANGED failed
  /\ UNCHANGED <<host, origin, queue, bounds>>

LeaseIsStale(p) ==
  /\ At(p, "prepared")
  /\ ~LeasesHold(p)
  /\ RunEnds(p, TRUE)
  /\ UNCHANGED <<host, origin, queue, bounds>>

Pushing(p) == At(p, "pushing") \/ At(p, "pushing release")
SourceIsSent(p) == At(p, "pushing")
ReleaseIsSent(p) == run[p].releaseCommit # run[p].releaseBase

\* Mistake: a forced push without leases.
Forced(p) == TRUE

\* The refs that are sent are where the client saw them.
RefsAreUnmoved(p) ==
  /\ SourceIsSent(p) => source = run[p].sourceBase
  /\ ReleaseIsSent(p) => release = run[p].releaseBase

(* Mistake: the push is not atomic; each ref is updated if it can be. *)
UpdateEachRef(p) ==
  /\ Pushing(p)
  /\ source' = IF SourceIsSent(p) /\ source = run[p].sourceBase
               THEN run[p].sourceCommit ELSE source
  /\ release' = IF ReleaseIsSent(p) /\ release = run[p].releaseBase
                THEN run[p].releaseCommit ELSE release
  /\ RunEnds(p, ~RefsAreUnmoved(p))
  /\ UNCHANGED <<host, queue, bounds>>

(* git push, the server: all refs that are sent, or none.                  *)
UpdateRefs(p) ==
  /\ Pushing(p)
  /\ RefsAreUnmoved(p)
  /\ source' = IF SourceIsSent(p) THEN run[p].sourceCommit ELSE source
  /\ release' = IF ReleaseIsSent(p) THEN run[p].releaseCommit ELSE release
  /\ RunEnds(p, failed /\ source' # run[p].sourceCommit)
  /\ UNCHANGED <<host, queue, bounds>>

RefMoved(p) ==
  /\ Pushing(p)
  /\ ~RefsAreUnmoved(p)
  /\ RunEnds(p, TRUE)
  /\ UNCHANGED <<host, origin, queue, bounds>>

----------------------------------------------------------------------------
(* Mishaps                                                                 *)

(* A run dies, or a step of it fails, or the server refuses an update.     *)
RunFails(p) ==
  /\ ~At(p, "idle")
  /\ mishaps < MaxMishaps
  /\ mishaps' = mishaps + 1
  /\ RunEnds(p, TRUE)
  /\ UNCHANGED <<host, origin, queue, pushes, byHand>>

(* Someone else commits to the release branch, and may damage the manifest *)
(* or put it in order.                                                     *)
OtherReleaseCommit(intact) ==
  /\ release # <<>>
  /\ mishaps < MaxMishaps
  /\ mishaps' = mishaps + 1
  /\ release' = Append(release, [Last(release) EXCEPT !.by = "other", !.intact = intact])
  /\ UNCHANGED <<host, source, queue, run, failed, pushes, byHand>>

PublisherStep(p) ==
  \/ StartJob(p)
  \/ FollowSourceBranch(p)
  \/ LeaveToNewerPipeline(p)
  \/ SnapshotSource(p)
  \/ SourceAdvanced(p)
  \/ FetchRelease(p)
  \/ PrepareCommits(p)
  \/ UnreadableRelease(p)
  \/ ReadRefs(p)
  \/ LeaseIsStale(p)
  \/ UpdateRefs(p)
  \/ RefMoved(p)

Next ==
  \/ \E p \in Publisher : PublisherStep(p) \/ RunFails(p)
  \/ \E p \in Publisher, c \in Content : StartInClone(p, c)
  \/ \E c \in Content, v \in Requested \cup {Last(source).version} : PushSource(c, v)
  \/ StartByHand
  \/ \E intact \in BOOLEAN : OtherReleaseCommit(intact)

Spec == Init /\ [][Next]_vars
----------------------------------------------------------------------------
(* Properties                                                              *)

TypeOK ==
  /\ host \in {"github", "gitlab"}
  /\ source \in Seq(SourceCommit) \ {<<>>}
  /\ release \in Seq(ReleaseCommit)
  /\ queue \subseteq 1 .. Len(source)
  /\ run \in [Publisher -> Run]
  /\ failed \in BOOLEAN
  /\ pushes \in 0 .. MaxPushes
  /\ byHand \in 0 .. MaxByHand
  /\ mishaps \in 0 .. MaxMishaps

(* p's push changes origin, and more than to record what is there already. *)
Lands(p) == Pushing(p) /\ run'[p].step = "idle" /\ origin' # origin
SameRelease(a, b) == a # <<>> /\ b # <<>> /\ SameTree(Last(a), Last(b))
Publishes(p) == Lands(p) /\ (source' # source \/ ~SameRelease(release, release'))

FromItsSnapshots(p) == source = run[p].sourceBase /\ release = run[p].releaseBase

(* A publication changes the source branch or the released output only if  *)
(* neither branch changed since its run read it, not even the one git need *)
(* not touch.                                                              *)
LandsOnItsSnapshots == [][\A p \in Publisher : Publishes(p) => FromItsSnapshots(p)]_vars

(* A push by anyone extends the branches: no publication drops a commit    *)
(* that someone else brought to origin meanwhile.                          *)
NothingIsOverwritten ==
  [][IsPrefix(source, source') /\ IsPrefix(release, release')]_vars

(* Along the release branch versions never fall, and a version never names *)
(* outputs of two different bases, whichever publishers and toolchains     *)
(* made them: no target's plugins change under a version that is out.      *)
MoveForward(releases) ==
  \A i, j \in 1 .. Len(releases) : i < j =>
    /\ ~Below(releases[j].version, releases[i].version)
    /\ releases[i].version = releases[j].version =>
         ReleaseBasis(releases[i]) = ReleaseBasis(releases[j])
ReleasesMoveForward == MoveForward(release)

(* Of what a publisher has put on the two branches under one hub and       *)
(* version, every new output has a source commit that records it, and      *)
(* every source commit has a release commit: neither branch has a          *)
(* publication that the other lacks, and none has landed by halves.        *)
(* Release commits that repeat the output before them may outnumber the    *)
(* source commits: they record a source commit somebody else has made.     *)
CommitsOf(p, content, version, branch) ==
  {i \in 1 .. Len(branch) : /\ branch[i].by = p
                            /\ branch[i].content = content
                            /\ branch[i].version = version}
NewOutputsOf(p, content, version) ==
  {j \in CommitsOf(p, content, version, release) :
     j > 1 => ~SameTree(release[j - 1], release[j])}
Whole(p, content, version) ==
  LET recorded == Cardinality(CommitsOf(p, content, version, source))
  IN /\ Cardinality(NewOutputsOf(p, content, version)) <= recorded
     /\ recorded <= Cardinality(CommitsOf(p, content, version, release))
PublicationsAreWhole ==
  \A p \in Publisher :
    /\ \A i \in 1 .. Len(source) : Whole(p, source[i].content, source[i].version)
    /\ \A j \in 1 .. Len(release) : Whole(p, release[j].content, release[j].version)

(* A run from the commit the last publication made, with the toolchain it  *)
(* was made with, creates no commits: recording a version does not by      *)
(* itself call for another one.                                            *)
UnchangedRerunCreatesNoCommits ==
  [][\A p \in Publisher : Lands(p) =>
       ~ /\ run[p].head = source
         /\ Last(source).by \in Publisher
         /\ release # <<>> /\ Last(release).by \in Publisher
         /\ Last(release).tool = run[p].tool]_vars

(* When nothing runs and nothing waits, the hub on the source branch is    *)
(* the one released, or a run has failed since it was pushed: jobs that    *)
(* find a newer hub and step aside never hide that nobody published it.    *)
Released == release # <<>> /\ SameHub(Last(source), Last(release))
UnpublishedIsNoticed ==
  (queue = {} /\ \A p \in Publisher : At(p, "idle")) => Released \/ failed

(* A version in hub.yaml above the last release's is the version that is   *)
(* released (README, "Set a higher version in hub.yaml to request a        *)
(* specific release").                                                     *)
RequestIsHonoured ==
  [][\A p \in Publisher :
       (Lands(p) /\ release # <<>> /\ Below(Last(release).version, Hub(p).version))
         => Last(release').version = Hub(p).version]_vars

(* What the code keeps of that: a release has at least the version that    *)
(* its hub.yaml asks for, and exactly that version unless the next patch   *)
(* of the release it replaces is above it.                                 *)
HighRequestIsHonoured ==
  [][\A p \in Publisher : (Lands(p) /\ release # <<>>) =>
       LET requested == Hub(p).version
           released == Last(release').version
       IN /\ ~Below(released, requested)
          /\ ~Below(requested, BumpPatch(Last(release).version)) => released = requested]_vars
=============================================================================
