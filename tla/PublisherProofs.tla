--------------------------- MODULE PublisherProofs ---------------------------
(***************************************************************************)
(* Publications for any publishers, hubs, toolchains, versions and bounds: *)
(* they land only on what they were built from, nothing at origin is       *)
(* overwritten, released versions move forward, publications are whole,    *)
(* a rerun creates no commits, and what is not released does not go        *)
(* unnoticed.  First the order of versions: Below is total, and BumpPatch  *)
(* goes up in it, whatever the prerelease identifiers.                     *)
(*                                                                         *)
(* The argument: what a run has in hand is right by itself (RunOK).  Its   *)
(* commits extend the bases it read, and it changes both branches or none. *)
(* So its push sends both refs or none, and the server's comparison of the *)
(* refs that are sent covers the branches as a whole.  The exception is a  *)
(* source commit that others have pushed meanwhile; the run has made none  *)
(* then, and so its release has the output of the one before.              *)
(*                                                                         *)
(* PInv relates runs to origin: the commits of a run are a function of     *)
(* what it read (MadeFromBases), what it read is a prefix of what is there *)
(* or somebody's own commit on top of it (HeadIsKnown, HeadIsNear,         *)
(* BaseIsBehind), when both branches end with a publication it is the same *)
(* one (InStep), and each publication adds to both branches (AllAreWhole). *)
(***************************************************************************)
EXTENDS Publisher, SequenceTheorems, FiniteSetTheorems, WellFoundedInduction, TLAPS

(* Position i decides that a is below b: the first identifiers that        *)
(* differ, or the place where a ends and b goes on.                        *)
Decides(a, b, i) ==
  /\ i \in 1 .. Len(a) + 1
  /\ i <= Len(b)
  /\ AgreeBefore(a, b, i)
  /\ i <= Len(a) => IdentifierBelow(a[i], b[i])

(* Both ways in which a list of identifiers is below another are one. *)
LEMMA BelowIsDecided ==
  ASSUME NEW a \in Seq(Identifier), NEW b \in Seq(Identifier)
  PROVE  PrereleaseBelow(a, b) <=> a # <<>> /\ (b = <<>> \/ \E i \in Nat : Decides(a, b, i))
<1>1. ASSUME NEW i \in 1 .. Len(a), i <= Len(b), AgreeBefore(a, b, i),
             IdentifierBelow(a[i], b[i])
      PROVE  \E k \in Nat : Decides(a, b, k)
  <2>1. i \in Nat /\ Decides(a, b, i)
    BY <1>1 DEF Decides
  <2> QED
    BY <2>1
<1>2. ASSUME Len(a) < Len(b), AgreeBefore(a, b, Len(a) + 1)
      PROVE  \E k \in Nat : Decides(a, b, k)
  <2>1. Len(a) + 1 \in Nat /\ Decides(a, b, Len(a) + 1)
    BY <1>2 DEF Decides
  <2> QED
    BY <2>1
<1>3. ASSUME NEW i \in Nat, Decides(a, b, i), i <= Len(a)
      PROVE  \E k \in 1 .. Len(a) :
               k <= Len(b) /\ AgreeBefore(a, b, k) /\ IdentifierBelow(a[k], b[k])
  BY <1>3 DEF Decides
<1>4. ASSUME NEW i \in Nat, Decides(a, b, i), ~ i <= Len(a)
      PROVE  Len(a) < Len(b) /\ AgreeBefore(a, b, Len(a) + 1)
  <2>1. i = Len(a) + 1
    BY <1>4 DEF Decides
  <2> QED
    BY <1>4, <2>1 DEF Decides
<1> QED
  BY <1>1, <1>2, <1>3, <1>4 DEF PrereleaseBelow

(* Identifiers are ordered like pairs of numbers. *)
LEMMA IdentifierOrder ==
  ASSUME NEW a \in Identifier, NEW b \in Identifier, NEW c \in Identifier
  PROVE  /\ ~IdentifierBelow(a, a)
         /\ IdentifierBelow(a, b) /\ IdentifierBelow(b, c) => IdentifierBelow(a, c)
         /\ a # b => IdentifierBelow(a, b) \/ IdentifierBelow(b, a)
BY DEF Identifier, IdentifierBelow

(* The three numbers are ordered like triples. *)
LEMMA CoreOrder ==
  ASSUME NEW a \in Nat \X Nat \X Nat, NEW b \in Nat \X Nat \X Nat, NEW c \in Nat \X Nat \X Nat
  PROVE  /\ ~CoreBelow(a, a)
         /\ CoreBelow(a, b) /\ CoreBelow(b, c) => CoreBelow(a, c)
         /\ a # b => CoreBelow(a, b) \/ CoreBelow(b, a)
BY DEF CoreBelow

(* Nothing differs from itself. *)
LEMMA PrereleaseIrreflexive ==
  ASSUME NEW a \in Seq(Identifier)
  PROVE  ~PrereleaseBelow(a, a)
<1>1. ASSUME NEW i \in Nat, Decides(a, a, i) PROVE FALSE
  <2>1. i \in 1 .. Len(a)
    BY <1>1 DEF Decides
  <2>2. a[i] \in Identifier
    BY <2>1, ElementOfSeq
  <2> QED
    BY <1>1, <2>1, <2>2, IdentifierOrder DEF Decides
<1> QED
  BY <1>1, BelowIsDecided

(* The smaller of two deciding positions decides. *)
LEMMA PrereleaseTransitive ==
  ASSUME NEW a \in Seq(Identifier), NEW b \in Seq(Identifier), NEW c \in Seq(Identifier),
         PrereleaseBelow(a, b), PrereleaseBelow(b, c)
  PROVE  PrereleaseBelow(a, c)
<1>1. a # <<>> /\ b # <<>>
  BY BelowIsDecided
<1>2. CASE c = <<>>
  BY <1>1, <1>2, BelowIsDecided
<1>3. CASE c # <<>>
  <2>1. PICK i \in Nat : Decides(a, b, i)
    BY <1>1, BelowIsDecided
  <2>2. PICK j \in Nat : Decides(b, c, j)
    BY <1>3, BelowIsDecided
  <2>3. CASE i < j
    <3>1. b[i] = c[i] /\ i <= Len(c)
      BY <2>1, <2>2, <2>3 DEF Decides, AgreeBefore
    <3>2. AgreeBefore(a, c, i)
      BY <2>1, <2>2, <2>3 DEF Decides, AgreeBefore
    <3>3. Decides(a, c, i)
      BY <2>1, <3>1, <3>2 DEF Decides
    <3> QED
      BY <3>3, <1>1, BelowIsDecided
  <2>4. CASE j < i
    <3>1. a[j] = b[j] /\ j \in 1 .. Len(a) /\ j <= Len(b)
      BY <2>1, <2>2, <2>4 DEF Decides, AgreeBefore
    <3>2. AgreeBefore(a, c, j)
      BY <2>1, <2>2, <2>4 DEF Decides, AgreeBefore
    <3>3. Decides(a, c, j)
      BY <2>2, <3>1, <3>2 DEF Decides
    <3> QED
      BY <3>3, <1>1, BelowIsDecided
  <2>5. CASE i = j
    <3>1. AgreeBefore(a, c, i)
      BY <2>1, <2>2, <2>5 DEF Decides, AgreeBefore
    <3>2. i <= Len(b) /\ i <= Len(c) /\ i \in 1 .. Len(a) + 1 /\ IdentifierBelow(b[i], c[i])
      BY <2>1, <2>2, <2>5 DEF Decides
    <3>3. ASSUME i <= Len(a) PROVE IdentifierBelow(a[i], c[i])
      <4>1. a[i] \in Identifier /\ b[i] \in Identifier /\ c[i] \in Identifier
        BY <3>2, <3>3, ElementOfSeq
      <4>2. IdentifierBelow(a[i], b[i])
        BY <2>1, <3>3 DEF Decides
      <4> QED
        BY <3>2, <4>1, <4>2, IdentifierOrder
    <3>4. Decides(a, c, i)
      BY <3>1, <3>2, <3>3 DEF Decides
    <3> QED
      BY <3>4, <1>1, BelowIsDecided
  <2> QED
    BY <2>3, <2>4, <2>5
<1> QED
  BY <1>2, <1>3

(* Two lists that differ do so at a first position, or one ends before. *)
LEMMA PrereleaseTotal ==
  ASSUME NEW a \in Seq(Identifier), NEW b \in Seq(Identifier), a # b
  PROVE  PrereleaseBelow(a, b) \/ PrereleaseBelow(b, a)
<1> DEFINE Differ == {i \in Nat : i \in 1 .. Len(a) /\ i <= Len(b) /\ a[i] # b[i]}
<1>1. CASE a = <<>> \/ b = <<>>
  BY <1>1, BelowIsDecided
<1>2. CASE a # <<>> /\ b # <<>> /\ Differ = {}
  <2>1. \A i \in Nat : i \in 1 .. Len(a) /\ i <= Len(b) => a[i] = b[i]
    BY <1>2
  <2>2. Len(a) # Len(b)
    BY <2>1, SeqEqual
  <2>3. Len(a) < Len(b) => Decides(a, b, Len(a) + 1)
    BY <2>1 DEF Decides, AgreeBefore
  <2>4. Len(b) < Len(a) => Decides(b, a, Len(b) + 1)
    BY <2>1 DEF Decides, AgreeBefore
  <2> QED
    BY <1>2, <2>2, <2>3, <2>4, BelowIsDecided
<1>3. CASE a # <<>> /\ b # <<>> /\ Differ # {}
  <2>1. PICK i \in Differ : \A k \in Differ : ~(<<k, i>> \in OpToRel(<, Nat))
    <3>1. IsWellFoundedOn(OpToRel(<, Nat), Nat)
      BY NatLessThanWellFounded
    <3>2. Differ \subseteq Nat
      OBVIOUS
    <3> HIDE DEF Differ
    <3> QED
      BY <1>3, <3>1, <3>2, WFMin
  <2>2. AgreeBefore(a, b, i) /\ AgreeBefore(b, a, i)
    <3>1. ASSUME NEW k \in 1 .. i - 1 PROVE a[k] = b[k]
      <4>1. k \in Nat /\ k < i /\ k \in 1 .. Len(a) /\ k <= Len(b)
        OBVIOUS
      <4>2. <<k, i>> \in OpToRel(<, Nat)
        BY <4>1 DEF OpToRel
      <4> QED
        BY <2>1, <4>1, <4>2
    <3> QED
      BY <3>1 DEF AgreeBefore
  <2>3. a[i] \in Identifier /\ b[i] \in Identifier /\ a[i] # b[i]
    BY ElementOfSeq
  <2>4. IdentifierBelow(a[i], b[i]) \/ IdentifierBelow(b[i], a[i])
    BY <2>3, IdentifierOrder
  <2>5. Decides(a, b, i) \/ Decides(b, a, i)
    BY <2>2, <2>4 DEF Decides
  <2> QED
    BY <1>3, <2>5, BelowIsDecided
<1> QED
  BY <1>1, <1>2, <1>3

(* The order of versions is a strict total order: _max_semver and every    *)
(* comparison of a release with the one before it can rely on that.        *)
THEOREM VersionsTotallyOrdered ==
  ASSUME NEW a \in Version, NEW b \in Version, NEW c \in Version
  PROVE  /\ ~Below(a, a)
         /\ Below(a, b) /\ Below(b, c) => Below(a, c)
         /\ a # b => Below(a, b) \/ Below(b, a)
<1>1. /\ a.core \in Nat \X Nat \X Nat /\ b.core \in Nat \X Nat \X Nat /\ c.core \in Nat \X Nat \X Nat
      /\ a.pre \in Seq(Identifier) /\ b.pre \in Seq(Identifier) /\ c.pre \in Seq(Identifier)
  BY DEF Version
<1>2. ~Below(a, a)
  BY <1>1, CoreOrder, PrereleaseIrreflexive DEF Below
<1>3. ASSUME Below(a, b), Below(b, c) PROVE Below(a, c)
  <2>1. CASE CoreBelow(a.core, b.core) \/ CoreBelow(b.core, c.core)
    BY <2>1, <1>1, <1>3, CoreOrder DEF Below
  <2>2. CASE ~(CoreBelow(a.core, b.core) \/ CoreBelow(b.core, c.core))
    BY <2>2, <1>1, <1>3, PrereleaseTransitive DEF Below
  <2> QED
    BY <2>1, <2>2
<1>4. ASSUME a # b PROVE Below(a, b) \/ Below(b, a)
  <2>1. CASE a.core # b.core
    BY <2>1, <1>1, CoreOrder DEF Below
  <2>2. CASE a.core = b.core
    <3>1. a.pre # b.pre
      BY <2>2, <1>4 DEF Version
    <3> QED
      BY <2>2, <3>1, <1>1, PrereleaseTotal DEF Below
  <2> QED
    BY <2>1, <2>2
<1> QED
  BY <1>2, <1>3, <1>4

(* A bumped version is above the one it comes from, prerelease or not:     *)
(* changed output never keeps its version.                                 *)
THEOREM BumpIsAbove ==
  ASSUME NEW v \in Version
  PROVE  BumpPatch(v) \in Version /\ Below(v, BumpPatch(v))
BY EmptySeq DEF BumpPatch, Version, Below, CoreBelow

(* MaxSemver yields one of the two, and neither is above it. *)
LEMMA MaxIsHighest ==
  ASSUME NEW a \in Version, NEW b \in Version
  PROVE  /\ MaxSemver(a, b) \in Version
         /\ ~Below(MaxSemver(a, b), a)
         /\ ~Below(MaxSemver(a, b), b)
BY VersionsTotallyOrdered DEF MaxSemver
-----------------------------------------------------------------------------
(* What a run has read and made so far. *)
RunOK(r) ==
  /\ r.step # "idle" => r.head # <<>> /\ r.tool \in Toolchain
  /\ r.step \in {"snapshot", "fetched"} => IsPrefix(r.sourceBase, r.head)
  /\ r.step \in {"fetched", "prepared"} => MoveForward(r.releaseBase)
  /\ r.step \in {"prepared", "pushing", "pushing release"} =>
       /\ IsPrefix(r.sourceBase, r.sourceCommit)
       /\ IsPrefix(r.releaseBase, r.releaseCommit)
       /\ MoveForward(r.releaseCommit)
       /\ r.sourceCommit # r.sourceBase <=> r.releaseCommit # r.releaseBase
       /\ (r.sourceCommit = r.head /\ r.releaseCommit # r.releaseBase)
            => SameRelease(r.releaseBase, r.releaseCommit)
  /\ r.step = "pushing release" => SameRelease(r.releaseBase, r.releaseCommit)

(* The inductive invariant of runs and versions. *)
IInv ==
  /\ TypeOK
  /\ \A p \in Publisher : RunOK(run[p])
  /\ ReleasesMoveForward
-----------------------------------------------------------------------------
(* An extended branch has the old one as a prefix. *)
LEMMA PrefixOfAppend ==
  ASSUME NEW S, NEW s \in Seq(S), NEW t \in Seq(S), IsPrefix(s, t), NEW x \in S
  PROVE  IsPrefix(s, Append(t, x)) /\ s # Append(t, x)
<1>1. Append(t, x) \in Seq(S) /\ Len(Append(t, x)) = Len(t) + 1
      /\ \A i \in 1 .. Len(t) : Append(t, x)[i] = t[i]
  BY AppendProperties
<1>2. Len(s) <= Len(t) /\ SubSeq(s, 1, Len(s)) = SubSeq(t, 1, Len(s))
  BY DEF IsPrefix
<1>3. SubSeq(Append(t, x), 1, Len(s)) = SubSeq(t, 1, Len(s))
  BY <1>1, <1>2
<1> QED
  BY <1>1, <1>2, <1>3 DEF IsPrefix

(* A branch is a prefix of itself. *)
LEMMA PrefixOfSelf ==
  ASSUME NEW S, NEW s \in Seq(S)
  PROVE  IsPrefix(s, s)
BY DEF IsPrefix

(* The last commit of a branch is one of its commits. *)
LEMMA LastIsElement ==
  ASSUME NEW S, NEW s \in Seq(S), s # <<>>
  PROVE  Last(s) \in S
BY EmptySeq, ElementOfSeq, LenProperties DEF Last

(* A release may follow that has the same basis and version as the last,   *)
(* or a higher version: transitivity carries it to all that came before.   *)
LEMMA ForwardAppend ==
  ASSUME NEW s \in Seq(ReleaseCommit), s # <<>>, MoveForward(s),
         NEW c \in ReleaseCommit,
         \/ Below(Last(s).version, c.version)
         \/ c.version = Last(s).version /\ ReleaseBasis(c) = ReleaseBasis(Last(s))
  PROVE  MoveForward(Append(s, c))
<1> DEFINE t == Append(s, c)
           n == Len(s)
<1>1. t \in Seq(ReleaseCommit) /\ Len(t) = n + 1 /\ t[n + 1] = c
      /\ \A i \in 1 .. n : t[i] = s[i]
  BY AppendProperties
<1>2. n \in Nat /\ n > 0 /\ s[n] = Last(s)
  BY LenProperties, EmptySeq DEF Last
<1>3. ASSUME NEW i \in 1 .. n PROVE s[i].version \in Version
  <2>1. s[i] \in ReleaseCommit
    BY ElementOfSeq
  <2> QED
    BY <2>1 DEF ReleaseCommit
<1>4. c.version \in Version
  BY DEF ReleaseCommit
<1>5. ASSUME NEW i \in 1 .. n
      PROVE  /\ ~Below(c.version, s[i].version)
             /\ s[i].version = c.version => ReleaseBasis(s[i]) = ReleaseBasis(c)
  <2>1. /\ ~Below(s[n].version, s[i].version)
        /\ s[i].version = s[n].version => ReleaseBasis(s[i]) = ReleaseBasis(s[n])
    BY <1>2, <1>3, VersionsTotallyOrdered DEF MoveForward
  <2>2. CASE Below(s[n].version, c.version)
    BY <2>1, <2>2, <1>2, <1>3, <1>4, VersionsTotallyOrdered
  <2>3. CASE c.version = s[n].version /\ ReleaseBasis(c) = ReleaseBasis(s[n])
    BY <2>1, <2>3
  <2> QED
    BY <1>2, <2>2, <2>3
<1>6. ASSUME NEW i \in 1 .. n + 1, NEW j \in 1 .. n + 1, i < j
      PROVE  /\ ~Below(t[j].version, t[i].version)
             /\ t[i].version = t[j].version => ReleaseBasis(t[i]) = ReleaseBasis(t[j])
  <2>1. CASE j = n + 1
    BY <2>1, <1>1, <1>5, <1>6
  <2>2. CASE j \in 1 .. n
    BY <2>2, <1>1, <1>6 DEF MoveForward
  <2> QED
    BY <2>1, <2>2
<1> HIDE DEF t
<1>7. MoveForward(t)
  BY <1>1, <1>2, <1>6 DEF MoveForward
<1> QED
  BY <1>7 DEF t

(* The first release follows nothing. *)
LEMMA ForwardFirst ==
  ASSUME NEW c
  PROVE  MoveForward(<<>>) /\ MoveForward(Append(<<>>, c))
BY DEF MoveForward
-----------------------------------------------------------------------------
(* The run of one publisher changes, the others do not. *)
LEMMA RunUpdate ==
  ASSUME run \in [Publisher -> Run], \A q \in Publisher : RunOK(run[q]),
         NEW p \in Publisher, NEW r \in Run, RunOK(r), run' = [run EXCEPT ![p] = r]
  PROVE  run' \in [Publisher -> Run] /\ \A q \in Publisher : RunOK(run'[q])
OBVIOUS

(* Having nothing in hand is in order. *)
LEMMA NoRunOK == NoRun \in Run /\ RunOK(NoRun)
BY EmptySeq DEF NoRun, Run, Step, RunOK

(* The commit a run is to build and the last release are what they should be. *)
LEMMA HubType ==
  ASSUME TypeOK, NEW p \in Publisher, RunOK(run[p]), ~At(p, "idle")
  PROVE  /\ Hub(p) \in SourceCommit
         /\ run[p].head \in Seq(SourceCommit) /\ run[p].tool \in Toolchain
<1>1. run[p] \in Run
  BY DEF TypeOK
<1>2. run[p].head \in Seq(SourceCommit) /\ run[p].head # <<>> /\ run[p].tool \in Toolchain
  BY <1>1 DEF Run, RunOK, At
<1> QED
  BY <1>2, LastIsElement DEF Hub

(* The version of a publication is the last one's, for the same basis, or  *)
(* above it.                                                               *)
LEMMA PublishVersionForward ==
  ASSUME TypeOK, NEW p \in Publisher, RunOK(run[p]), ~At(p, "idle")
  PROVE  /\ PublishVersion(p) \in Version
         /\ run[p].releaseBase # <<>> =>
              LET previous == Last(run[p].releaseBase)
              IN \/ Below(previous.version, PublishVersion(p))
                 \/ /\ PublishVersion(p) = previous.version
                    /\ SameBasis(previous, Hub(p).content, run[p].tool)
<1> DEFINE previous == Last(run[p].releaseBase)
<1>1. Hub(p).version \in Version
  BY HubType DEF SourceCommit
<1>2. CASE run[p].releaseBase = <<>>
  BY <1>1, <1>2 DEF PublishVersion
<1>3. CASE run[p].releaseBase # <<>>
  <2>1. run[p].releaseBase \in Seq(ReleaseCommit)
    BY DEF TypeOK, Run
  <2>2. previous \in ReleaseCommit
    BY <1>3, <2>1, LastIsElement
  <2>3. previous.version \in Version
    BY <2>2 DEF ReleaseCommit
  <2> HIDE DEF previous
  <2>4. CASE SameBasis(previous, Hub(p).content, run[p].tool)
    <3>1. PublishVersion(p) = MaxSemver(Hub(p).version, previous.version)
      BY <1>3, <2>4 DEF PublishVersion, previous
    <3>2. PublishVersion(p) \in Version /\ ~Below(PublishVersion(p), previous.version)
      BY <3>1, <1>1, <2>3, MaxIsHighest
    <3>3. PublishVersion(p) = previous.version \/ Below(previous.version, PublishVersion(p))
      BY <3>2, <2>3, VersionsTotallyOrdered
    <3> QED
      BY <3>2, <3>3, <2>4 DEF previous
  <2>5. CASE ~SameBasis(previous, Hub(p).content, run[p].tool)
    <3>1. PublishVersion(p) = MaxSemver(Hub(p).version, BumpPatch(previous.version))
      BY <1>3, <2>5 DEF PublishVersion, previous
    <3>2. BumpPatch(previous.version) \in Version
          /\ Below(previous.version, BumpPatch(previous.version))
      BY <2>3, BumpIsAbove
    <3>3. PublishVersion(p) \in Version /\ ~Below(PublishVersion(p), BumpPatch(previous.version))
      BY <3>1, <3>2, <1>1, MaxIsHighest
    <3>4. Below(previous.version, PublishVersion(p))
      BY <3>2, <3>3, <2>3, VersionsTotallyOrdered
    <3> QED
      BY <3>3, <3>4 DEF previous
  <2> QED
    BY <2>4, <2>5
<1> QED
  BY <1>2, <1>3

(* The commits a run makes extend their bases, both do or none does, and   *)
(* the release moves forward.                                              *)
LEMMA PreparedCommits ==
  ASSUME TypeOK, NEW p \in Publisher, RunOK(run[p]), At(p, "fetched")
  PROVE  LET r == [run[p] EXCEPT !.step = "prepared", !.sourceCommit = SourceWith(p),
                                 !.releaseCommit = RecordedRelease(p)]
         IN r \in Run /\ RunOK(r)
<1> DEFINE r == [run[p] EXCEPT !.step = "prepared", !.sourceCommit = SourceWith(p),
                               !.releaseCommit = RecordedRelease(p)]
           base == run[p].releaseBase
           commit == [Hub(p) EXCEPT !.by = p, !.version = PublishVersion(p),
                                    !.pointers = Hub(p).content]
           record == [Last(base) EXCEPT !.by = p]
<1>1. /\ run[p] \in Run
      /\ base \in Seq(ReleaseCommit) /\ run[p].sourceBase \in Seq(SourceCommit)
      /\ run[p].head \in Seq(SourceCommit) /\ run[p].head # <<>> /\ run[p].tool \in Toolchain
      /\ Hub(p) \in SourceCommit
      /\ PublishVersion(p) \in Version
  BY HubType, PublishVersionForward DEF TypeOK, Run, RunOK, At
<1>2. IsPrefix(run[p].sourceBase, run[p].head) /\ MoveForward(base)
  BY DEF RunOK, At
<1>3. Output(p) \in ReleaseCommit
  BY <1>1 DEF Output, SourceCommit, ReleaseCommit, Author
<1>4. commit \in SourceCommit
  BY <1>1 DEF SourceCommit, Author
<1>5. base # <<>> => Last(base) \in ReleaseCommit
  BY <1>1, LastIsElement
<1>6. base # <<>> => record \in ReleaseCommit
  BY <1>5 DEF ReleaseCommit, Author
<1>7. MoveForward(Append(base, Output(p)))
  <2>1. CASE base = <<>>
    BY <2>1, ForwardFirst
  <2>2. CASE base # <<>>
    <3>1. \/ Below(Last(base).version, Output(p).version)
          \/ /\ Output(p).version = Last(base).version
             /\ ReleaseBasis(Output(p)) = ReleaseBasis(Last(base))
      <4>1. /\ Output(p).version = PublishVersion(p)
            /\ ReleaseBasis(Output(p)) = BasisOf[Hub(p).content, run[p].tool]
        BY DEF Output, ReleaseBasis
      <4> QED
        BY <2>2, <4>1, PublishVersionForward DEF SameBasis, At
    <3> HIDE DEF base
    <3> QED
      BY <3>1, <2>2, <1>1, <1>2, <1>3, ForwardAppend
  <2> QED
    BY <2>1, <2>2
<1>8. base # <<>> => MoveForward(Append(base, record))
  <2>1. base # <<>> => /\ record.version = Last(base).version
                       /\ ReleaseBasis(record) = ReleaseBasis(Last(base))
    BY <1>5 DEF ReleaseCommit, ReleaseBasis
  <2> HIDE DEF base, record
  <2> QED
    BY <2>1, <1>1, <1>2, <1>6, ForwardAppend
<1>9. /\ (ReleaseWith(p) = base /\ base # <<>>) \/ ReleaseWith(p) = Append(base, Output(p))
      /\ SourceWith(p) = run[p].head \/ SourceWith(p) = Append(run[p].head, commit)
      /\ ReleaseWith(p) # base => SourceWith(p) = Append(run[p].head, commit)
  BY DEF ReleaseWith, SourceWith
<1>10. IsPrefix(base, Append(base, Output(p))) /\ base # Append(base, Output(p))
       /\ Append(base, Output(p)) \in Seq(ReleaseCommit)
  BY <1>1, <1>3, PrefixOfSelf, PrefixOfAppend, AppendProperties
<1>11. base # <<>> =>
         /\ IsPrefix(base, Append(base, record)) /\ base # Append(base, record)
         /\ Append(base, record) \in Seq(ReleaseCommit)
  BY <1>1, <1>6, PrefixOfSelf, PrefixOfAppend, AppendProperties
<1>12. /\ IsPrefix(run[p].sourceBase, Append(run[p].head, commit))
       /\ run[p].sourceBase # Append(run[p].head, commit)
       /\ Append(run[p].head, commit) \in Seq(SourceCommit)
  BY <1>1, <1>2, <1>4, PrefixOfAppend, AppendProperties
<1>13. Append(run[p].head, commit) # run[p].head
  BY <1>1, <1>4, PrefixOfSelf, PrefixOfAppend
<1>14. base # <<>> => SameRelease(base, Append(base, record))
  <2>1. ASSUME base # <<>> PROVE SameTree(Last(base), record)
    BY <1>5, <2>1 DEF SameTree, ReleaseCommit
  <2>2. ASSUME base # <<>> PROVE Last(Append(base, record)) = record /\ Append(base, record) # <<>>
    BY <1>1, <1>6, <2>2, AppendProperties, LenProperties DEF Last
  <2> HIDE DEF base, record
  <2> QED
    BY <2>1, <2>2 DEF SameRelease
<1>15. SourceWith(p) \in Seq(SourceCommit) /\ IsPrefix(run[p].sourceBase, SourceWith(p))
  BY <1>1, <1>2, <1>9, <1>12
<1> HIDE DEF base, record, commit
<1>16. CASE ReleaseWith(p) # base
  <2>1. RecordedRelease(p) = Append(base, Output(p)) /\ SourceWith(p) # run[p].sourceBase
    BY <1>16, <1>9, <1>12 DEF RecordedRelease, base
  <2>2. /\ RecordedRelease(p) \in Seq(ReleaseCommit) /\ IsPrefix(base, RecordedRelease(p))
        /\ MoveForward(RecordedRelease(p)) /\ RecordedRelease(p) # base
    BY <2>1, <1>7, <1>10
  <2>3. r \in Run
    BY <2>2, <1>1, <1>15 DEF Run, Step
  <2> QED
    BY <2>1, <2>2, <2>3, <1>1, <1>2, <1>9, <1>15, <1>16, <1>13 DEF RunOK, Run, base
<1>17. CASE ReleaseWith(p) = base /\ SourceWith(p) # run[p].sourceBase
  <2>1. RecordedRelease(p) = Append(base, record) /\ base # <<>>
    BY <1>17, <1>9, <1>10 DEF RecordedRelease, base, record
  <2>2. /\ RecordedRelease(p) \in Seq(ReleaseCommit) /\ IsPrefix(base, RecordedRelease(p))
        /\ MoveForward(RecordedRelease(p)) /\ RecordedRelease(p) # base
    BY <2>1, <1>8, <1>11
  <2>3. r \in Run
    BY <2>2, <1>1, <1>15 DEF Run, Step
  <2> QED
    BY <2>1, <2>2, <2>3, <1>17, <1>1, <1>2, <1>15, <1>14 DEF RunOK, Run, base
<1>18. CASE ReleaseWith(p) = base /\ SourceWith(p) = run[p].sourceBase
  <2>1. RecordedRelease(p) = base
    BY <1>18 DEF RecordedRelease, base
  <2>2. IsPrefix(base, base)
    BY <1>1, PrefixOfSelf DEF base
  <2>3. r \in Run
    BY <2>1, <1>1, <1>15 DEF Run, Step, base
  <2> QED
    BY <2>1, <2>2, <2>3, <1>18, <1>1, <1>2, <1>15 DEF RunOK, Run, base
<1> QED
  BY <1>16, <1>17, <1>18
-----------------------------------------------------------------------------
(* Ending a run keeps the runs in order. *)
LEMMA RunEndsKeeps ==
  ASSUME IInv, NEW p \in Publisher, NEW f \in BOOLEAN, RunEnds(p, f)
  PROVE  /\ run' \in [Publisher -> Run] /\ failed' \in BOOLEAN
         /\ \A q \in Publisher : RunOK(run'[q])
BY NoRunOK, RunUpdate DEF IInv, TypeOK, RunEnds

(* Nobody's run changes, and nothing at origin, unless an action says so. *)
LEMMA RestKeeps ==
  ASSUME IInv, UNCHANGED <<host, origin, bounds>>,
         queue' \subseteq 1 .. Len(source),
         run' \in [Publisher -> Run], failed' \in BOOLEAN,
         \A q \in Publisher : RunOK(run'[q])
  PROVE  IInv'
BY DEF IInv, TypeOK, origin, bounds, ReleasesMoveForward, MoveForward

(* What a push sends extends the branches, and it is sent only on what was *)
(* read, except to record the last release again.                          *)
LEMMA PushExtends ==
  ASSUME IInv, NEW p \in Publisher, UpdateRefs(p)
  PROVE  /\ source' \in Seq(SourceCommit) /\ release' \in Seq(ReleaseCommit)
         /\ IsPrefix(source, source') /\ IsPrefix(release, release')
         /\ MoveForward(release')
         /\ \/ origin' = origin
            \/ source' = source /\ SameRelease(release, release')
            \/ FromItsSnapshots(p)
<1>1. /\ run[p] \in Run /\ RunOK(run[p])
      /\ run[p].step = "pushing" \/ run[p].step = "pushing release"
  BY DEF IInv, TypeOK, UpdateRefs, Pushing, At
<1>2. /\ run[p].sourceCommit \in Seq(SourceCommit)
      /\ run[p].releaseCommit \in Seq(ReleaseCommit)
      /\ IsPrefix(run[p].sourceBase, run[p].sourceCommit)
      /\ IsPrefix(run[p].releaseBase, run[p].releaseCommit)
      /\ MoveForward(run[p].releaseCommit)
      /\ run[p].sourceCommit # run[p].sourceBase <=> ReleaseIsSent(p)
  BY <1>1 DEF Run, RunOK, ReleaseIsSent
<1>3. /\ source \in Seq(SourceCommit) /\ release \in Seq(ReleaseCommit)
      /\ MoveForward(release) /\ IsPrefix(source, source) /\ IsPrefix(release, release)
  BY PrefixOfSelf DEF IInv, TypeOK, ReleasesMoveForward
<1>4. \/ ~SourceIsSent(p) /\ source' = source
      \/ SourceIsSent(p) /\ source = run[p].sourceBase /\ source' = run[p].sourceCommit
  BY DEF UpdateRefs, RefsAreUnmoved
<1>5. \/ ~ReleaseIsSent(p) /\ release' = release
      \/ ReleaseIsSent(p) /\ release = run[p].releaseBase /\ release' = run[p].releaseCommit
  BY DEF UpdateRefs, RefsAreUnmoved
<1>6. CASE run[p].step = "pushing"
  <2>1. source = run[p].sourceBase /\ source' = run[p].sourceCommit
    BY <1>4, <1>6 DEF SourceIsSent, At
  <2> QED
    BY <1>2, <1>3, <1>5, <2>1 DEF origin, FromItsSnapshots
<1>7. CASE run[p].step = "pushing release"
  <2>1. source' = source
    BY <1>4, <1>7 DEF SourceIsSent, At
  <2>2. SameRelease(run[p].releaseBase, run[p].releaseCommit)
    BY <1>1, <1>7 DEF RunOK
  <2> QED
    BY <1>2, <1>3, <1>5, <2>1, <2>2 DEF origin
<1> QED
  BY <1>1, <1>6, <1>7

(* People's pushes extend the source branch by a commit. *)
LEMMA PeopleExtend ==
  ASSUME IInv, NEW c \in Content, NEW v \in Requested \cup {Last(source).version},
         PushSource(c, v)
  PROVE  /\ source' \in Seq(SourceCommit) /\ Len(source') = Len(source) + 1
         /\ IsPrefix(source, source')
<1>1. source \in Seq(SourceCommit) /\ source # <<>>
  BY DEF IInv, TypeOK
<1>2. Last(source) \in SourceCommit
  BY <1>1, LastIsElement
<1>3. [Last(source) EXCEPT !.by = "developer", !.content = c, !.version = v] \in SourceCommit
  BY <1>2, RequestedAreVersions DEF SourceCommit, Author
<1> QED
  BY <1>1, <1>3, PrefixOfSelf, PrefixOfAppend, AppendProperties DEF PushSource

(* A foreign commit extends the release branch by the same output. *)
LEMMA OthersExtend ==
  ASSUME IInv, NEW b \in BOOLEAN, OtherReleaseCommit(b)
  PROVE  /\ release' \in Seq(ReleaseCommit) /\ IsPrefix(release, release')
         /\ MoveForward(release')
<1> DEFINE c == [Last(release) EXCEPT !.by = "other", !.intact = b]
<1>1. release \in Seq(ReleaseCommit) /\ release # <<>> /\ MoveForward(release)
  BY DEF IInv, TypeOK, ReleasesMoveForward, OtherReleaseCommit
<1>2. Last(release) \in ReleaseCommit
  BY <1>1, LastIsElement
<1>3. /\ c \in ReleaseCommit
      /\ c.version = Last(release).version /\ ReleaseBasis(c) = ReleaseBasis(Last(release))
  BY <1>2 DEF ReleaseCommit, Author, ReleaseBasis
<1>4. release' = Append(release, c)
  BY DEF OtherReleaseCommit
<1> HIDE DEF c
<1> QED
  BY <1>1, <1>3, <1>4, ForwardAppend, PrefixOfSelf, PrefixOfAppend, AppendProperties

(* What a job checks out. *)
LEMMA CheckedOut ==
  ASSUME IInv, NEW n \in queue
  PROVE  SubSeq(source, 1, n) \in Seq(SourceCommit) /\ SubSeq(source, 1, n) # <<>>
<1>1. source \in Seq(SourceCommit) /\ n \in 1 .. Len(source)
  BY DEF IInv, TypeOK
<1>2. \A i \in 1 .. n : source[i] \in SourceCommit
  BY <1>1, ElementOfSeq
<1>3. SubSeq(source, 1, n) \in Seq(SourceCommit) /\ Len(SubSeq(source, 1, n)) = n
  BY <1>1, <1>2, SubSeqProperties
<1> QED
  BY <1>1, <1>3, EmptySeq

(* The runs that only read keep the invariant. *)
LEMMA ReadingKeepsIInv ==
  ASSUME IInv, NEW p \in Publisher,
         StartJob(p) \/ FollowSourceBranch(p) \/ SnapshotSource(p) \/ FetchRelease(p)
           \/ PrepareCommits(p)
  PROVE  IInv'
<1>1. /\ TypeOK /\ run \in [Publisher -> Run] /\ run[p] \in Run
      /\ \A q \in Publisher : RunOK(run[q])
      /\ source \in Seq(SourceCommit) /\ source # <<>>
      /\ release \in Seq(ReleaseCommit) /\ MoveForward(release)
      /\ queue \subseteq 1 .. Len(source) /\ failed \in BOOLEAN
  BY DEF IInv, TypeOK, ReleasesMoveForward
<1>2. CASE StartJob(p)
  <2>1. PICK n \in queue, t \in Toolchain :
          /\ run' = [run EXCEPT ![p].step = IF host = "gitlab" THEN "queued" ELSE "checked out",
                                ![p].head = SubSeq(source, 1, n), ![p].tool = t]
          /\ queue' = queue \ {n}
    BY <1>2 DEF StartJob
  <2> DEFINE r == [run[p] EXCEPT !.step = IF host = "gitlab" THEN "queued" ELSE "checked out",
                                 !.head = SubSeq(source, 1, n), !.tool = t]
  <2>2. SubSeq(source, 1, n) \in Seq(SourceCommit) /\ SubSeq(source, 1, n) # <<>>
    BY CheckedOut
  <2>3. r \in Run /\ RunOK(r)
    BY <1>1, <2>2 DEF Run, Step, RunOK
  <2>4. run' = [run EXCEPT ![p] = r]
    BY <1>1, <2>1
  <2> HIDE DEF r
  <2>5. run' \in [Publisher -> Run] /\ \A q \in Publisher : RunOK(run'[q])
    BY <1>1, <2>3, <2>4, RunUpdate
  <2> QED
    BY <1>1, <1>2, <2>1, <2>5, RestKeeps DEF StartJob
<1>3. CASE FollowSourceBranch(p)
  <2> DEFINE r == [run[p] EXCEPT !.step = "checked out", !.head = source]
  <2>1. r \in Run /\ RunOK(r) /\ run' = [run EXCEPT ![p] = r]
    BY <1>1, <1>3 DEF Run, Step, RunOK, FollowSourceBranch, At
  <2> HIDE DEF r
  <2>2. run' \in [Publisher -> Run] /\ \A q \in Publisher : RunOK(run'[q])
    BY <1>1, <2>1, RunUpdate
  <2> QED
    BY <1>1, <1>3, <2>2, RestKeeps DEF FollowSourceBranch
<1>4. CASE SnapshotSource(p)
  <2> DEFINE r == [run[p] EXCEPT !.step = "snapshot", !.sourceBase = source]
  <2>1. r \in Run /\ RunOK(r) /\ run' = [run EXCEPT ![p] = r]
    BY <1>1, <1>4 DEF Run, Step, RunOK, SnapshotSource, At
  <2> HIDE DEF r
  <2>2. run' \in [Publisher -> Run] /\ \A q \in Publisher : RunOK(run'[q])
    BY <1>1, <2>1, RunUpdate
  <2> QED
    BY <1>1, <1>4, <2>2, RestKeeps DEF SnapshotSource
<1>5. CASE FetchRelease(p)
  <2> DEFINE r == [run[p] EXCEPT !.step = "fetched", !.releaseBase = release]
  <2>1. r \in Run /\ RunOK(r) /\ run' = [run EXCEPT ![p] = r]
    BY <1>1, <1>5 DEF Run, Step, RunOK, FetchRelease, At
  <2> HIDE DEF r
  <2>2. run' \in [Publisher -> Run] /\ \A q \in Publisher : RunOK(run'[q])
    BY <1>1, <2>1, RunUpdate
  <2> QED
    BY <1>1, <1>5, <2>2, RestKeeps DEF FetchRelease
<1>6. CASE PrepareCommits(p)
  <2> DEFINE r == [run[p] EXCEPT !.step = "prepared", !.sourceCommit = SourceWith(p),
                                 !.releaseCommit = RecordedRelease(p)]
  <2>1. r \in Run /\ RunOK(r)
    BY <1>1, <1>6, PreparedCommits DEF PrepareCommits
  <2>2. run' = [run EXCEPT ![p] = r]
    BY <1>1, <1>6 DEF PrepareCommits
  <2> HIDE DEF r
  <2>3. run' \in [Publisher -> Run] /\ \A q \in Publisher : RunOK(run'[q])
    BY <1>1, <2>1, <2>2, RunUpdate
  <2> QED
    BY <1>1, <1>6, <2>3, RestKeeps DEF PrepareCommits
<1> QED
  BY <1>2, <1>3, <1>4, <1>5, <1>6

(* So do the steps that end a run without an effect on origin. *)
LEMMA EndingKeepsIInv ==
  ASSUME IInv, NEW p \in Publisher,
         \/ LeaveToNewerPipeline(p) \/ SourceAdvanced(p) \/ UnreadableRelease(p)
         \/ LeaseIsStale(p) \/ RefMoved(p)
  PROVE  IInv'
<1>1. queue \subseteq 1 .. Len(source) /\ failed \in BOOLEAN
  BY DEF IInv, TypeOK
<1>2. PICK f \in BOOLEAN : RunEnds(p, f)
  BY <1>1 DEF LeaveToNewerPipeline, SourceAdvanced, UnreadableRelease, LeaseIsStale, RefMoved
<1>3. UNCHANGED <<host, origin, queue, bounds>>
  BY DEF LeaveToNewerPipeline, SourceAdvanced, UnreadableRelease, LeaseIsStale, RefMoved
<1> QED
  BY <1>1, <1>2, <1>3, RunEndsKeeps, RestKeeps

(* The client's part of a push changes nothing at origin. *)
LEMMA ReadRefsKeepsIInv ==
  ASSUME IInv, NEW p \in Publisher, ReadRefs(p)
  PROVE  IInv'
<1>1. /\ run \in [Publisher -> Run] /\ run[p] \in Run
      /\ \A q \in Publisher : RunOK(run[q])
      /\ queue \subseteq 1 .. Len(source) /\ failed \in BOOLEAN
  BY DEF IInv, TypeOK
<1>2. CASE SourceIsUpToDate(p) /\ ReleaseIsUpToDate(p)
  BY <1>1, <1>2, RunEndsKeeps, RestKeeps DEF ReadRefs
<1>3. CASE ~(SourceIsUpToDate(p) /\ ReleaseIsUpToDate(p))
  <2> DEFINE next == IF SourceIsUpToDate(p) THEN "pushing release" ELSE "pushing"
             r == [run[p] EXCEPT !.step = next]
  <2>1. run' = [run EXCEPT ![p].step = next] /\ UNCHANGED failed
    BY <1>3 DEF ReadRefs
  <2>2. run[p].step = "prepared" /\ RunOK(run[p])
    BY <1>1 DEF ReadRefs, At
  <2>3. SourceIsUpToDate(p) => SameRelease(run[p].releaseBase, run[p].releaseCommit)
    <3>1. SUFFICES ASSUME SourceIsUpToDate(p)
                   PROVE  SameRelease(run[p].releaseBase, run[p].releaseCommit)
      OBVIOUS
    <3>2. run[p].releaseCommit # run[p].releaseBase
      BY <1>3, <3>1 DEF ReadRefs, LeasesHold, ReleaseIsUpToDate
    <3>3. run[p].sourceCommit = run[p].head
      BY <2>2, <3>1, <3>2 DEF RunOK, SourceIsUpToDate
    <3> QED
      BY <2>2, <3>2, <3>3 DEF RunOK
  <2>4. next \in {"pushing", "pushing release"}
        /\ (next = "pushing release" => SourceIsUpToDate(p))
    OBVIOUS
  <2> HIDE DEF next
  <2>5. r \in Run /\ RunOK(r) /\ run' = [run EXCEPT ![p] = r]
    BY <1>1, <2>1, <2>2, <2>3, <2>4 DEF Run, Step, RunOK
  <2> HIDE DEF r
  <2>6. run' \in [Publisher -> Run] /\ \A q \in Publisher : RunOK(run'[q])
    BY <1>1, <2>5, RunUpdate
  <2> QED
    BY <1>1, <2>1, <2>6, RestKeeps DEF ReadRefs
<1> QED
  BY <1>2, <1>3
-----------------------------------------------------------------------------
(* In the beginning nobody runs and nothing is released. *)
LEMMA InitIInv == Init => IInv
<1> SUFFICES ASSUME Init PROVE IInv
  OBVIOUS
<1>1. PICK c \in Content, v \in Requested :
        source = <<[by |-> "developer", content |-> c, version |-> v, pointers |-> NoPointers]>>
  BY DEF Init
<1>2. source \in Seq(SourceCommit) /\ source # <<>> /\ Len(source) = 1
  BY <1>1, RequestedAreVersions DEF SourceCommit, Author
<1>3. run \in [Publisher -> Run] /\ \A p \in Publisher : RunOK(run[p])
  BY NoRunOK DEF Init
<1>4. release \in Seq(ReleaseCommit) /\ MoveForward(release)
  BY EmptySeq, ForwardFirst DEF Init
<1>5. host \in {"github", "gitlab"} /\ queue = {1}
  BY DEF Init
<1>6. queue \subseteq 1 .. Len(source)
  BY <1>2, <1>5
<1>7. failed \in BOOLEAN
  BY DEF Init
<1>8. pushes \in 0 .. MaxPushes /\ byHand \in 0 .. MaxByHand /\ mishaps \in 0 .. MaxMishaps
  BY PublisherBounds DEF Init
<1> QED
  BY <1>2, <1>3, <1>4, <1>5, <1>6, <1>7, <1>8 DEF IInv, TypeOK, ReleasesMoveForward

(* Every step keeps the invariant, only extends the branches, and lands a  *)
(* publication only on the branches it was built from.                     *)
LEMMA NextKeepsIInv ==
  ASSUME IInv, [Next]_vars
  PROVE  /\ IInv'
         /\ IsPrefix(source, source') /\ IsPrefix(release, release')
         /\ \A p \in Publisher : Publishes(p) => FromItsSnapshots(p)
<1>1. /\ source \in Seq(SourceCommit) /\ source # <<>> /\ Len(source) \in Nat
      /\ release \in Seq(ReleaseCommit) /\ MoveForward(release)
      /\ run \in [Publisher -> Run] /\ \A q \in Publisher : RunOK(run[q])
      /\ queue \subseteq 1 .. Len(source) /\ failed \in BOOLEAN
      /\ pushes \in 0 .. MaxPushes /\ byHand \in 0 .. MaxByHand /\ mishaps \in 0 .. MaxMishaps
      /\ host \in {"github", "gitlab"}
      /\ Len(source) \in 1 .. Len(source)
  <2>1. source \in Seq(SourceCommit) /\ source # <<>>
    BY DEF IInv, TypeOK
  <2>2. Len(source) \in Nat /\ Len(source) # 0
    BY <2>1, EmptySeq, LenProperties
  <2> QED
    BY <2>1, <2>2 DEF IInv, TypeOK, ReleasesMoveForward
<1>2. IsPrefix(source, source) /\ IsPrefix(release, release)
  BY <1>1, PrefixOfSelf
<1> DEFINE Good == /\ IInv'
                   /\ IsPrefix(source, source') /\ IsPrefix(release, release')
                   /\ \A p \in Publisher : Publishes(p) => FromItsSnapshots(p)
<1>3. ASSUME UNCHANGED origin, IInv' PROVE Good
  BY <1>2, <1>3 DEF origin, Publishes, Lands
<1> HIDE DEF Good
<1>4. ASSUME NEW p \in Publisher, PublisherStep(p) PROVE Good
  <2>1. CASE StartJob(p) \/ FollowSourceBranch(p) \/ SnapshotSource(p) \/ FetchRelease(p)
               \/ PrepareCommits(p)
    BY <2>1, <1>3, ReadingKeepsIInv
       DEF StartJob, FollowSourceBranch, SnapshotSource, FetchRelease, PrepareCommits
  <2>2. CASE LeaveToNewerPipeline(p) \/ SourceAdvanced(p) \/ UnreadableRelease(p)
               \/ LeaseIsStale(p) \/ RefMoved(p)
    BY <2>2, <1>3, EndingKeepsIInv
       DEF LeaveToNewerPipeline, SourceAdvanced, UnreadableRelease, LeaseIsStale, RefMoved
  <2>3. CASE ReadRefs(p)
    BY <2>3, <1>3, ReadRefsKeepsIInv DEF ReadRefs
  <2>4. CASE UpdateRefs(p)
    <3>1. /\ source' \in Seq(SourceCommit) /\ release' \in Seq(ReleaseCommit)
          /\ IsPrefix(source, source') /\ IsPrefix(release, release')
          /\ MoveForward(release')
          /\ \/ origin' = origin
             \/ source' = source /\ SameRelease(release, release')
             \/ FromItsSnapshots(p)
      BY <2>4, PushExtends
    <3>2. /\ run' \in [Publisher -> Run] /\ failed' \in BOOLEAN
          /\ \A q \in Publisher : RunOK(run'[q])
      BY <2>4, RunEndsKeeps DEF UpdateRefs
    <3>3. Len(source) <= Len(source') /\ source' # <<>> /\ Len(source') \in Nat
      BY <1>1, <3>1, EmptySeq, LenProperties DEF IsPrefix
    <3>4. IInv'
      BY <1>1, <2>4, <3>1, <3>2, <3>3 DEF IInv, TypeOK, UpdateRefs, bounds, ReleasesMoveForward, MoveForward
    <3>5. \A q \in Publisher : Lands(q) => q = p
      <4>1. \A q \in Publisher \ {p} : run'[q] = run[q]
        BY <1>1, <2>4 DEF UpdateRefs, RunEnds
      <4> QED
        BY <4>1 DEF Lands, Pushing, At
    <3> QED
      BY <3>1, <3>4, <3>5 DEF Good, Publishes, Lands
  <2> QED
    BY <1>4, <2>1, <2>2, <2>3, <2>4 DEF PublisherStep
<1>5. ASSUME NEW p \in Publisher, RunFails(p) PROVE Good
  <2>1. /\ run' \in [Publisher -> Run] /\ failed' \in BOOLEAN
        /\ \A q \in Publisher : RunOK(run'[q])
    BY <1>5, RunEndsKeeps DEF RunFails
  <2>2. mishaps' \in 0 .. MaxMishaps
    BY <1>1, <1>5, PublisherBounds DEF RunFails
  <2>3. IInv'
    BY <1>1, <1>5, <2>1, <2>2 DEF RunFails, origin, IInv, TypeOK, ReleasesMoveForward, MoveForward
  <2> QED
    BY <1>3, <1>5, <2>3 DEF RunFails
<1>6. ASSUME NEW p \in Publisher, NEW c \in Content, StartInClone(p, c) PROVE Good
  <2> DEFINE commit == [Last(source) EXCEPT !.by = "developer", !.content = c]
  <2>1. Last(source) \in SourceCommit
    BY <1>1, LastIsElement
  <2>2. commit \in SourceCommit
    BY <2>1 DEF SourceCommit, Author
  <2>3. PICK t \in Toolchain :
          run' = [run EXCEPT ![p].step = "checked out", ![p].head = Append(source, commit),
                             ![p].tool = t]
    BY <1>6 DEF StartInClone
  <2>4. Append(source, commit) \in Seq(SourceCommit) /\ Append(source, commit) # <<>>
    BY <1>1, <2>2, AppendProperties, EmptySeq
  <2> DEFINE r == [run[p] EXCEPT !.step = "checked out", !.head = Append(source, commit), !.tool = t]
  <2> HIDE DEF commit
  <2>5. r \in Run /\ RunOK(r) /\ run' = [run EXCEPT ![p] = r]
    BY <1>1, <2>3, <2>4 DEF Run, Step, RunOK
  <2> HIDE DEF r
  <2>6. run' \in [Publisher -> Run] /\ \A q \in Publisher : RunOK(run'[q])
    BY <1>1, <2>5, RunUpdate
  <2>7. /\ byHand < MaxByHand /\ byHand' = byHand + 1
        /\ UNCHANGED <<host, origin, queue, failed, pushes, mishaps>>
    BY <1>6, Zenon DEF StartInClone
  <2>8. IInv'
    BY <1>1, <2>6, <2>7, PublisherBounds DEF origin, IInv, TypeOK, ReleasesMoveForward, MoveForward
  <2> QED
    BY <1>3, <2>7, <2>8
<1>7. ASSUME NEW c \in Content, NEW v \in Requested \cup {Last(source).version}, PushSource(c, v)
      PROVE Good
  <2>1. /\ source' \in Seq(SourceCommit) /\ Len(source') = Len(source) + 1
        /\ IsPrefix(source, source')
    BY <1>7, PeopleExtend
  <2>2. queue' \subseteq queue \cup {Len(source) + 1}
    BY <1>7 DEF PushSource
  <2>3. source' # <<>> /\ queue' \subseteq 1 .. Len(source')
    <3>1. Len(source') # 0
      BY <1>1, <2>1
    <3> QED
      BY <1>1, <2>1, <2>2, <3>1, EmptySeq
  <2>4. pushes' \in 0 .. MaxPushes
    BY <1>1, <1>7, PublisherBounds DEF PushSource
  <2>5. IInv'
    BY <1>1, <1>7, <2>1, <2>3, <2>4 DEF PushSource, IInv, TypeOK, ReleasesMoveForward, MoveForward
  <2>6. \A p \in Publisher : ~Lands(p)
    BY <1>7 DEF PushSource, Lands, Pushing, At
  <2> QED
    BY <1>2, <1>7, <2>1, <2>5, <2>6 DEF PushSource, Good, Publishes
<1>8. ASSUME StartByHand PROVE Good
  <2>1. queue' \subseteq 1 .. Len(source)
    BY <1>1, <1>8 DEF StartByHand
  <2>2. byHand' \in 0 .. MaxByHand
    BY <1>1, <1>8, PublisherBounds DEF StartByHand
  <2>3. IInv'
    BY <1>1, <1>8, <2>1, <2>2 DEF StartByHand, origin, IInv, TypeOK, ReleasesMoveForward, MoveForward
  <2> QED
    BY <1>3, <1>8, <2>3 DEF StartByHand
<1>9. ASSUME NEW b \in BOOLEAN, OtherReleaseCommit(b) PROVE Good
  <2>1. /\ release' \in Seq(ReleaseCommit) /\ IsPrefix(release, release')
        /\ MoveForward(release')
    BY <1>9, OthersExtend
  <2>2. mishaps' \in 0 .. MaxMishaps
    BY <1>1, <1>9, PublisherBounds DEF OtherReleaseCommit
  <2>3. IInv'
    BY <1>1, <1>9, <2>1, <2>2 DEF OtherReleaseCommit, IInv, TypeOK, ReleasesMoveForward, MoveForward
  <2>4. \A p \in Publisher : ~Lands(p)
    BY <1>9 DEF OtherReleaseCommit, Lands, Pushing, At
  <2> QED
    BY <1>2, <1>9, <2>1, <2>3, <2>4 DEF OtherReleaseCommit, Good, Publishes
<1>10. ASSUME UNCHANGED vars PROVE Good
  <2>1. IInv'
    BY <1>10 DEF vars, IInv, TypeOK, ReleasesMoveForward, MoveForward
  <2> QED
    BY <1>3, <1>10, <2>1 DEF vars, origin
<1>11. Good
  BY <1>4, <1>5, <1>6, <1>7, <1>8, <1>9, <1>10 DEF Next
<1> QED
  BY <1>11 DEF Good

(* The inductive invariant. *)
THEOREM PublisherInvariance == Spec => []IInv
<1>1. Init => IInv
  BY InitIInv
<1>2. IInv /\ [Next]_vars => IInv'
  BY NextKeepsIInv
<1> QED
  BY <1>1, <1>2, PTL DEF Spec

(* Released versions never fall and never name outputs of two version      *)
(* bases (versions.py), for any publishers, toolchains, requested versions *)
(* and whatever part of the output the basis holds.                        *)
THEOREM VersionsMoveForward == Spec => []ReleasesMoveForward
<1>1. IInv => ReleasesMoveForward
  BY DEF IInv
<1> QED
  BY <1>1, PublisherInvariance, PTL

(* A publication changes the source branch or the output only if neither   *)
(* branch has changed since it was read, although git guards only the refs *)
(* it sends (run.sh).                                                      *)
THEOREM PublicationsLandOnTheirSnapshots == Spec => LandsOnItsSnapshots
<1>1. IInv /\ [Next]_vars =>
        \A p \in Publisher : Publishes(p) => FromItsSnapshots(p)
  BY NextKeepsIInv
<1> QED
  BY <1>1, PublisherInvariance, PTL DEF Spec, LandsOnItsSnapshots

(* No commit on either branch is ever dropped. *)
THEOREM OriginOnlyGrows == Spec => NothingIsOverwritten
<1>1. IInv /\ [Next]_vars => IsPrefix(source, source') /\ IsPrefix(release, release')
  BY NextKeepsIInv
<1> QED
  BY <1>1, PublisherInvariance, PTL DEF Spec, NothingIsOverwritten

(* Branches, runs and everything else keep their types, for any publishers,   *)
(* contents, toolchains and versions.                                       *)
THEOREM PublisherTypes == Spec => []TypeOK
<1>1. IInv => TypeOK
  BY DEF IInv
<1> QED
  BY <1>1, PublisherInvariance, PTL
-----------------------------------------------------------------------------
(* The steps at which a run has its commits. *)
Made == {"prepared", "pushing", "pushing release"}

(* The commits of a run are the ones prepare_release_commit and              *)
(* prepare_source_commit make of its bases.                                  *)
MadeFromBases(p) ==
  run[p].step \in Made =>
    /\ InOrder(p)
    /\ IsPrefix(run[p].sourceBase, run[p].head)
    /\ run[p].sourceCommit = SourceWith(p)
    /\ run[p].releaseCommit = RecordedRelease(p)

(* Nothing is pushed unless the release has a commit more. *)
SentForAReason(p) == Pushing(p) => run[p].releaseCommit # run[p].releaseBase

(* What a run compiles was at origin, where it read it, or is somebody's own. *)
HeadIsKnown(p) ==
  ~At(p, "idle") =>
    \/ Last(run[p].head).by = "developer"
    \/ /\ IsPrefix(run[p].head, source)
       /\ run[p].step \in {"snapshot", "fetched"} \cup Made => run[p].sourceBase = run[p].head

(* Of what a run compiles at most the last commit is not at origin yet. *)
HeadIsNear(p) == ~At(p, "idle") => Len(run[p].head) <= Len(source) + 1

(* The release branch grows from the base that a run has read. *)
BaseIsBehind(p) ==
  run[p].step \in {"fetched"} \cup Made => IsPrefix(run[p].releaseBase, release)

(* A run that need not push the source branch found its own hub there; as    *)
(* long as the release stays, only people push after it.                     *)
OnlyPeoplePushed(p) ==
  At(p, "pushing release") =>
    /\ run[p].sourceCommit = run[p].head
    /\ release = run[p].releaseBase => Last(source).by \notin Publisher

(* What holds of every run. *)
RunInv(p) ==
  /\ MadeFromBases(p)
  /\ SentForAReason(p)
  /\ HeadIsKnown(p)
  /\ HeadIsNear(p)
  /\ BaseIsBehind(p)
  /\ OnlyPeoplePushed(p)

(* If both branches end with a publication, it is the same one. *)
InStep ==
  (Last(source).by \in Publisher /\ release # <<>> /\ Last(release).by \in Publisher) =>
    /\ SameHub(Last(source), Last(release))
    /\ Last(source).pointers = Last(source).content
    /\ Last(release).intact

(* A run for the hub on the source branch waits or is under way. *)
Pending ==
  \/ \E n \in queue : SameHub(source[n], Last(source))
  \/ \E p \in Publisher : ~At(p, "idle") /\ SameHub(Hub(p), Last(source))

(* What the hub on the source branch is: released, reported or pending. *)
Owed == Released \/ failed \/ Pending

(* No publication has landed by halves, whatever its hub and version. *)
AllAreWhole == \A p \in Publisher, c \in Content, v \in Version : Whole(p, c, v)

(* The publication invariant. *)
PInv ==
  /\ \A p \in Publisher : RunInv(p)
  /\ InStep
  /\ Owed
  /\ AllAreWhole
-----------------------------------------------------------------------------
(* Prefixes, element by element. *)
LEMMA PrefixElements ==
  ASSUME NEW S, NEW s \in Seq(S), NEW t \in Seq(S)
  PROVE  IsPrefix(s, t) <=> Len(s) <= Len(t) /\ \A i \in 1 .. Len(s) : s[i] = t[i]
<1>1. Len(s) \in Nat /\ Len(t) \in Nat
  BY LenProperties
<1>2. SubSeq(s, 1, Len(s)) = s
  BY <1>1, SubSeqFull
<1>3. ASSUME Len(s) <= Len(t)
      PROVE  /\ SubSeq(t, 1, Len(s)) \in Seq(S)
             /\ Len(SubSeq(t, 1, Len(s))) = Len(s)
             /\ \A i \in 1 .. Len(s) : SubSeq(t, 1, Len(s))[i] = t[i]
  <2>1. \A i \in 1 .. Len(s) : t[i] \in S
    BY <1>1, <1>3, ElementOfSeq
  <2> QED
    BY <1>1, <1>3, <2>1, SubSeqProperties
<1>4. ASSUME Len(s) <= Len(t), \A i \in 1 .. Len(s) : s[i] = t[i]
      PROVE  s = SubSeq(t, 1, Len(s))
  <2>1. \A i \in 1 .. Len(s) : s[i] = SubSeq(t, 1, Len(s))[i]
    BY <1>3, <1>4
  <2>2. SubSeq(t, 1, Len(s)) \in Seq(S) /\ Len(SubSeq(t, 1, Len(s))) = Len(s)
    BY <1>3, <1>4
  <2> HIDE <1>3
  <2> QED
    BY <2>1, <2>2, SeqEqual
<1>5. ASSUME Len(s) <= Len(t), s = SubSeq(t, 1, Len(s)), NEW i \in 1 .. Len(s)
      PROVE  s[i] = t[i]
  <2>1. SubSeq(t, 1, Len(s))[i] = t[i]
    BY <1>3, <1>5
  <2> QED
    BY <1>5, <2>1
<1> QED
  BY <1>2, <1>4, <1>5 DEF IsPrefix

(* Being a prefix is transitive. *)
LEMMA PrefixTransitive ==
  ASSUME NEW S, NEW s \in Seq(S), NEW t \in Seq(S), NEW u \in Seq(S),
         IsPrefix(s, t), IsPrefix(t, u)
  PROVE  IsPrefix(s, u)
<1>1. /\ Len(s) <= Len(t) /\ \A i \in 1 .. Len(s) : s[i] = t[i]
      /\ Len(t) <= Len(u) /\ \A i \in 1 .. Len(t) : t[i] = u[i]
      /\ Len(s) \in Nat /\ Len(t) \in Nat /\ Len(u) \in Nat
  BY PrefixElements, LenProperties
<1>2. Len(s) <= Len(u) /\ \A i \in 1 .. Len(s) : s[i] = u[i]
  BY <1>1
<1> QED
  BY <1>2, PrefixElements

(* Prefixes of the same length are equal. *)
LEMMA PrefixEqual ==
  ASSUME NEW S, NEW s \in Seq(S), NEW t \in Seq(S), IsPrefix(s, t), Len(t) <= Len(s)
  PROVE  s = t
<1>1. /\ Len(s) <= Len(t) /\ \A i \in 1 .. Len(s) : s[i] = t[i]
      /\ Len(s) \in Nat /\ Len(t) \in Nat
  BY PrefixElements, LenProperties
<1> QED
  BY <1>1, SeqEqual

(* What is appended is the last. *)
LEMMA LastOfAppend ==
  ASSUME NEW S, NEW s \in Seq(S), NEW x \in S
  PROVE  /\ Append(s, x) \in Seq(S) /\ Append(s, x) # <<>>
         /\ Last(Append(s, x)) = x
         /\ Len(Append(s, x)) = Len(s) + 1
<1>1. /\ Append(s, x) \in Seq(S) /\ Len(Append(s, x)) = Len(s) + 1
      /\ Append(s, x)[Len(s) + 1] = x /\ Len(s) \in Nat
  BY AppendProperties, LenProperties
<1> QED
  BY <1>1, EmptySeq DEF Last
-----------------------------------------------------------------------------
(* The two commits of a run have the same hub and version; the release has a *)
(* commit more only if the run records it, or if it has the hub of the one   *)
(* before.                                                                   *)
LEMMA CommitsAgree ==
  ASSUME TypeOK, NEW p \in Publisher, RunOK(run[p]), ~At(p, "idle"), InOrder(p),
         IsPrefix(run[p].sourceBase, run[p].head)
  PROVE  LET base == run[p].releaseBase
             s == SourceWith(p)
             r == RecordedRelease(p)
         IN /\ s \in Seq(SourceCommit) /\ s # <<>>
            /\ r \in Seq(ReleaseCommit) /\ r # <<>>
            /\ SameHub(Last(s), Last(r))
            /\ Last(r).intact
            /\ \/ s = run[p].head
               \/ Last(s).by = p /\ Last(s).pointers = Last(s).content
            /\ \/ r = base
               \/ /\ r = Append(base, Last(r))
                  /\ Last(s).by = p \/ (base # <<>> /\ SameHub(Last(base), Last(r)))
<1> DEFINE base == run[p].releaseBase
           head == run[p].head
           commit == [Hub(p) EXCEPT !.by = p, !.version = PublishVersion(p),
                                    !.pointers = Hub(p).content]
           record == [Last(base) EXCEPT !.by = p]
           s == SourceWith(p)
           r == RecordedRelease(p)
           o == Output(p)
<1>1. /\ run[p] \in Run
      /\ base \in Seq(ReleaseCommit)
      /\ head \in Seq(SourceCommit) /\ head # <<>> /\ run[p].tool \in Toolchain
      /\ Hub(p) \in SourceCommit /\ Hub(p) = Last(head)
      /\ PublishVersion(p) \in Version
  BY HubType, PublishVersionForward DEF TypeOK, Run, RunOK, At, Hub
<1>2. /\ commit \in SourceCommit
      /\ commit.by = p /\ commit.version = PublishVersion(p)
      /\ commit.content = Hub(p).content /\ commit.pointers = Hub(p).content
  BY <1>1 DEF SourceCommit, Author
<1>3. /\ o \in ReleaseCommit /\ o.intact
      /\ o.content = Hub(p).content /\ o.version = PublishVersion(p)
  BY <1>1 DEF Output, SourceCommit, ReleaseCommit, Author
<1>4. ASSUME base # <<>>
      PROVE  /\ Last(base) \in ReleaseCommit /\ Last(base).intact
             /\ record \in ReleaseCommit
             /\ record.content = Last(base).content /\ record.version = Last(base).version
             /\ record.intact
  <2>1. Last(base) \in ReleaseCommit
    BY <1>1, <1>4, LastIsElement
  <2>2. Last(base).intact
    BY <1>4 DEF InOrder
  <2> HIDE DEF base
  <2> QED
    BY <2>1, <2>2 DEF ReleaseCommit, Author
<1>5. /\ Append(head, commit) \in Seq(SourceCommit) /\ Append(head, commit) # <<>>
      /\ Last(Append(head, commit)) = commit
  BY <1>1, <1>2, LastOfAppend
<1>6. Append(base, o) \in Seq(ReleaseCommit) /\ Append(base, o) # <<>> /\ Last(Append(base, o)) = o
  BY <1>1, <1>3, LastOfAppend
<1>7. base # <<>> => /\ Append(base, record) \in Seq(ReleaseCommit) /\ Append(base, record) # <<>>
                     /\ Last(Append(base, record)) = record
  BY <1>1, <1>4, LastOfAppend
<1>8. \/ ReleaseWith(p) = Append(base, o)
      \/ ReleaseWith(p) = base /\ base # <<>> /\ SameTree(Last(base), o)
  BY DEF ReleaseWith
<1>9. \/ s = Append(head, commit)
      \/ /\ s = head /\ ReleaseWith(p) = base
         /\ Hub(p).version = PublishVersion(p) /\ Hub(p).pointers = Hub(p).content
  BY DEF SourceWith
<1>10. \/ r = Append(base, record) /\ ReleaseWith(p) = base
       \/ r = ReleaseWith(p)
  BY DEF RecordedRelease
<1>11. ASSUME base # <<>>, SameTree(Last(base), o)
       PROVE  Last(base).content = o.content /\ Last(base).version = o.version
  <2>1. Last(base) \in ReleaseCommit
    BY <1>4, <1>11
  <2> DEFINE b == Last(base)
  <2> HIDE DEF b, o
  <2>2. [b EXCEPT !.by = o.by] = o
    BY <1>11 DEF SameTree, b
  <2>3. b \in ReleaseCommit
    BY <2>1 DEF b
  <2>4. b.content = o.content /\ b.version = o.version
    BY <2>2, <2>3 DEF ReleaseCommit
  <2> QED
    BY <2>4 DEF b
<1>12. Append(base, o) # base
  BY <1>1, <1>3, PrefixOfSelf, PrefixOfAppend
<1> HIDE DEF commit, record, o
<1>13. /\ s \in Seq(SourceCommit) /\ s # <<>>
       /\ Last(s).content = Hub(p).content /\ Last(s).version = PublishVersion(p)
       /\ \/ s = head
          \/ Last(s).by = p /\ Last(s).pointers = Last(s).content
  BY <1>1, <1>2, <1>5, <1>9
<1>14. /\ r \in Seq(ReleaseCommit) /\ r # <<>>
       /\ Last(r).content = Hub(p).content /\ Last(r).version = PublishVersion(p)
       /\ Last(r).intact
       /\ r = base \/ r = Append(base, Last(r))
  <2>1. CASE r = Append(base, record) /\ ReleaseWith(p) = base
    <3>1. base # <<>> /\ SameTree(Last(base), o)
      BY <1>8, <1>12, <2>1
    <3> QED
      BY <2>1, <3>1, <1>3, <1>4, <1>7, <1>11
  <2>2. CASE r = ReleaseWith(p) /\ ReleaseWith(p) = Append(base, o)
    BY <2>2, <1>3, <1>6
  <2>3. CASE r = base /\ base # <<>> /\ SameTree(Last(base), o)
    BY <2>3, <1>1, <1>3, <1>4, <1>11
  <2> QED
    BY <1>8, <1>10, <2>1, <2>2, <2>3
<1>15. \/ r = base
       \/ Last(s).by = p
       \/ base # <<>> /\ SameHub(Last(base), Last(r))
  <2>1. CASE s = Append(head, commit)
    BY <2>1, <1>2, <1>5
  <2>2. CASE ReleaseWith(p) = base
    <3>1. base # <<>> /\ SameTree(Last(base), o)
      BY <1>8, <1>12, <2>2
    <3> QED
      BY <3>1, <1>3, <1>11, <1>14 DEF SameHub
  <2> QED
    BY <1>9, <2>1, <2>2
<1> QED
  BY <1>13, <1>14, <1>15 DEF SameHub

(* A run that finds its own hub and output published makes no commit. *)
LEMMA NothingToMake ==
  ASSUME TypeOK, NEW p \in Publisher, RunOK(run[p]), ~At(p, "idle"),
         run[p].sourceBase = run[p].head, run[p].releaseBase # <<>>,
         SameHub(Hub(p), Last(run[p].releaseBase)),
         Hub(p).pointers = Hub(p).content,
         Last(run[p].releaseBase).intact,
         Last(run[p].releaseBase).tool = run[p].tool
  PROVE  RecordedRelease(p) = run[p].releaseBase
<1> DEFINE base == run[p].releaseBase
           b == Last(base)
           o == Output(p)
<1>1. b \in ReleaseCommit
  BY LastIsElement DEF TypeOK, Run
<1>2. PublishVersion(p) = Hub(p).version
  BY DEF PublishVersion, SameBasis, ReleaseBasis, SameHub, MaxSemver
<1>3. SameTree(b, o)
  <2>1. o = [by |-> p, content |-> b.content, tool |-> b.tool, version |-> b.version,
             intact |-> TRUE]
    BY <1>2 DEF Output, SameHub
  <2>2. b.intact = TRUE
    BY <1>1 DEF ReleaseCommit
  <2> HIDE DEF b, o
  <2>3. [b EXCEPT !.by = p] = [by |-> p, content |-> b.content, tool |-> b.tool,
                               version |-> b.version, intact |-> b.intact]
    BY <1>1 DEF ReleaseCommit
  <2>4. o.by = p
    BY <2>1
  <2> QED
    BY <2>1, <2>2, <2>3, <2>4 DEF SameTree
<1>4. ReleaseWith(p) = base
  BY <1>3 DEF ReleaseWith
<1>5. SourceWith(p) = run[p].head
  BY <1>2, <1>4 DEF SourceWith
<1> QED
  BY <1>4, <1>5 DEF RecordedRelease
-----------------------------------------------------------------------------
(* The commits of a run depend on what it has read only. *)
LEMMA SameBasesSameCommits ==
  ASSUME NEW p \in Publisher,
         run'[p].head = run[p].head, run'[p].tool = run[p].tool,
         run'[p].sourceBase = run[p].sourceBase, run'[p].releaseBase = run[p].releaseBase
  PROVE  /\ Hub(p)' = Hub(p) /\ InOrder(p)' = InOrder(p)
         /\ SourceWith(p)' = SourceWith(p)
         /\ RecordedRelease(p)' = RecordedRelease(p)
<1>1. Hub(p)' = Hub(p)
  BY DEF Hub
<1>2. InOrder(p)' = InOrder(p)
  BY DEF InOrder
<1>3. PublishVersion(p)' = PublishVersion(p)
  BY <1>1 DEF PublishVersion
<1>4. Output(p)' = Output(p)
  BY <1>1, <1>3 DEF Output
<1>5. ReleaseWith(p)' = ReleaseWith(p)
  BY <1>4 DEF ReleaseWith
<1>6. SourceWith(p)' = SourceWith(p)
  BY <1>1, <1>3, <1>5 DEF SourceWith
<1>7. RecordedRelease(p)' = RecordedRelease(p)
  BY <1>5, <1>6 DEF RecordedRelease
<1> QED
  BY <1>1, <1>2, <1>6, <1>7

(* One commit more counts only for its own publisher, hub and version. *)
LEMMA CommitsOfAppend ==
  ASSUME NEW S, NEW t \in Seq(S), NEW x \in S, NEW q, NEW d, NEW w
  PROVE  LET before == CommitsOf(q, d, w, t)
             after == CommitsOf(q, d, w, Append(t, x))
             counts == x.by = q /\ x.content = d /\ x.version = w
         IN /\ IsFiniteSet(before) /\ Cardinality(before) \in Nat
            /\ ~counts => after = before
            /\ counts => Cardinality(after) = Cardinality(before) + 1
<1> DEFINE n == Len(t)
           before == CommitsOf(q, d, w, t)
           after == CommitsOf(q, d, w, Append(t, x))
<1>1. /\ n \in Nat /\ Len(Append(t, x)) = n + 1 /\ Append(t, x)[n + 1] = x
      /\ \A i \in 1 .. n : Append(t, x)[i] = t[i]
  BY AppendProperties, LenProperties
<1>2. before \subseteq 1 .. n /\ n + 1 \notin before
  BY <1>1 DEF CommitsOf
<1>3. IsFiniteSet(before) /\ Cardinality(before) \in Nat
  <2> HIDE DEF before
  <2>1. IsFiniteSet(1 .. n)
    BY <1>1, FS_Interval
  <2>2. IsFiniteSet(before)
    BY <1>2, <2>1, FS_Subset
  <2> QED
    BY <2>2, FS_CardinalityType
<1>4. ASSUME ~(x.by = q /\ x.content = d /\ x.version = w) PROVE after = before
  BY <1>1, <1>4 DEF CommitsOf
<1>5. ASSUME x.by = q, x.content = d, x.version = w PROVE after = before \cup {n + 1}
  BY <1>1, <1>5 DEF CommitsOf
<1> HIDE DEF before, after
<1>6. ASSUME after = before \cup {n + 1} PROVE Cardinality(after) = Cardinality(before) + 1
  BY <1>2, <1>3, <1>6, FS_AddElement
<1> QED
  BY <1>3, <1>4, <1>5, <1>6 DEF before, after

(* Nor is it a new output then, or if it repeats the output before it. *)
LEMMA NewOutputsOfAppend ==
  ASSUME release \in Seq(ReleaseCommit), NEW x \in ReleaseCommit,
         release' = Append(release, x), NEW q, NEW d, NEW w
  PROVE  LET before == NewOutputsOf(q, d, w)
             after == NewOutputsOf(q, d, w)'
             counts == x.by = q /\ x.content = d /\ x.version = w
         IN /\ Cardinality(before) \in Nat /\ Cardinality(after) \in Nat
            /\ ~counts => after = before
            /\ SameRelease(release, release') => after = before
            /\ Cardinality(after) <= Cardinality(before) + 1
<1> DEFINE n == Len(release)
           before == NewOutputsOf(q, d, w)
           after == NewOutputsOf(q, d, w)'
<1>1. /\ n \in Nat /\ Len(release') = n + 1 /\ release'[n + 1] = x
      /\ \A i \in 1 .. n : release'[i] = release[i]
  BY AppendProperties, LenProperties
<1>2. before \subseteq 1 .. n /\ n + 1 \notin before
  BY <1>1 DEF CommitsOf, NewOutputsOf
<1>3. IsFiniteSet(before) /\ Cardinality(before) \in Nat
  <2> HIDE DEF before
  <2>1. IsFiniteSet(1 .. n)
    BY <1>1, FS_Interval
  <2>2. IsFiniteSet(before)
    BY <1>2, <2>1, FS_Subset
  <2> QED
    BY <2>2, FS_CardinalityType
<1>4. ASSUME NEW i \in 1 .. n PROVE i \in after <=> i \in before
  <2>1. i \in CommitsOf(q, d, w, release') <=> i \in CommitsOf(q, d, w, release)
    BY <1>1, <1>4 DEF CommitsOf
  <2>2. i > 1 => release'[i - 1] = release[i - 1] /\ release'[i] = release[i]
    BY <1>1, <1>4
  <2> QED
    BY <1>4, <2>1, <2>2 DEF NewOutputsOf
<1>5. after \subseteq 1 .. n + 1
  BY <1>1 DEF CommitsOf, NewOutputsOf
<1>6. ASSUME ~(x.by = q /\ x.content = d /\ x.version = w) PROVE n + 1 \notin after
  BY <1>1, <1>6 DEF CommitsOf, NewOutputsOf
<1>7. ASSUME SameRelease(release, release') PROVE n + 1 \notin after
  <2>1. n # 0 /\ release # <<>> /\ SameTree(release[n], release'[n + 1])
    BY <1>1, <1>7, EmptySeq DEF SameRelease, Last
  <2> QED
    BY <1>1, <2>1 DEF NewOutputsOf
<1> HIDE DEF before, after
<1>8. \A i : i \in after <=> i \in before \/ (i = n + 1 /\ n + 1 \in after)
  <2>1. \A i : i \in 1 .. n + 1 <=> i \in 1 .. n \/ i = n + 1
    BY <1>1
  <2> HIDE DEF n
  <2> QED
    BY <1>2, <1>4, <1>5, <2>1
<1>9. n + 1 \in after => after = before \cup {n + 1}
  BY <1>8
<1>10. n + 1 \notin after => after = before
  BY <1>8
<1>11. Cardinality(after) \in Nat /\ Cardinality(after) <= Cardinality(before) + 1
  <2>1. CASE n + 1 \notin after
    BY <1>3, <1>10, <2>1
  <2>2. CASE n + 1 \in after
    <3>1. Cardinality(before \cup {n + 1}) = Cardinality(before) + 1
      BY <1>2, <1>3, FS_AddElement
    <3>2. after = before \cup {n + 1}
      BY <1>9, <2>2
    <3> HIDE DEF n
    <3> QED
      BY <1>3, <3>1, <3>2
  <2> QED
    BY <2>1, <2>2
<1> QED
  BY <1>3, <1>6, <1>7, <1>10, <1>11 DEF before, after

(* What is at origin is what counts. *)
LEMMA WholeStays ==
  ASSUME source' = source, release' = release
  PROVE  AllAreWhole' <=> AllAreWhole
BY DEF AllAreWhole, Whole, NewOutputsOf, CommitsOf

(* What a run compiles holds no commits of publishers but those of its base. *)
LEMMA NoPublisherInBetween ==
  ASSUME IInv, NEW p \in Publisher, RunInv(p), run[p].step \in Made,
         source = run[p].sourceBase, IsPrefix(run[p].sourceBase, run[p].head),
         NEW q \in Publisher, NEW d, NEW w
  PROVE  CommitsOf(q, d, w, run[p].head) = CommitsOf(q, d, w, source)
<1> DEFINE head == run[p].head
<1>1. /\ source \in Seq(SourceCommit) /\ head \in Seq(SourceCommit)
      /\ ~At(p, "idle") /\ run[p].step \in {"snapshot", "fetched"} \cup Made
  BY DEF IInv, TypeOK, Run, At, Made
<1>2. Len(source) \in Nat /\ Len(head) \in Nat /\ Len(source) <= Len(head)
      /\ \A i \in 1 .. Len(source) : source[i] = head[i]
  BY <1>1, PrefixElements, LenProperties
<1>3. Len(head) <= Len(source) + 1
  BY <1>1 DEF RunInv, HeadIsNear
<1>4. CASE Len(head) = Len(source)
  BY <1>2, <1>4 DEF CommitsOf
<1>5. CASE Len(head) = Len(source) + 1
  <2>1. source # head
    BY <1>2, <1>5
  <2>2. Last(head).by = "developer"
    BY <1>1, <2>1 DEF RunInv, HeadIsKnown
  <2>3. head[Len(source) + 1].by # q
    BY <1>5, <2>2, PublishersAreNoPeople DEF Last
  <2>4. \A i \in 1 .. Len(head) : i \in 1 .. Len(source) \/ i = Len(source) + 1
    BY <1>2, <1>5
  <2>5. 1 .. Len(source) \subseteq 1 .. Len(head)
    BY <1>2
  <2> HIDE DEF head
  <2> QED
    BY <1>2, <2>3, <2>4, <2>5 DEF CommitsOf, head
<1> QED
  BY <1>2, <1>3, <1>4, <1>5

(* A run that ends has nothing to answer for. *)
LEMMA EndedRun ==
  ASSUME NEW p \in Publisher, run'[p].step = "idle"
  PROVE  RunInv(p)'
BY DEF RunInv, MadeFromBases, SentForAReason, HeadIsKnown, HeadIsNear, BaseIsBehind, OnlyPeoplePushed,
       Made, Pushing, At

(* Branches that grow do not disturb a run that stands still. *)
LEMMA OthersKeep ==
  ASSUME IInv, IInv', NEW q \in Publisher, RunInv(q), run'[q] = run[q],
         IsPrefix(source, source'), IsPrefix(release, release'),
         source' = source \/ Last(source').by \notin Publisher \/ release' # release
  PROVE  RunInv(q)'
<1>1. /\ source \in Seq(SourceCommit) /\ source' \in Seq(SourceCommit)
      /\ release \in Seq(ReleaseCommit) /\ release' \in Seq(ReleaseCommit)
      /\ run[q].head \in Seq(SourceCommit) /\ run[q].releaseBase \in Seq(ReleaseCommit)
  BY DEF IInv, TypeOK, Run
<1>2. MadeFromBases(q)'
  <2>1. /\ InOrder(q)' = InOrder(q) /\ SourceWith(q)' = SourceWith(q)
        /\ RecordedRelease(q)' = RecordedRelease(q)
    BY SameBasesSameCommits
  <2>2. ASSUME run[q].step \in Made
        PROVE  /\ InOrder(q)' /\ IsPrefix(run[q].sourceBase, run[q].head)
               /\ run[q].sourceCommit = SourceWith(q)'
               /\ run[q].releaseCommit = RecordedRelease(q)'
    <3>1. /\ InOrder(q) /\ IsPrefix(run[q].sourceBase, run[q].head)
          /\ run[q].sourceCommit = SourceWith(q)
          /\ run[q].releaseCommit = RecordedRelease(q)
      BY <2>2 DEF RunInv, MadeFromBases
    <3> QED
      BY <2>1, <3>1
  <2> QED
    BY <2>2 DEF MadeFromBases
<1>3. SentForAReason(q)'
  BY DEF RunInv, SentForAReason, Pushing, At
<1>4. HeadIsKnown(q)'
  <2>1. IsPrefix(run[q].head, source) => IsPrefix(run[q].head, source')
    BY <1>1, PrefixTransitive
  <2> QED
    BY <2>1 DEF RunInv, HeadIsKnown, At
<1>7. HeadIsNear(q)'
  <2>1. Len(source) <= Len(source') /\ Len(source) \in Nat /\ Len(source') \in Nat
        /\ Len(run[q].head) \in Nat
    BY <1>1, LenProperties DEF IsPrefix
  <2> QED
    BY <2>1 DEF RunInv, HeadIsNear, At
<1>5. BaseIsBehind(q)'
  <2>1. IsPrefix(run[q].releaseBase, release) => IsPrefix(run[q].releaseBase, release')
    BY <1>1, PrefixTransitive
  <2> QED
    BY <2>1 DEF RunInv, BaseIsBehind
<1>6. OnlyPeoplePushed(q)'
  <2>1. SUFFICES ASSUME run[q].step = "pushing release"
                 PROVE  /\ run[q].sourceCommit = run[q].head
                        /\ release' = run[q].releaseBase => Last(source').by \notin Publisher
    BY DEF OnlyPeoplePushed, At
  <2>2. /\ run[q].sourceCommit = run[q].head
        /\ release = run[q].releaseBase => Last(source).by \notin Publisher
        /\ IsPrefix(run[q].releaseBase, release)
    BY <2>1 DEF RunInv, OnlyPeoplePushed, BaseIsBehind, At, Made
  <2>3. ASSUME release' # release PROVE release' # run[q].releaseBase
    <3>1. Len(run[q].releaseBase) <= Len(release)
      BY <2>2 DEF IsPrefix
    <3>2. ~(Len(release') <= Len(release))
      BY <1>1, <2>3, PrefixEqual
    <3> QED
      BY <3>1, <3>2
  <2> QED
    BY <2>2, <2>3
<1> QED
  BY <1>2, <1>3, <1>4, <1>5, <1>6, <1>7 DEF RunInv

(* A step of one run that leaves origin alone. *)
LEMMA ReadingKeeps ==
  ASSUME IInv, IInv', PInv, NEW p \in Publisher, UNCHANGED origin,
         \A q \in Publisher \ {p} : run'[q] = run[q], RunInv(p)', Owed'
  PROVE  PInv'
<1>1. source' = source /\ release' = release
  BY DEF origin
<1>2. IsPrefix(source, source') /\ IsPrefix(release, release')
  BY <1>1, PrefixOfSelf DEF IInv, TypeOK
<1>3. ASSUME NEW q \in Publisher PROVE RunInv(q)'
  <2>1. CASE q = p
    BY <2>1
  <2>2. CASE q # p
    BY <1>1, <1>2, <2>2, OthersKeep DEF PInv
  <2> QED
    BY <2>1, <2>2
<1>4. InStep' /\ AllAreWhole'
  BY <1>1, WholeStays DEF PInv, InStep
<1> QED
  BY <1>3, <1>4 DEF PInv

(* What is owed stays owed while a run keeps its hub, or ends with another   *)
(* hub than the one on the source branch.                                    *)
LEMMA OwedStays ==
  ASSUME Owed, NEW p \in Publisher, UNCHANGED origin,
         \A q \in Publisher \ {p} : run'[q] = run[q],
         queue \subseteq queue', failed => failed',
         \/ At(p, "idle")
         \/ run'[p].step # "idle" /\ run'[p].head = run[p].head
         \/ ~SameHub(Hub(p), Last(source))
  PROVE  Owed'
<1>1. source' = source /\ release' = release
  BY DEF origin
<1>2. Released => Released'
  BY <1>1 DEF Released
<1>3. ASSUME NEW n \in queue, SameHub(source[n], Last(source)) PROVE Pending'
  BY <1>1, <1>3 DEF Pending
<1>4. ASSUME NEW q \in Publisher, ~At(q, "idle"), SameHub(Hub(q), Last(source)) PROVE Pending'
  <2>1. run'[q].step # "idle" /\ run'[q].head = run[q].head
    BY <1>4 DEF At
  <2>2. SameHub(Last(run'[q].head), Last(source'))
    BY <1>1, <1>4, <2>1 DEF Hub
  <2> QED
    BY <2>1, <2>2 DEF Pending, At, Hub
<1> QED
  BY <1>2, <1>3, <1>4 DEF Owed, Pending

(* In one step one run moves. *)
LEMMA OneMoves ==
  ASSUME IInv, NEW p \in Publisher,
         PublisherStep(p) \/ RunFails(p) \/ \E c \in Content : StartInClone(p, c)
  PROVE  \A q \in Publisher \ {p} : run'[q] = run[q]
<1>1. run \in [Publisher -> Run]
  BY DEF IInv, TypeOK
<1>2. CASE PublisherStep(p)
  BY <1>1, <1>2 DEF PublisherStep, StartJob, FollowSourceBranch, LeaveToNewerPipeline,
     SnapshotSource, SourceAdvanced, FetchRelease, PrepareCommits, UnreadableRelease,
     ReadRefs, LeaseIsStale, UpdateRefs, RefMoved, RunEnds
<1>3. CASE RunFails(p)
  BY <1>1, <1>3 DEF RunFails, RunEnds
<1>4. ASSUME NEW c \in Content, StartInClone(p, c) PROVE \A q \in Publisher \ {p} : run'[q] = run[q]
  BY <1>1, <1>4 DEF StartInClone
<1> QED
  BY <1>2, <1>3, <1>4
-----------------------------------------------------------------------------
(* A job that starts takes its obligation along. *)
LEMMA StartJobKeeps ==
  ASSUME IInv, IInv', PInv, NEW p \in Publisher, StartJob(p)
  PROVE  PInv'
<1>1. /\ run \in [Publisher -> Run] /\ source \in Seq(SourceCommit) /\ source # <<>>
      /\ queue \subseteq 1 .. Len(source) /\ Len(source) \in Nat
  BY LenProperties DEF IInv, TypeOK
<1>2. PICK n \in queue, t \in Toolchain :
        /\ run' = [run EXCEPT ![p].step = IF host = "gitlab" THEN "queued" ELSE "checked out",
                              ![p].head = SubSeq(source, 1, n), ![p].tool = t]
        /\ queue' = queue \ {n}
  BY DEF StartJob
<1>3. UNCHANGED <<host, origin, failed, bounds>> /\ At(p, "idle")
  BY DEF StartJob
<1>4. source' = source /\ release' = release
  BY <1>3 DEF origin
<1>5. /\ run'[p].step \in {"queued", "checked out"}
      /\ run'[p].head = SubSeq(source, 1, n)
  BY <1>1, <1>2 DEF Run
<1>6. /\ SubSeq(source, 1, n) \in Seq(SourceCommit)
      /\ Last(SubSeq(source, 1, n)) = source[n]
      /\ IsPrefix(SubSeq(source, 1, n), source)
      /\ Len(SubSeq(source, 1, n)) <= Len(source) + 1
  <2>1. n \in Nat /\ 1 <= n /\ n <= Len(source)
    BY <1>1
  <2>2. \A i \in 1 .. n : source[i] \in SourceCommit
    BY <1>1, <2>1, ElementOfSeq
  <2>3. /\ SubSeq(source, 1, n) \in Seq(SourceCommit) /\ Len(SubSeq(source, 1, n)) = n
        /\ \A i \in 1 .. n : SubSeq(source, 1, n)[i] = source[i]
    BY <2>1, <2>2, SubSeqProperties
  <2>4. IsPrefix(SubSeq(source, 1, n), source)
    BY <1>1, <2>1, <2>3, PrefixElements
  <2> QED
    BY <2>1, <2>3, <2>4 DEF Last
<1>7. RunInv(p)'
  BY <1>4, <1>5, <1>6 DEF RunInv, MadeFromBases, SentForAReason, HeadIsKnown, HeadIsNear, BaseIsBehind,
     OnlyPeoplePushed, Made, Pushing, At
<1>8. \A q \in Publisher \ {p} : run'[q] = run[q]
  BY OneMoves DEF PublisherStep
<1>9. Owed'
  <2>1. CASE SameHub(source[n], Last(source))
    <3>1. SameHub(Last(run'[p].head), Last(source')) /\ run'[p].step # "idle"
      BY <1>4, <1>5, <1>6, <2>1
    <3> QED
      BY <3>1 DEF Owed, Pending, At, Hub
  <2>2. CASE Released \/ failed
    BY <1>3, <1>4, <2>2 DEF Owed, Released
  <2>3. ASSUME NEW m \in queue, m # n, SameHub(source[m], Last(source)) PROVE Owed'
    BY <1>2, <1>4, <2>3 DEF Owed, Pending
  <2>4. ASSUME NEW q \in Publisher, ~At(q, "idle"), SameHub(Hub(q), Last(source)) PROVE Owed'
    <3>1. run'[q] = run[q]
      BY <1>3, <1>8, <2>4
    <3> QED
      BY <1>4, <2>4, <3>1 DEF Owed, Pending, At, Hub
  <2> QED
    BY <2>1, <2>2, <2>3, <2>4 DEF PInv, Owed, Pending
<1> QED
  BY <1>3, <1>7, <1>8, <1>9, ReadingKeeps

(* The other steps in which a run reads. *)
LEMMA TakingUpKeeps ==
  ASSUME IInv, IInv', PInv, NEW p \in Publisher,
         FollowSourceBranch(p) \/ SnapshotSource(p) \/ FetchRelease(p)
  PROVE  PInv'
<1>1. /\ run \in [Publisher -> Run] /\ run[p] \in Run
      /\ source \in Seq(SourceCommit) /\ release \in Seq(ReleaseCommit)
      /\ run[p].head \in Seq(SourceCommit)
      /\ IsPrefix(source, source) /\ IsPrefix(release, release)
  BY PrefixOfSelf DEF IInv, TypeOK, Run
<1>2. UNCHANGED <<host, origin, queue, failed, bounds>>
  BY DEF FollowSourceBranch, SnapshotSource, FetchRelease
<1>3. source' = source /\ release' = release /\ queue' = queue /\ failed' = failed
  BY <1>2 DEF origin
<1>4. \A q \in Publisher \ {p} : run'[q] = run[q]
  BY OneMoves DEF PublisherStep
<1>5. RunInv(p) /\ Owed
  BY DEF PInv
<1>6. CASE FollowSourceBranch(p)
  <2>1. run'[p].step = "checked out" /\ run'[p].head = source /\ Len(source) <= Len(source) + 1
    <3>1. run'[p].step = "checked out" /\ run'[p].head = source
      BY <1>1, <1>6 DEF FollowSourceBranch, Run
    <3>2. Len(source) \in Nat
      BY <1>1, LenProperties
    <3>3. Len(source) <= Len(source) + 1
      BY <3>2
    <3> QED
      BY <3>1, <3>3
  <2>2. RunInv(p)'
    BY <1>1, <1>3, <2>1 DEF RunInv, MadeFromBases, SentForAReason, HeadIsKnown, HeadIsNear, BaseIsBehind,
       OnlyPeoplePushed, Made, Pushing, At
  <2>3. SameHub(Last(run'[p].head), Last(source'))
    BY <1>3, <2>1 DEF SameHub
  <2>4. Owed'
    BY <2>1, <2>3 DEF Owed, Pending, At, Hub
  <2> QED
    BY <1>2, <1>4, <2>2, <2>4, ReadingKeeps
<1>7. CASE SnapshotSource(p)
  <2>1. /\ run'[p].step = "snapshot" /\ run'[p].head = run[p].head
        /\ run'[p].sourceBase = source
        /\ run[p].step = "checked out" /\ IsPrefix(source, run[p].head)
    BY <1>1, <1>7 DEF SnapshotSource, Run, At
  <2>2. IsPrefix(run[p].head, source) => source = run[p].head
    BY <1>1, <2>1, PrefixEqual DEF IsPrefix
  <2>3. HeadIsKnown(p)' /\ HeadIsNear(p)'
    BY <1>3, <1>5, <2>1, <2>2 DEF RunInv, HeadIsKnown, HeadIsNear, At
  <2>4. RunInv(p)'
    BY <2>1, <2>3 DEF RunInv, MadeFromBases, SentForAReason, BaseIsBehind, OnlyPeoplePushed,
       Made, Pushing, At
  <2>5. run'[p].step # "idle" /\ run'[p].head = run[p].head
    BY <2>1
  <2>6. Owed'
    BY <1>2, <1>3, <1>4, <1>5, <2>5, OwedStays
  <2> QED
    BY <1>2, <1>4, <2>4, <2>6, ReadingKeeps
<1>8. CASE FetchRelease(p)
  <2>1. /\ run'[p].step = "fetched" /\ run'[p].head = run[p].head
        /\ run'[p].sourceBase = run[p].sourceBase /\ run'[p].releaseBase = release
        /\ run[p].step = "snapshot"
    BY <1>1, <1>8 DEF FetchRelease, Run, At
  <2>2. HeadIsKnown(p)' /\ HeadIsNear(p)'
    BY <1>3, <1>5, <2>1 DEF RunInv, HeadIsKnown, HeadIsNear, At
  <2>3. RunInv(p)'
    BY <1>1, <1>3, <2>1, <2>2 DEF RunInv, MadeFromBases, SentForAReason, BaseIsBehind, OnlyPeoplePushed,
       Made, Pushing, At
  <2>4. Owed'
    BY <1>2, <1>3, <1>4, <1>5, <2>1, OwedStays
  <2> QED
    BY <1>2, <1>4, <2>3, <2>4, ReadingKeeps
<1> QED
  BY <1>6, <1>7, <1>8

(* Preparing the commits keeps the hub and the bases they are made of. *)
LEMMA PrepareCommitsKeeps ==
  ASSUME IInv, IInv', PInv, NEW p \in Publisher, PrepareCommits(p)
  PROVE  PInv'
<1>1. run \in [Publisher -> Run] /\ run[p] \in Run /\ RunOK(run[p])
  BY DEF IInv, TypeOK
<1>2. UNCHANGED <<host, origin, queue, failed, bounds>>
  BY DEF PrepareCommits
<1>3. source' = source /\ release' = release /\ queue' = queue /\ failed' = failed
  BY <1>2 DEF origin
<1>4. \A q \in Publisher \ {p} : run'[q] = run[q]
  BY OneMoves DEF PublisherStep
<1>5. RunInv(p) /\ Owed
  BY DEF PInv
<1>6. /\ run[p].step = "fetched" /\ InOrder(p)
      /\ run'[p].step = "prepared" /\ run'[p].head = run[p].head /\ run'[p].tool = run[p].tool
      /\ run'[p].sourceBase = run[p].sourceBase /\ run'[p].releaseBase = run[p].releaseBase
      /\ run'[p].sourceCommit = SourceWith(p) /\ run'[p].releaseCommit = RecordedRelease(p)
  BY <1>1 DEF PrepareCommits, Run, At
<1>7. IsPrefix(run[p].sourceBase, run[p].head)
  BY <1>1, <1>6 DEF RunOK
<1>8. MadeFromBases(p)'
  <2>1. /\ InOrder(p)' = InOrder(p) /\ SourceWith(p)' = SourceWith(p)
        /\ RecordedRelease(p)' = RecordedRelease(p)
    BY <1>6, SameBasesSameCommits
  <2> QED
    BY <1>6, <1>7, <2>1 DEF MadeFromBases
<1>9. HeadIsKnown(p)' /\ HeadIsNear(p)'
  BY <1>3, <1>5, <1>6 DEF RunInv, HeadIsKnown, HeadIsNear, At
<1>10. BaseIsBehind(p)'
  BY <1>3, <1>5, <1>6 DEF RunInv, BaseIsBehind
<1>11. RunInv(p)'
  BY <1>6, <1>8, <1>9, <1>10 DEF RunInv, SentForAReason, OnlyPeoplePushed, Pushing, At
<1>12. Owed'
  BY <1>2, <1>3, <1>4, <1>5, <1>6, OwedStays
<1> QED
  BY <1>2, <1>4, <1>11, <1>12, ReadingKeeps

(* A run whose commits are at origin has published its hub. *)
LEMMA ReadRefsKeeps ==
  ASSUME IInv, IInv', PInv, NEW p \in Publisher, ReadRefs(p)
  PROVE  PInv'
<1>1. run \in [Publisher -> Run] /\ run[p] \in Run /\ RunOK(run[p])
  BY DEF IInv, TypeOK
<1>2. UNCHANGED <<host, origin, queue, bounds>> /\ run[p].step = "prepared"
  BY DEF ReadRefs, At
<1>3. source' = source /\ release' = release /\ queue' = queue
  BY <1>2 DEF origin
<1>4. \A q \in Publisher \ {p} : run'[q] = run[q]
  BY OneMoves DEF PublisherStep
<1>5. RunInv(p) /\ Owed
  BY DEF PInv
<1>6. CASE SourceIsUpToDate(p) /\ ReleaseIsUpToDate(p)
  <2>1. run'[p].step = "idle"
    BY <1>1, <1>6 DEF ReadRefs, RunEnds, NoRun
  <2>2. /\ InOrder(p) /\ IsPrefix(run[p].sourceBase, run[p].head)
        /\ source = SourceWith(p) /\ release = RecordedRelease(p)
    BY <1>2, <1>5, <1>6
    DEF RunInv, MadeFromBases, Made, SourceIsUpToDate, ReleaseIsUpToDate
  <2>3. release # <<>> /\ SameHub(Last(source), Last(release))
    BY <1>1, <1>2, <2>2, CommitsAgree DEF IInv, At
  <2>4. Owed'
    BY <1>3, <2>3 DEF Owed, Released
  <2> QED
    BY <1>2, <1>4, <2>1, <2>4, EndedRun, ReadingKeeps
<1>7. CASE ~(SourceIsUpToDate(p) /\ ReleaseIsUpToDate(p))
  <2> DEFINE next == IF SourceIsUpToDate(p) THEN "pushing release" ELSE "pushing"
  <2>1. run' = [run EXCEPT ![p].step = next] /\ failed' = failed
    BY <1>7 DEF ReadRefs
  <2>2. /\ next \in {"pushing", "pushing release"}
        /\ next = "pushing release" => SourceIsUpToDate(p)
    OBVIOUS
  <2> HIDE DEF next
  <2>3. /\ run'[p].step = next /\ run'[p].head = run[p].head /\ run'[p].tool = run[p].tool
        /\ run'[p].sourceBase = run[p].sourceBase /\ run'[p].releaseBase = run[p].releaseBase
        /\ run'[p].sourceCommit = run[p].sourceCommit
        /\ run'[p].releaseCommit = run[p].releaseCommit
    BY <1>1, <2>1 DEF Run
  <2>4. MadeFromBases(p)'
    <3>1. /\ InOrder(p)' = InOrder(p) /\ SourceWith(p)' = SourceWith(p)
          /\ RecordedRelease(p)' = RecordedRelease(p)
      BY <2>3, SameBasesSameCommits
    <3>2. /\ InOrder(p) /\ IsPrefix(run[p].sourceBase, run[p].head)
          /\ run[p].sourceCommit = SourceWith(p)
          /\ run[p].releaseCommit = RecordedRelease(p)
      BY <1>2, <1>5 DEF RunInv, MadeFromBases, Made
    <3> QED
      BY <2>3, <3>1, <3>2 DEF MadeFromBases
  <2>5. run[p].releaseCommit # run[p].releaseBase
    <3>1. run[p].sourceCommit # run[p].sourceBase <=> run[p].releaseCommit # run[p].releaseBase
      BY <1>1, <1>2 DEF RunOK
    <3>2. CASE ~SourceIsUpToDate(p)
      BY <3>1, <3>2 DEF ReadRefs, LeasesHold, SourceIsUpToDate
    <3>3. CASE ~ReleaseIsUpToDate(p)
      BY <3>3 DEF ReadRefs, LeasesHold, ReleaseIsUpToDate
    <3> QED
      BY <1>7, <3>2, <3>3
  <2>6. HeadIsKnown(p)' /\ HeadIsNear(p)'
    BY <1>2, <1>3, <1>5, <2>2, <2>3 DEF RunInv, HeadIsKnown, HeadIsNear, Made, At
  <2>7. BaseIsBehind(p)'
    BY <1>2, <1>3, <1>5, <2>3 DEF RunInv, BaseIsBehind, Made
  <2>8. OnlyPeoplePushed(p)'
    <3>1. SUFFICES ASSUME next = "pushing release"
                   PROVE  run[p].sourceCommit = run[p].head /\ Last(source).by \notin Publisher
      BY <1>3, <2>3 DEF OnlyPeoplePushed, At
    <3>2. run[p].sourceCommit # run[p].sourceBase
      BY <1>1, <1>2, <2>5 DEF RunOK
    <3>3. source = run[p].head /\ run[p].sourceCommit = run[p].head
          /\ run[p].sourceBase # run[p].head
      BY <2>2, <3>1, <3>2 DEF SourceIsUpToDate
    <3>4. Last(source).by = "developer"
      BY <1>2, <1>5, <3>3 DEF RunInv, HeadIsKnown, At, Made
    <3> QED
      BY <3>3, <3>4, PublishersAreNoPeople
  <2>9. SentForAReason(p)'
    BY <2>3, <2>5 DEF SentForAReason
  <2>10. RunInv(p)'
    BY <2>4, <2>6, <2>7, <2>8, <2>9 DEF RunInv
  <2>11. Owed'
    <3>1. run'[p].step # "idle"
      BY <2>2, <2>3
    <3> QED
      BY <1>2, <1>3, <1>4, <1>5, <2>1, <2>3, <3>1, OwedStays
  <2> QED
    BY <1>2, <1>4, <2>10, <2>11, ReadingKeeps
<1> QED
  BY <1>6, <1>7

(* A run that ends without a push has failed, or has left the hub to a newer *)
(* job.                                                                      *)
LEMMA EndingKeeps ==
  ASSUME IInv, IInv', PInv, NEW p \in Publisher,
         \/ LeaveToNewerPipeline(p) \/ SourceAdvanced(p) \/ UnreadableRelease(p)
         \/ LeaseIsStale(p) \/ RefMoved(p) \/ RunFails(p)
  PROVE  PInv'
<1>1. run \in [Publisher -> Run]
  BY DEF IInv, TypeOK
<1>2. run'[p].step = "idle"
  <2>1. PICK f : RunEnds(p, f)
    BY DEF LeaveToNewerPipeline, SourceAdvanced, UnreadableRelease, LeaseIsStale, RefMoved, RunFails
  <2>2. run' = [run EXCEPT ![p] = NoRun]
    BY <2>1 DEF RunEnds
  <2> QED
    BY <1>1, <2>2 DEF NoRun
<1>3. UNCHANGED <<origin, queue>>
  BY DEF LeaveToNewerPipeline, SourceAdvanced, UnreadableRelease, LeaseIsStale, RefMoved, RunFails
<1>4. \A q \in Publisher \ {p} : run'[q] = run[q]
  BY OneMoves DEF PublisherStep
<1>5. Owed'
  <2>1. CASE LeaveToNewerPipeline(p)
    <3>1. ~SameHub(Hub(p), Last(source)) /\ failed' = failed
      BY <2>1 DEF LeaveToNewerPipeline, RunEnds
    <3> QED
      BY <1>3, <1>4, <3>1, OwedStays DEF PInv
  <2>2. CASE \/ SourceAdvanced(p) \/ UnreadableRelease(p) \/ LeaseIsStale(p) \/ RefMoved(p)
             \/ RunFails(p)
    BY <2>2 DEF SourceAdvanced, UnreadableRelease, LeaseIsStale, RefMoved, RunFails, RunEnds, Owed
  <2> QED
    BY <2>1, <2>2
<1> QED
  BY <1>2, <1>3, <1>4, <1>5, EndedRun, ReadingKeeps

(* A push brings both commits of a run to origin, or records the last        *)
(* release once more.                                                        *)
LEMMA UpdateRefsMoves ==
  ASSUME IInv, PInv, NEW p \in Publisher, UpdateRefs(p)
  PROVE  /\ release = run[p].releaseBase /\ release' = run[p].releaseCommit /\ release' # release
         /\ release' = Append(release, Last(release'))
         /\ \/ source = run[p].sourceBase /\ source' = run[p].sourceCommit
            \/ At(p, "pushing release") /\ source' = source
<1>1. run[p] \in Run /\ RunOK(run[p]) /\ TypeOK
  BY DEF IInv, TypeOK
<1>2. Pushing(p) /\ run[p].step \in Made /\ ~At(p, "idle")
  BY DEF UpdateRefs, Pushing, At, Made
<1>3. RunInv(p)
  BY DEF PInv
<1>4. run[p].releaseCommit # run[p].releaseBase
  BY <1>2, <1>3 DEF RunInv, SentForAReason
<1>5. release = run[p].releaseBase /\ release' = run[p].releaseCommit
  BY <1>4 DEF UpdateRefs, ReleaseIsSent, RefsAreUnmoved
<1>6. \/ source = run[p].sourceBase /\ source' = run[p].sourceCommit
      \/ At(p, "pushing release") /\ source' = source
  BY <1>2 DEF UpdateRefs, SourceIsSent, RefsAreUnmoved, Pushing
<1>7. /\ InOrder(p) /\ IsPrefix(run[p].sourceBase, run[p].head)
      /\ run[p].releaseCommit = RecordedRelease(p)
  BY <1>2, <1>3 DEF RunInv, MadeFromBases
<1>8. release' = Append(release, Last(release'))
  BY <1>1, <1>2, <1>4, <1>5, <1>7, CommitsAgree
<1> QED
  BY <1>4, <1>5, <1>6, <1>8

(* A push lands whole: a source commit of the run comes with a release       *)
(* commit under the same hub and version, and without one the output stays.  *)
LEMMA PushIsWhole ==
  ASSUME IInv, IInv', PInv, NEW p \in Publisher, UpdateRefs(p)
  PROVE  AllAreWhole'
<1> DEFINE commit == [Hub(p) EXCEPT !.by = p, !.version = PublishVersion(p),
                                    !.pointers = Hub(p).content]
           r == Last(release')
           head == run[p].head
<1>1. /\ run[p] \in Run /\ RunOK(run[p]) /\ TypeOK /\ RunInv(p) /\ AllAreWhole
      /\ source \in Seq(SourceCommit) /\ release \in Seq(ReleaseCommit)
      /\ head \in Seq(SourceCommit)
      /\ release' \in Seq(ReleaseCommit)
  BY DEF IInv, TypeOK, PInv, Run
<1>2. Pushing(p) /\ run[p].step \in Made /\ ~At(p, "idle")
  BY DEF UpdateRefs, Pushing, At, Made
<1>3. /\ release = run[p].releaseBase /\ release' = run[p].releaseCommit /\ release' # release
      /\ release' = Append(release, r)
      /\ \/ source = run[p].sourceBase /\ source' = run[p].sourceCommit
         \/ At(p, "pushing release") /\ source' = source
  BY UpdateRefsMoves
<1>4. /\ InOrder(p) /\ IsPrefix(run[p].sourceBase, head)
      /\ run[p].sourceCommit = SourceWith(p) /\ run[p].releaseCommit = RecordedRelease(p)
  BY <1>1, <1>2 DEF RunInv, MadeFromBases
<1>5. /\ SameHub(Last(SourceWith(p)), r) /\ r \in ReleaseCommit
  <2>1. SameHub(Last(SourceWith(p)), r) /\ release' # <<>>
    BY <1>1, <1>2, <1>3, <1>4, CommitsAgree
  <2> QED
    BY <1>1, <2>1, LastIsElement
<1>6. commit \in SourceCommit /\ commit.by = p
  <2>1. Hub(p) \in SourceCommit /\ PublishVersion(p) \in Version
    BY <1>1, <1>2, HubType, PublishVersionForward
  <2> QED
    BY <2>1 DEF SourceCommit, Author
<1>7. r.by = p
  <2>1. \/ RecordedRelease(p) = Append(release, [Last(release) EXCEPT !.by = p]) /\ release # <<>>
        \/ RecordedRelease(p) = Append(release, Output(p))
    <3>1. ReleaseWith(p) = release \/ ReleaseWith(p) = Append(release, Output(p))
      BY <1>3 DEF ReleaseWith
    <3>2. release = <<>> => ReleaseWith(p) = Append(release, Output(p))
      BY <1>3 DEF ReleaseWith
    <3>3. Output(p) \in ReleaseCommit
      <4>1. Hub(p) \in SourceCommit /\ PublishVersion(p) \in Version /\ run[p].tool \in Toolchain
        BY <1>1, <1>2, HubType, PublishVersionForward
      <4> QED
        BY <4>1 DEF Output, SourceCommit, ReleaseCommit, Author
    <3>4. Append(release, Output(p)) # release
      BY <1>1, <3>3, PrefixOfSelf, PrefixOfAppend
    <3> QED
      BY <1>3, <1>4, <3>1, <3>2, <3>4 DEF RecordedRelease
  <2>2. CASE release # <<>> /\ release' = Append(release, [Last(release) EXCEPT !.by = p])
    <3> DEFINE record == [Last(release) EXCEPT !.by = p]
    <3>1. record \in ReleaseCommit /\ record.by = p
      <4>1. Last(release) \in ReleaseCommit
        BY <1>1, <2>2, LastIsElement
      <4> QED
        BY <4>1 DEF ReleaseCommit, Author
    <3> HIDE DEF record
    <3>2. Last(Append(release, record)) = record
      BY <1>1, <3>1, LastOfAppend
    <3> QED
      BY <2>2, <3>1, <3>2 DEF record
  <2>3. CASE release' = Append(release, Output(p))
    <3>1. Output(p) \in ReleaseCommit /\ Output(p).by = p
      <4>1. Hub(p) \in SourceCommit /\ PublishVersion(p) \in Version /\ run[p].tool \in Toolchain
        BY <1>1, <1>2, HubType, PublishVersionForward
      <4> QED
        BY <4>1 DEF Output, SourceCommit, ReleaseCommit, Author
    <3>2. Last(Append(release, Output(p))) = Output(p)
      BY <1>1, <3>1, LastOfAppend
    <3> QED
      BY <2>3, <3>1, <3>2
  <2> QED
    BY <1>3, <1>4, <2>1, <2>2, <2>3
<1>8. \/ /\ source = run[p].sourceBase /\ source' = Append(head, commit)
         /\ commit.content = r.content /\ commit.version = r.version
      \/ /\ SameRelease(release, release')
         /\ source' = source \/ (source = run[p].sourceBase /\ source' = head)
  <2>1. CASE source = run[p].sourceBase /\ SourceWith(p) = Append(head, commit)
             /\ source' = SourceWith(p)
    <3>1. Last(SourceWith(p)) = commit
      BY <1>1, <1>6, <2>1, LastOfAppend
    <3> QED
      BY <1>5, <2>1, <3>1 DEF SameHub
  <2>2. CASE source = run[p].sourceBase /\ SourceWith(p) = head /\ source' = SourceWith(p)
    BY <1>1, <1>2, <1>3, <1>4, <2>2 DEF RunOK, Made
  <2>3. CASE At(p, "pushing release") /\ source' = source
    BY <1>1, <1>3, <2>3 DEF RunOK, At
  <2>4. SourceWith(p) = Append(head, commit) \/ SourceWith(p) = head
    BY DEF SourceWith
  <2> QED
    BY <1>3, <1>4, <2>1, <2>2, <2>3, <2>4
<1> HIDE DEF commit, r
<1>9. ASSUME NEW q \in Publisher, NEW d \in Content, NEW w \in Version
      PROVE  Whole(q, d, w)'
  <2> DEFINE counts == r.by = q /\ r.content = d /\ r.version = w
             S == CommitsOf(q, d, w, source)
             R == CommitsOf(q, d, w, release)
             N == NewOutputsOf(q, d, w)
  <2>1. /\ Cardinality(N) <= Cardinality(S) /\ Cardinality(S) <= Cardinality(R)
    BY <1>1 DEF AllAreWhole, Whole
  <2>2. /\ Cardinality(R) \in Nat
        /\ ~counts => CommitsOf(q, d, w, release') = R
        /\ counts => Cardinality(CommitsOf(q, d, w, release')) = Cardinality(R) + 1
    <3>1. release \in Seq(ReleaseCommit) /\ r \in ReleaseCommit
      BY <1>1, <1>5
    <3>2. /\ ~counts => CommitsOf(q, d, w, Append(release, r)) = R
          /\ counts => Cardinality(CommitsOf(q, d, w, Append(release, r))) = Cardinality(R) + 1
          /\ Cardinality(R) \in Nat
      BY <3>1, CommitsOfAppend
    <3> QED
      BY <1>3, <3>2
  <2>3. /\ Cardinality(N) \in Nat /\ Cardinality(N') \in Nat
        /\ ~counts => N' = N
        /\ SameRelease(release, release') => N' = N
        /\ Cardinality(N') <= Cardinality(N) + 1
    BY <1>1, <1>3, <1>5, NewOutputsOfAppend
  <2>4. Cardinality(S) \in Nat
    <3>1. source # <<>> /\ Last(source) \in SourceCommit
      BY <1>1, LastIsElement DEF TypeOK
    <3> QED
      BY <1>1, <3>1, CommitsOfAppend
  <2>5. source = run[p].sourceBase => CommitsOf(q, d, w, head) = S
    BY <1>1, <1>2, <1>4, NoPublisherInBetween
  <2>6. CASE /\ source = run[p].sourceBase /\ source' = Append(head, commit)
             /\ commit.content = r.content /\ commit.version = r.version
    <3>1. /\ ~counts => CommitsOf(q, d, w, source') = S
          /\ counts => Cardinality(CommitsOf(q, d, w, source')) = Cardinality(S) + 1
      BY <1>1, <1>6, <1>7, <2>5, <2>6, CommitsOfAppend
    <3>2. CASE counts
      <4> HIDE DEF S, R, N
      <4>1. Cardinality(N') <= Cardinality(CommitsOf(q, d, w, source'))
        <5>1. Cardinality(N') \in Nat
          BY <2>3
        <5> QED
          BY <2>1, <2>3, <2>4, <3>1, <3>2, <5>1
      <4>2. Cardinality(CommitsOf(q, d, w, source')) <= Cardinality(CommitsOf(q, d, w, release'))
        BY <2>1, <2>2, <2>4, <3>1, <3>2
      <4> QED
        BY <4>1, <4>2 DEF Whole, N
    <3>3. CASE ~counts
      BY <2>1, <2>2, <2>3, <3>1, <3>3 DEF Whole
    <3> QED
      BY <3>2, <3>3
  <2>7. CASE /\ SameRelease(release, release')
             /\ source' = source \/ (source = run[p].sourceBase /\ source' = head)
    <3>1. CommitsOf(q, d, w, source') = S /\ N' = N
      BY <2>3, <2>5, <2>7
    <3>2. Cardinality(S) <= Cardinality(CommitsOf(q, d, w, release'))
      BY <2>1, <2>2, <2>4
    <3> QED
      BY <2>1, <3>1, <3>2 DEF Whole
  <2> QED
    BY <1>8, <2>6, <2>7
<1> QED
  BY <1>9 DEF AllAreWhole

(* A push keeps both branches in step, and records and releases what it sends. *)
LEMMA UpdateRefsKeeps ==
  ASSUME IInv, IInv', PInv, [Next]_vars, NEW p \in Publisher, UpdateRefs(p)
  PROVE  PInv'
<1> DEFINE s == run[p].sourceCommit
           r == run[p].releaseCommit
           base == run[p].releaseBase
<1>1. /\ run \in [Publisher -> Run] /\ run[p] \in Run /\ RunOK(run[p]) /\ TypeOK
      /\ source \in Seq(SourceCommit) /\ source # <<>>
      /\ source' \in Seq(SourceCommit) /\ source' # <<>>
      /\ release \in Seq(ReleaseCommit) /\ release' \in Seq(ReleaseCommit)
  BY DEF IInv, TypeOK
<1>2. Pushing(p) /\ run[p].step \in Made /\ ~At(p, "idle")
  BY DEF UpdateRefs, Pushing, At, Made
<1>3. RunInv(p) /\ InStep /\ Owed
  BY DEF PInv
<1>4. IsPrefix(source, source') /\ IsPrefix(release, release')
  BY NextKeepsIInv
<1>5. \A q \in Publisher \ {p} : run'[q] = run[q]
  BY OneMoves DEF PublisherStep
<1>6. run'[p].step = "idle" /\ run' = [run EXCEPT ![p] = NoRun]
      /\ failed' = (failed /\ source' # s) /\ queue' = queue
  BY <1>1 DEF UpdateRefs, RunEnds, NoRun
<1>7. /\ release = base /\ release' = r /\ release' # release
      /\ release' = Append(release, Last(r))
      /\ \/ source = run[p].sourceBase /\ source' = s
         \/ At(p, "pushing release") /\ source' = source
  BY UpdateRefsMoves
<1>8. /\ InOrder(p) /\ IsPrefix(run[p].sourceBase, run[p].head)
      /\ s = SourceWith(p) /\ r = RecordedRelease(p)
  BY <1>2, <1>3 DEF RunInv, MadeFromBases
<1>9. /\ s \in Seq(SourceCommit) /\ s # <<>>
      /\ r \in Seq(ReleaseCommit) /\ r # <<>>
      /\ SameHub(Last(s), Last(r))
      /\ Last(r).intact
      /\ \/ s = run[p].head
         \/ Last(s).by = p /\ Last(s).pointers = Last(s).content
      /\ Last(s).by = p \/ (base # <<>> /\ SameHub(Last(base), Last(r)))
  BY <1>1, <1>2, <1>7, <1>8, CommitsAgree
<1>10. At(p, "pushing release") => /\ s = run[p].head
                                   /\ Last(source).by \notin Publisher
                                   /\ base # <<>> /\ SameHub(Last(base), Last(r))
  <2>1. SUFFICES ASSUME At(p, "pushing release")
                 PROVE  /\ s = run[p].head /\ Last(source).by \notin Publisher
                        /\ base # <<>> /\ SameHub(Last(base), Last(r))
    OBVIOUS
  <2>2. s = run[p].head /\ Last(source).by \notin Publisher
    BY <1>3, <1>7, <2>1 DEF RunInv, OnlyPeoplePushed
  <2>3. SameRelease(base, r)
    BY <1>1, <2>1 DEF RunOK, At
  <2>4. base # <<>> /\ SameTree(Last(base), Last(r))
    BY <2>3 DEF SameRelease
  <2>5. Last(base) \in ReleaseCommit
    BY <1>1, <1>7, <2>4, LastIsElement
  <2> DEFINE b == Last(base)
             c == Last(r)
  <2> HIDE DEF b, c, base
  <2>6. b.content = c.content /\ b.version = c.version
    <3>1. [b EXCEPT !.by = c.by] = c /\ b \in ReleaseCommit
      BY <2>4, <2>5 DEF SameTree, b, c
    <3> QED
      BY <3>1 DEF ReleaseCommit
  <2> QED
    BY <2>2, <2>4, <2>6 DEF SameHub, b, c
<1> HIDE DEF s, r, base
<1>11. ASSUME NEW q \in Publisher PROVE RunInv(q)'
  <2>1. CASE q = p
    BY <1>6, <2>1, EndedRun
  <2>2. CASE q # p
    BY <1>3, <1>4, <1>5, <1>7, <2>2, OthersKeep DEF PInv
  <2> QED
    BY <2>1, <2>2
<1>12. InStep'
  <2>1. CASE source' = s
    <3>1. s = run[p].head => Last(s).by \notin Publisher \/ (Last(s).pointers = Last(s).content)
      <4>1. SUFFICES ASSUME s = run[p].head, Last(s).by \in Publisher
                     PROVE  Last(s).pointers = Last(s).content
        OBVIOUS
      <4>2. Last(run[p].head).by # "developer"
        BY <4>1, PublishersAreNoPeople
      <4>3. run[p].sourceBase = run[p].head
        BY <1>2, <1>3, <4>2 DEF RunInv, HeadIsKnown
      <4>4. s # run[p].sourceBase
        BY <1>1, <1>2, <1>7 DEF RunOK, Made, s, r, base
      <4> QED
        BY <4>1, <4>3, <4>4
    <3> QED
      BY <1>7, <1>9, <2>1, <3>1 DEF InStep
  <2>2. CASE At(p, "pushing release") /\ source' = source
    BY <1>10, <2>2 DEF InStep
  <2> QED
    BY <1>7, <2>1, <2>2
<1>13. Owed'
  <2>1. CASE source' = s
    BY <1>7, <1>9, <2>1 DEF Owed, Released
  <2>2. CASE At(p, "pushing release") /\ source' = source /\ source' # s
    <3>1. failed => failed'
      BY <1>6, <2>2
    <3>2. ASSUME Released PROVE Released'
      BY <1>7, <1>9, <1>10, <2>2, <3>2 DEF Released, SameHub
    <3>3. ASSUME NEW n \in queue, SameHub(source[n], Last(source)) PROVE Pending'
      BY <1>6, <2>2, <3>3 DEF Pending
    <3>4. ASSUME SameHub(Hub(p), Last(source)) PROVE Released'
      <4>1. Hub(p) = Last(s)
        BY <1>10, <2>2 DEF Hub
      <4> QED
        BY <1>7, <1>9, <2>2, <3>4, <4>1 DEF Released, SameHub
    <3>5. ASSUME NEW q \in Publisher \ {p}, ~At(q, "idle"), SameHub(Hub(q), Last(source)) PROVE Pending'
      <4>1. run'[q] = run[q]
        BY <1>5
      <4> QED
        BY <2>2, <3>5, <4>1 DEF Pending, At, Hub
    <3> QED
      BY <1>3, <3>1, <3>2, <3>3, <3>4, <3>5 DEF Owed, Pending
  <2> QED
    BY <1>7, <2>1, <2>2
<1>14. AllAreWhole'
  BY PushIsWhole
<1> QED
  BY <1>11, <1>12, <1>13, <1>14 DEF PInv

(* Who changes the hub owes its publication to the job the push starts. *)
LEMMA PushSourceKeeps ==
  ASSUME IInv, IInv', PInv, NEW c \in Content, NEW v \in Requested \cup {Last(source).version},
         PushSource(c, v)
  PROVE  PInv'
<1> DEFINE x == [Last(source) EXCEPT !.by = "developer", !.content = c, !.version = v]
<1>1. /\ source \in Seq(SourceCommit) /\ source # <<>> /\ Len(source) \in Nat
      /\ release \in Seq(ReleaseCommit) /\ queue \subseteq 1 .. Len(source)
  BY LenProperties DEF IInv, TypeOK
<1>2. /\ source' = Append(source, x) /\ release' = release /\ run' = run
      /\ queue' = IF host = "github" \/ ChangesHub(c, v)
                  THEN queue \cup {Len(source) + 1} ELSE queue
      /\ failed' = (failed /\ ~ChangesHub(c, v))
  BY DEF PushSource
<1>3. x \in SourceCommit /\ x.by = "developer" /\ x.content = c /\ x.version = v
  <2>1. Last(source) \in SourceCommit
    BY <1>1, LastIsElement
  <2> QED
    BY <2>1, RequestedAreVersions DEF SourceCommit, Author
<1> HIDE DEF x
<1>4. /\ Last(source') = x /\ Len(source') = Len(source) + 1 /\ source'[Len(source) + 1] = x
      /\ \A i \in 1 .. Len(source) : source'[i] = source[i]
      /\ IsPrefix(source, source')
  BY <1>1, <1>2, <1>3, LastOfAppend, AppendProperties, PrefixOfSelf, PrefixOfAppend
<1>5. Last(source').by \notin Publisher
  BY <1>3, <1>4, PublishersAreNoPeople
<1>6. ASSUME NEW q \in Publisher PROVE RunInv(q)'
  BY <1>1, <1>2, <1>4, <1>5, OthersKeep, PrefixOfSelf DEF PInv
<1>7. InStep'
  BY <1>5 DEF InStep
<1>8. AllAreWhole'
  <2>1. ASSUME NEW q \in Publisher, NEW d \in Content, NEW w \in Version
        PROVE  Whole(q, d, w)'
    <3>1. x.by # q
      BY <1>3, PublishersAreNoPeople
    <3>2. CommitsOf(q, d, w, source') = CommitsOf(q, d, w, source)
      BY <1>1, <1>2, <1>3, <3>1, CommitsOfAppend
    <3> QED
      BY <1>2, <3>2 DEF PInv, AllAreWhole, Whole, NewOutputsOf
  <2> QED
    BY <2>1 DEF AllAreWhole
<1>9. Owed'
  <2>1. CASE ChangesHub(c, v)
    <3>1. Len(source) + 1 \in queue' /\ SameHub(source'[Len(source) + 1], Last(source'))
      BY <1>2, <1>4, <2>1 DEF SameHub
    <3> QED
      BY <3>1 DEF Owed, Pending
  <2>2. CASE ~ChangesHub(c, v)
    <3>1. SameHub(Last(source), Last(source')) /\ (failed => failed') /\ queue \subseteq queue'
      BY <1>2, <1>3, <1>4, <2>2 DEF ChangesHub, SameHub
    <3>2. ASSUME Released PROVE Released'
      BY <1>2, <3>1, <3>2 DEF Released, SameHub
    <3>3. ASSUME NEW n \in queue, SameHub(source[n], Last(source)) PROVE Pending'
      <4>1. n \in queue' /\ source'[n] = source[n]
        BY <1>1, <1>4, <3>1
      <4>2. SameHub(source'[n], Last(source'))
        BY <3>1, <3>3, <4>1 DEF SameHub
      <4> QED
        BY <4>1, <4>2 DEF Pending
    <3>4. ASSUME NEW q \in Publisher, ~At(q, "idle"), SameHub(Hub(q), Last(source)) PROVE Pending'
      <4>1. SameHub(Last(run'[q].head), Last(source')) /\ run'[q].step # "idle"
        BY <1>2, <3>1, <3>4 DEF SameHub, Hub, At
      <4> QED
        BY <4>1 DEF Pending, At, Hub
    <3> QED
      BY <3>1, <3>2, <3>3, <3>4 DEF PInv, Owed, Pending
  <2> QED
    BY <2>1, <2>2
<1> QED
  BY <1>6, <1>7, <1>8, <1>9 DEF PInv

(* A job started by hand only adds to the queue. *)
LEMMA StartByHandKeeps ==
  ASSUME IInv, IInv', PInv, StartByHand
  PROVE  PInv'
<1>1. /\ source' = source /\ release' = release /\ run' = run /\ failed' = failed
      /\ queue \subseteq queue'
  BY DEF StartByHand, origin
<1>2. IsPrefix(source, source) /\ IsPrefix(release, release)
  BY PrefixOfSelf DEF IInv, TypeOK
<1>3. ASSUME NEW q \in Publisher PROVE RunInv(q)'
  BY <1>1, <1>2, OthersKeep DEF PInv
<1>4. InStep' /\ AllAreWhole'
  BY <1>1, WholeStays DEF PInv, InStep
<1>5. Owed'
  BY <1>1 DEF PInv, Owed, Released, Pending, At, Hub
<1> QED
  BY <1>3, <1>4, <1>5 DEF PInv

(* A run in a clone compiles a commit of somebody's own. *)
LEMMA StartInCloneKeeps ==
  ASSUME IInv, IInv', PInv, NEW p \in Publisher, NEW c \in Content, StartInClone(p, c)
  PROVE  PInv'
<1> DEFINE x == [Last(source) EXCEPT !.by = "developer", !.content = c]
<1>1. run \in [Publisher -> Run] /\ run[p] \in Run /\ source \in Seq(SourceCommit) /\ source # <<>>
  BY DEF IInv, TypeOK
<1>2. x \in SourceCommit /\ x.by = "developer"
  <2>1. Last(source) \in SourceCommit
    BY <1>1, LastIsElement
  <2> QED
    BY <2>1 DEF SourceCommit, Author
<1>3. PICK t \in Toolchain :
        run' = [run EXCEPT ![p].step = "checked out", ![p].head = Append(source, x), ![p].tool = t]
  BY DEF StartInClone
<1>4. UNCHANGED <<host, origin, queue, failed, pushes, mishaps>> /\ At(p, "idle")
  BY DEF StartInClone
<1> HIDE DEF x
<1>5. run'[p].step = "checked out" /\ run'[p].head = Append(source, x)
  BY <1>1, <1>3 DEF Run
<1>6. Last(run'[p].head).by = "developer" /\ Len(run'[p].head) <= Len(source') + 1
  <2>1. source' = source
    BY <1>4 DEF origin
  <2>2. Len(source) \in Nat
    BY <1>1, LenProperties
  <2>3. /\ Len(Append(source, x)) = Len(source) + 1
        /\ Last(Append(source, x)) = x
    BY <1>1, <1>2, LastOfAppend
  <2>4. Len(run'[p].head) <= Len(source') + 1
    <3>1. Len(run'[p].head) = Len(source) + 1
      BY <1>5, <2>3
    <3>2. Len(source) + 1 <= Len(source) + 1
      BY <2>2
    <3> QED
      BY <2>1, <3>1, <3>2
  <2> QED
    BY <1>2, <1>5, <2>3, <2>4
<1>7. RunInv(p)'
  BY <1>5, <1>6 DEF RunInv, MadeFromBases, SentForAReason, HeadIsKnown, HeadIsNear, BaseIsBehind,
     OnlyPeoplePushed, Made, Pushing, At
<1>8. \A q \in Publisher \ {p} : run'[q] = run[q]
  BY OneMoves
<1>9. Owed'
  BY <1>4, <1>8, OwedStays DEF PInv
<1> QED
  BY <1>4, <1>7, <1>8, <1>9, ReadingKeeps

(* A foreign commit on the release branch leaves the hub that is released. *)
LEMMA OtherReleaseCommitKeeps ==
  ASSUME IInv, IInv', PInv, NEW b \in BOOLEAN, OtherReleaseCommit(b)
  PROVE  PInv'
<1> DEFINE x == [Last(release) EXCEPT !.by = "other", !.intact = b]
<1>1. /\ source \in Seq(SourceCommit) /\ release \in Seq(ReleaseCommit) /\ release # <<>>
      /\ release' = Append(release, x)
      /\ source' = source /\ run' = run /\ queue' = queue /\ failed' = failed
  BY DEF IInv, TypeOK, OtherReleaseCommit
<1>2. /\ x \in ReleaseCommit /\ x.by = "other"
      /\ x.content = Last(release).content /\ x.version = Last(release).version
  <2>1. Last(release) \in ReleaseCommit
    BY <1>1, LastIsElement
  <2> QED
    BY <2>1 DEF ReleaseCommit, Author
<1> HIDE DEF x
<1>3. /\ Last(release') = x /\ release' # release /\ release' # <<>>
      /\ Len(release') = Len(release) + 1 /\ release'[Len(release) + 1] = x
      /\ \A k \in 1 .. Len(release) : release'[k] = release[k]
      /\ IsPrefix(release, release') /\ IsPrefix(source, source')
  BY <1>1, <1>2, LastOfAppend, AppendProperties, PrefixOfSelf, PrefixOfAppend
<1>4. ASSUME NEW q \in Publisher PROVE RunInv(q)'
  BY <1>1, <1>3, OthersKeep DEF PInv
<1>5. InStep'
  BY <1>2, <1>3, PublishersAreNoPeople DEF InStep
<1>6. Owed'
  <2>1. ASSUME Released PROVE Released'
    BY <1>1, <1>2, <1>3, <2>1 DEF Released, SameHub
  <2>2. ASSUME failed \/ Pending PROVE failed' \/ Pending'
    BY <1>1, <2>2 DEF Pending, At, Hub
  <2> QED
    BY <2>1, <2>2 DEF PInv, Owed
<1>7. AllAreWhole'
  <2>1. ASSUME NEW q \in Publisher, NEW d \in Content, NEW w \in Version
        PROVE  Whole(q, d, w)'
    <3>1. x.by # q
      BY <1>2, PublishersAreNoPeople
    <3>2. /\ CommitsOf(q, d, w, release') = CommitsOf(q, d, w, release)
          /\ NewOutputsOf(q, d, w)' = NewOutputsOf(q, d, w)
      BY <1>1, <1>2, <3>1, CommitsOfAppend, NewOutputsOfAppend
    <3> QED
      BY <1>1, <3>2 DEF PInv, AllAreWhole, Whole
  <2> QED
    BY <2>1 DEF AllAreWhole
<1> QED
  BY <1>4, <1>5, <1>6, <1>7 DEF PInv
-----------------------------------------------------------------------------
(* In the beginning the first job is waiting. *)
LEMMA InitPInv == Init => PInv
<1> SUFFICES ASSUME Init PROVE PInv
  OBVIOUS
<1>1. PICK c \in Content, v \in Requested :
        source = <<[by |-> "developer", content |-> c, version |-> v, pointers |-> NoPointers]>>
  BY DEF Init
<1>2. Len(source) = 1 /\ Last(source) = source[1]
  BY <1>1 DEF Last
<1>3. \A p \in Publisher : run[p].step = "idle"
  BY DEF Init, NoRun
<1>4. ASSUME NEW p \in Publisher PROVE RunInv(p)
  BY <1>3 DEF RunInv, MadeFromBases, SentForAReason, HeadIsKnown, HeadIsNear, BaseIsBehind, OnlyPeoplePushed,
     Made, Pushing, At
<1>5. InStep /\ AllAreWhole
  <2>1. release = <<>> /\ Len(release) = 0
    BY EmptySeq DEF Init
  <2>2. ASSUME NEW q \in Publisher, NEW d \in Content, NEW w \in Version PROVE Whole(q, d, w)
    <3>1. CommitsOf(q, d, w, release) = {} /\ NewOutputsOf(q, d, w) = {}
      BY <2>1 DEF CommitsOf, NewOutputsOf
    <3>2. CommitsOf(q, d, w, source) = {}
      BY <1>1, <1>2, PublishersAreNoPeople DEF CommitsOf
    <3> QED
      BY <3>1, <3>2, FS_EmptySet DEF Whole
  <2> QED
    BY <2>1, <2>2 DEF InStep, AllAreWhole
<1>6. Owed
  BY <1>2 DEF Init, Owed, Pending, SameHub
<1> QED
  BY <1>4, <1>5, <1>6 DEF PInv

(* Together: no step breaks it. *)
LEMMA NextKeepsPInv ==
  ASSUME IInv, IInv', PInv, [Next]_vars
  PROVE  PInv'
<1>1. ASSUME NEW p \in Publisher, PublisherStep(p) PROVE PInv'
  BY <1>1, StartJobKeeps, TakingUpKeeps, PrepareCommitsKeeps, ReadRefsKeeps, EndingKeeps,
     UpdateRefsKeeps DEF PublisherStep
<1>2. ASSUME NEW p \in Publisher, RunFails(p) PROVE PInv'
  BY <1>2, EndingKeeps
<1>3. ASSUME NEW p \in Publisher, NEW c \in Content, StartInClone(p, c) PROVE PInv'
  BY <1>3, StartInCloneKeeps
<1>4. ASSUME NEW c \in Content, NEW v \in Requested \cup {Last(source).version}, PushSource(c, v)
      PROVE PInv'
  BY <1>4, PushSourceKeeps
<1>5. ASSUME StartByHand PROVE PInv'
  BY <1>5, StartByHandKeeps
<1>6. ASSUME NEW b \in BOOLEAN, OtherReleaseCommit(b) PROVE PInv'
  BY <1>6, OtherReleaseCommitKeeps
<1>7. ASSUME UNCHANGED vars PROVE PInv'
  <2>1. /\ source' = source /\ release' = release /\ run' = run /\ failed' = failed
        /\ queue' = queue
    BY <1>7 DEF vars
  <2>2. IsPrefix(source, source) /\ IsPrefix(release, release)
    BY PrefixOfSelf DEF IInv, TypeOK
  <2>3. ASSUME NEW q \in Publisher PROVE RunInv(q)'
    BY <2>1, <2>2, OthersKeep DEF PInv
  <2>4. InStep' /\ AllAreWhole'
    BY <2>1, WholeStays DEF PInv, InStep
  <2>5. Owed'
    BY <2>1 DEF PInv, Owed, Released, Pending, At, Hub
  <2> QED
    BY <2>3, <2>4, <2>5 DEF PInv
<1> QED
  BY <1>1, <1>2, <1>3, <1>4, <1>5, <1>6, <1>7 DEF Next

(* Only a push of its own lands a run. *)
LEMMA LandingIsAPush ==
  ASSUME IInv, [Next]_vars, NEW p \in Publisher, Lands(p)
  PROVE  UpdateRefs(p)
<1>1. run'[p] # run[p] /\ origin' # origin
  BY DEF Lands, Pushing, At
<1>2. ASSUME NEW q \in Publisher, PublisherStep(q) PROVE UpdateRefs(p)
  <2>1. q = p
    BY <1>1, <1>2, OneMoves
  <2> QED
    BY <1>1, <1>2, <2>1 DEF PublisherStep, StartJob, FollowSourceBranch, LeaveToNewerPipeline,
       SnapshotSource, SourceAdvanced, FetchRelease, PrepareCommits, UnreadableRelease,
       ReadRefs, LeaseIsStale, RefMoved
<1>3. ASSUME NEW q \in Publisher, RunFails(q) PROVE FALSE
  BY <1>1, <1>3 DEF RunFails
<1>4. ASSUME NEW q \in Publisher, NEW c \in Content, StartInClone(q, c) PROVE FALSE
  BY <1>1, <1>4 DEF StartInClone
<1>5. ASSUME NEW c, NEW v, PushSource(c, v) PROVE FALSE
  BY <1>1, <1>5 DEF PushSource
<1>6. ASSUME StartByHand PROVE FALSE
  BY <1>1, <1>6 DEF StartByHand
<1>7. ASSUME NEW b, OtherReleaseCommit(b) PROVE FALSE
  BY <1>1, <1>7 DEF OtherReleaseCommit
<1>8. ASSUME UNCHANGED vars PROVE FALSE
  BY <1>1, <1>8 DEF vars
<1> QED
  BY <1>2, <1>3, <1>4, <1>5, <1>6, <1>7, <1>8 DEF Next

(* A run of what the last publication made finds nothing to push. *)
LEMMA RerunLandsNothing ==
  ASSUME IInv, PInv, [Next]_vars, NEW p \in Publisher, Lands(p),
         run[p].head = source, Last(source).by \in Publisher,
         release # <<>>, Last(release).by \in Publisher,
         Last(release).tool = run[p].tool
  PROVE  FALSE
<1>1. UpdateRefs(p)
  BY LandingIsAPush
<1>2. run[p] \in Run /\ RunOK(run[p]) /\ TypeOK /\ RunInv(p) /\ InStep
  BY DEF IInv, TypeOK, PInv
<1>3. ~At(p, "idle") /\ run[p].step \in Made
  BY <1>1 DEF UpdateRefs, Pushing, At, Made
<1>4. /\ release = run[p].releaseBase /\ release' = run[p].releaseCommit /\ release' # release
      /\ \/ source = run[p].sourceBase
         \/ At(p, "pushing release")
  BY <1>1, UpdateRefsMoves
<1>5. ~At(p, "pushing release")
  BY <1>2, <1>4 DEF RunInv, OnlyPeoplePushed
<1>6. run[p].sourceBase = run[p].head /\ Hub(p) = Last(source)
  BY <1>4, <1>5 DEF Hub
<1>7. RecordedRelease(p) = run[p].releaseBase
  <2>1. /\ SameHub(Last(source), Last(release)) /\ Last(source).pointers = Last(source).content
        /\ Last(release).intact
    BY <1>2 DEF InStep
  <2> QED
    BY <1>2, <1>3, <1>4, <1>6, <2>1, NothingToMake
<1>8. run[p].releaseCommit = RecordedRelease(p)
  BY <1>2, <1>3 DEF RunInv, MadeFromBases
<1> QED
  BY <1>4, <1>7, <1>8

(* The release that lands has the version that was computed for the run, and *)
(* its base is still the last release.                                       *)
LEMMA LandedVersion ==
  ASSUME IInv, PInv, [Next]_vars, NEW p \in Publisher, Lands(p)
  PROVE  /\ release = run[p].releaseBase
         /\ Last(release').version = PublishVersion(p)
         /\ Hub(p).version \in Version
<1>1. UpdateRefs(p)
  BY LandingIsAPush
<1>2. run[p] \in Run /\ RunOK(run[p]) /\ TypeOK /\ RunInv(p)
  BY DEF IInv, TypeOK, PInv
<1>3. ~At(p, "idle") /\ run[p].step \in Made
  BY <1>1 DEF UpdateRefs, Pushing, At, Made
<1>4. release = run[p].releaseBase /\ release' = run[p].releaseCommit
  BY <1>1, UpdateRefsMoves
<1>5. /\ InOrder(p) /\ IsPrefix(run[p].sourceBase, run[p].head)
      /\ run[p].releaseCommit = RecordedRelease(p)
  BY <1>2, <1>3 DEF RunInv, MadeFromBases
<1>6. /\ Hub(p) \in SourceCommit /\ Hub(p).version \in Version
      /\ run[p].head \in Seq(SourceCommit) /\ PublishVersion(p) \in Version
  BY <1>2, <1>3, HubType, PublishVersionForward DEF SourceCommit
<1>7. SameHub(Last(SourceWith(p)), Last(RecordedRelease(p)))
  BY <1>2, <1>3, <1>5, CommitsAgree
<1>8. Last(SourceWith(p)).version = PublishVersion(p)
  <2> DEFINE commit == [Hub(p) EXCEPT !.by = p, !.version = PublishVersion(p),
                                      !.pointers = Hub(p).content]
  <2>1. CASE SourceWith(p) = Append(run[p].head, commit)
    <3>1. commit \in SourceCommit /\ commit.version = PublishVersion(p)
      BY <1>6 DEF SourceCommit, Author
    <3>2. Last(Append(run[p].head, commit)) = commit
      BY <1>6, <3>1, LastOfAppend
    <3> QED
      BY <2>1, <3>1, <3>2
  <2>2. CASE SourceWith(p) = run[p].head /\ Hub(p).version = PublishVersion(p)
    BY <2>2 DEF Hub
  <2> QED
    BY <2>1, <2>2 DEF SourceWith
<1> QED
  BY <1>4, <1>5, <1>6, <1>7, <1>8 DEF SameHub

(* The higher of request and previous version, or of request and next patch, *)
(* is the request if that is not below the next patch.                       *)
LEMMA RequestFromNextPatch ==
  ASSUME NEW requested \in Version, NEW previous \in Version,
         ~Below(requested, BumpPatch(previous))
  PROVE  /\ MaxSemver(requested, previous) = requested
         /\ MaxSemver(requested, BumpPatch(previous)) = requested
<1>1. BumpPatch(previous) \in Version /\ Below(previous, BumpPatch(previous))
  BY BumpIsAbove
<1>2. ~Below(requested, previous)
  BY <1>1, VersionsTotallyOrdered
<1> QED
  BY <1>2 DEF MaxSemver

(* Between a final version and the next patch there is no final version:     *)
(* what a bump can pass over is a prerelease, or the final version of one.   *)
LEMMA FinalIsNotPassedOver ==
  ASSUME NEW previous \in Version, NEW requested \in Version,
         previous.pre = <<>>, requested.pre = <<>>, Below(previous, requested)
  PROVE  ~Below(requested, BumpPatch(previous))
<1>1. previous.core \in Nat \X Nat \X Nat /\ requested.core \in Nat \X Nat \X Nat
  BY DEF Version
<1>2. CoreBelow(previous.core, requested.core)
  BY DEF Below, PrereleaseBelow
<1>3. ~CoreBelow(requested.core, BumpPatch(previous).core)
  BY <1>1, <1>2 DEF CoreBelow, BumpPatch
<1> QED
  BY <1>3 DEF Below, PrereleaseBelow

(* A release that lands honours the request as far as versions move forward. *)
LEMMA LandingHonoursRequest ==
  ASSUME IInv, PInv, [Next]_vars, NEW p \in Publisher, Lands(p), release # <<>>
  PROVE  /\ ~Below(Last(release').version, Hub(p).version)
         /\ ~Below(Hub(p).version, BumpPatch(Last(release).version))
              => Last(release').version = Hub(p).version
<1> DEFINE requested == Hub(p).version
           previous == Last(release).version
<1>1. /\ release = run[p].releaseBase
      /\ Last(release').version = PublishVersion(p)
      /\ requested \in Version
  BY LandedVersion
<1>2. previous \in Version
  <2>1. release \in Seq(ReleaseCommit)
    BY DEF IInv, TypeOK
  <2>2. Last(release) \in ReleaseCommit
    BY <2>1, LastIsElement
  <2> QED
    BY <2>2 DEF ReleaseCommit
<1>3. PublishVersion(p) \in {MaxSemver(requested, previous),
                             MaxSemver(requested, BumpPatch(previous))}
  BY <1>1 DEF PublishVersion
<1>4. BumpPatch(previous) \in Version
  BY <1>2, BumpIsAbove
<1> HIDE DEF requested, previous
<1>5. ~Below(PublishVersion(p), requested)
  BY <1>1, <1>2, <1>3, <1>4, MaxIsHighest
<1>6. ~Below(requested, BumpPatch(previous)) => PublishVersion(p) = requested
  BY <1>1, <1>2, <1>3, RequestFromNextPatch
<1> QED
  BY <1>1, <1>5, <1>6 DEF requested, previous

(* Both invariants hold in every reachable state. *)
THEOREM PublicationInvariance == Spec => [](IInv /\ PInv)
<1>1. IInv /\ IInv' /\ PInv /\ [Next]_vars => PInv'
  BY NextKeepsPInv
<1> QED
  BY <1>1, InitPInv, PublisherInvariance, PTL DEF Spec

(* No publication lands by halves: for every publisher, hub and version      *)
(* each new output on the release branch has its source commit, and each     *)
(* source commit its release commit, whatever raced or died (run.sh).        *)
THEOREM PublicationsLandWhole == Spec => []PublicationsAreWhole
<1>1. TypeOK /\ AllAreWhole => PublicationsAreWhole
  <2> SUFFICES ASSUME TypeOK, AllAreWhole PROVE PublicationsAreWhole
    OBVIOUS
  <2>1. ASSUME NEW i \in 1 .. Len(source)
        PROVE  source[i].content \in Content /\ source[i].version \in Version
    <3>1. source[i] \in SourceCommit
      BY <2>1, ElementOfSeq DEF TypeOK
    <3> QED
      BY <3>1 DEF SourceCommit
  <2>2. ASSUME NEW j \in 1 .. Len(release)
        PROVE  release[j].content \in Content /\ release[j].version \in Version
    <3>1. release[j] \in ReleaseCommit
      BY <2>2, ElementOfSeq DEF TypeOK
    <3> QED
      BY <3>1 DEF ReleaseCommit
  <2> QED
    BY <2>1, <2>2 DEF AllAreWhole, PublicationsAreWhole
<1> QED
  BY <1>1, PublicationInvariance, PTL DEF IInv, PInv

(* When everything is quiet the hub is released, or a run has failed since   *)
(* it was pushed: jobs that step aside hide nothing.                         *)
THEOREM NothingUnpublishedGoesUnnoticed == Spec => []UnpublishedIsNoticed
<1>1. PInv => UnpublishedIsNoticed
  BY DEF PInv, Owed, Pending, UnpublishedIsNoticed
<1> QED
  BY <1>1, PublicationInvariance, PTL

(* Publishing again what was just published creates no commits (run.sh), so  *)
(* a publication that triggers another run does not start a chain of them.   *)
THEOREM RerunsCreateNoCommits == Spec => UnchangedRerunCreatesNoCommits
<1>1. IInv /\ PInv /\ [Next]_vars
        => \A p \in Publisher : Lands(p) =>
             ~ /\ run[p].head = source
               /\ Last(source).by \in Publisher
               /\ release # <<>> /\ Last(release).by \in Publisher
               /\ Last(release).tool = run[p].tool
  BY RerunLandsNothing
<1> QED
  BY <1>1, PublicationInvariance, PTL DEF Spec, UnchangedRerunCreatesNoCommits

(* A release has at least the version that hub.yaml requests, and exactly    *)
(* that one unless the next patch of the last release is above it            *)
(* (resolve_publish_version).                                                *)
THEOREM HighRequestsAreHonoured == Spec => HighRequestIsHonoured
<1>1. IInv /\ PInv /\ [Next]_vars
        => \A p \in Publisher : (Lands(p) /\ release # <<>>) =>
             LET requested == Hub(p).version
                 released == Last(release').version
             IN /\ ~Below(released, requested)
                /\ ~Below(requested, BumpPatch(Last(release).version)) => released = requested
  BY LandingHonoursRequest
<1> QED
  BY <1>1, PublicationInvariance, PTL DEF Spec, HighRequestIsHonoured

(* RequestIsHonoured as it holds: where neither the last release nor the     *)
(* request is a prerelease, a request above the last release is released.    *)
(* The README's promise fails on prereleases only.                           *)
THEOREM FinalRequestsAreHonoured ==
  Spec => [][\A p \in Publisher :
               (/\ Lands(p) /\ release # <<>>
                /\ Last(release).version.pre = <<>> /\ Hub(p).version.pre = <<>>
                /\ Below(Last(release).version, Hub(p).version))
                 => Last(release').version = Hub(p).version]_vars
<1>1. ASSUME IInv, PInv, [Next]_vars, NEW p \in Publisher, Lands(p), release # <<>>,
             Last(release).version.pre = <<>>, Hub(p).version.pre = <<>>,
             Below(Last(release).version, Hub(p).version)
      PROVE  Last(release').version = Hub(p).version
  <2>1. Hub(p).version \in Version
    BY <1>1, LandedVersion
  <2>2. Last(release).version \in Version
    <3>1. release \in Seq(ReleaseCommit)
      BY <1>1 DEF IInv, TypeOK
    <3>2. Last(release) \in ReleaseCommit
      BY <1>1, <3>1, LastIsElement
    <3> QED
      BY <3>2 DEF ReleaseCommit
  <2>3. ~Below(Hub(p).version, BumpPatch(Last(release).version))
    BY <1>1, <2>1, <2>2, FinalIsNotPassedOver
  <2> QED
    BY <1>1, <2>3, LandingHonoursRequest
<1>2. IInv /\ PInv /\ [Next]_vars
        => \A p \in Publisher :
             (/\ Lands(p) /\ release # <<>>
              /\ Last(release).version.pre = <<>> /\ Hub(p).version.pre = <<>>
              /\ Below(Last(release).version, Hub(p).version))
               => Last(release').version = Hub(p).version
  BY <1>1
<1> QED
  BY <1>2, PublicationInvariance, PTL DEF Spec
=============================================================================
