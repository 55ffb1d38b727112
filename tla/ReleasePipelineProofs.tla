----------------------- MODULE ReleasePipelineProofs -----------------------
(* Theorems about ReleasePipeline: any number of commits, contents, reruns,  *)
(* reads and lost jobs, and a registry that answers as late as it likes.     *)
EXTENDS ReleasePipeline, TLAPS, WellFoundedInduction

\* What a commit of main is, and where the variables range.
Commits == [code: Codes, release: Releases]

Typed ==
  /\ main \in Seq(Commits) /\ Len(main) \in 1..MaxCommits
  /\ log \in Seq(Entries)
  /\ shown \in 0..Len(log)
  /\ late \in BOOLEAN

\* Nothing of a commit not yet merged is in the registry, and of one that is, the
\* version the pipeline mints for it.
LogPlaced == \A i \in 1..Len(log) :
  /\ log[i].version.source \in -2..Tip
  /\ log[i].version.source > 0 => log[i].version = PrereleaseVersion(log[i].version.source)

\* A job in the lane is of a commit of main, as is the tip it checked out.
LaneTyped ==
  \/ lane = Free
  \/ /\ lane \in [stage: {"judge", "publish", "confirm"}, job: Jobs, tip: Nat, reads: Nat,
                  whole: BOOLEAN]
     /\ lane.job.at \in Positions /\ lane.tip \in Positions

\* While no job ended before the record showed its publish, all that may be
\* missing from the record is the publish of the job that is being confirmed.
Caught ==
  ~ late => \/ shown = Len(log)
            \/ /\ In("confirm") /\ shown + 1 = Len(log)
               /\ log[Len(log)].version = VersionOf(lane.job)
               /\ VersionOf(lane.job) \notin Versioned(shown)

\* A job about to publish was told to, by the record as it still stands.
Judged ==
  In("publish") /\ ~ late => NpmVerdict(lane.job, lane.tip, Fetched) = "publish"

\* Builds of main took next one after the other.
BuildsAscend ==
  \A i \in 1..Len(log) : log[i].version.source > 0 =>
    /\ log[i].tag = "next"
    /\ \A j \in i + 1..Len(log) :
         log[j].tag = "next" => log[j].version.source > log[i].version.source

\* While no job ended before the record showed its publish, the registry made
\* all its moves forward.
Ascending == ~ late => BuildsAscend /\ ReleasesAscend(log)

\* A job that may be run again is of a commit of main.
BegunPlaced == begun \subseteq {job \in Jobs : job.at \in Positions}

IInv == Typed /\ LogPlaced /\ LaneTyped /\ Caught /\ Judged /\ Ascending

-----------------------------------------------------------------------------
(* The newest move of a tag. *)

Below == {ss \in Nat \X Nat : ss[1] < ss[2]}

LEMMA BelowWellFounded == IsWellFoundedOn(Below, Nat)
  BY NatLessThanWellFounded DEF OpToRel, Below

LEMMA LastIsLast ==
  ASSUME NEW k \in Nat, NEW S \in SUBSET (1 .. k), S # {}
  PROVE  Last(S) \in S /\ \A j \in S : j <= Last(S)
  <1> DEFINE T == {k - i : i \in S}
  <1>1. T \in SUBSET Nat /\ T # {}
    <2>1. \A i \in S : i \in 1 .. k
      OBVIOUS
    <2>2. \A i \in 1 .. k : k - i \in Nat
      OBVIOUS
    <2> QED
      BY <2>1, <2>2
  <1>2. PICK x \in T : \A y \in T : <<y, x>> \notin Below
    <2> HIDE DEF T
    <2> QED
      BY BelowWellFounded, <1>1, WFMin
  <1>3. ASSUME NEW y \in T PROVE x <= y
    <2>1. x \in Nat /\ y \in Nat
      BY <1>1
    <2>2. <<y, x>> \notin Below
      BY <1>2
    <2> HIDE DEF T
    <2> QED
      BY <2>1, <2>2 DEF Below
  <1>4. PICK i \in S : x = k - i
    OBVIOUS
  <1>5. ASSUME NEW j \in S PROVE j <= i
    <2>1. k - i <= k - j
      BY <1>3, <1>4
    <2>2. i \in 1 .. k /\ j \in 1 .. k
      OBVIOUS
    <2> HIDE DEF T
    <2> QED
      BY <2>1, <2>2
  <1>6. \E m \in S : \A j \in S : j <= m
    BY <1>5
  <1> HIDE DEF T
  <1> QED
    BY <1>6 DEF Last

\* What a tag names is unset, or was published under it.
LEMMA TagPlaced ==
  ASSUME Typed, NEW k \in 0..Len(log), NEW tag
  PROVE  \/ TagAt(k, tag) = Unset
         \/ \E i \in 1..k : TagAt(k, tag) = log[i].version
  <1>1. k \in Nat /\ TagMoves(k, tag) \in SUBSET (1 .. k)
    BY DEF Typed, TagMoves
  <1>2. TagMoves(k, tag) # {} => Last(TagMoves(k, tag)) \in 1 .. k
    BY <1>1, LastIsLast
  <1> QED
    BY <1>2 DEF TagAt

-----------------------------------------------------------------------------
(* What a merge leaves of a verdict. *)

LEMMA Appended ==
  ASSUME NEW S, NEW seq \in Seq(S), NEW e
  PROVE  /\ Len(Append(seq, e)) = Len(seq) + 1
         /\ \A i \in 1..Len(seq) : Append(seq, e)[i] = seq[i]
         /\ Append(seq, e)[Len(seq) + 1] = e
  OBVIOUS

LEMMA MergeAppends ==
  ASSUME Typed, Merge
  PROVE  /\ Len(main') = Len(main) + 1
         /\ \A c \in Positions : main'[c] = main[c]
  <1>1. \E e : main' = Append(main, e)
    BY DEF Merge
  <1> QED
    BY <1>1, Appended DEF Typed, Positions

LEMMA VerdictOutlivesMerge ==
  ASSUME Typed, Merge, NEW job \in Jobs, job.at \in Positions,
         NEW tip \in Positions, NEW record,
         \A v \in record.versions : v.source \in -2..Tip,
         record.next.source \in -2..Tip
  PROVE  NpmVerdict(job, tip, record)' = NpmVerdict(job, tip, record)
  <1>1. Len(main) \in Nat /\ Len(main') = Len(main) + 1
    BY MergeAppends DEF Typed
  <1>2. \A c \in Positions : Surface(c)' = Surface(c)
    BY MergeAppends DEF Surface
  <1>3. \A v : v.source \in -2..Tip => (Placed(v)' <=> Placed(v))
    BY <1>1 DEF Placed, Positions, Tip
  <1>4. PrereleaseVersion(job.at)' = PrereleaseVersion(job.at)
    BY MergeAppends DEF PrereleaseVersion
  <1>5. ReleaseVersion(job.at)' = ReleaseVersion(job.at)
    BY MergeAppends DEF ReleaseVersion
  <1>6. Descendants(job.at, record)' = Descendants(job.at, record)
    BY <1>3 DEF Descendants
  <1>7. ShippedSurfaceGate(job.at, tip, record.next)' = ShippedSurfaceGate(job.at, tip, record.next)
    BY <1>2, <1>3 DEF ShippedSurfaceGate, Placed, IsAncestor
  <1>8. NextPublishVerdict(job.at, tip, record)' = NextPublishVerdict(job.at, tip, record)
    BY <1>4, <1>6, <1>7 DEF NextPublishVerdict
  <1>9. StablePublishVerdict(job.at, record)' = StablePublishVerdict(job.at, record)
    BY <1>5, MergeAppends DEF StablePublishVerdict
  <1> QED
    BY <1>8, <1>9 DEF NpmVerdict

\* Of the state, a verdict depends on main alone.
LEMMA VerdictOfMain ==
  ASSUME main' = main, NEW job, NEW tip, NEW record
  PROVE  NpmVerdict(job, tip, record)' = NpmVerdict(job, tip, record)
  BY DEF NpmVerdict, NextPublishVerdict, StablePublishVerdict, PrereleaseVersion, ReleaseVersion,
         Descendants, ShippedSurfaceGate, Placed, Surface, Positions

-----------------------------------------------------------------------------
(* What a record shows. *)

LEMMA VersionedPlaced ==
  ASSUME Typed, LogPlaced, NEW k \in 0..Len(log)
  PROVE  /\ \A v \in Packument(k).versions : v.source \in -2..Tip
         /\ Packument(k).next.source \in -2..Tip
  <1>1. \A i \in 1..k : log[i].version.source \in -2..Tip
    BY DEF Typed, LogPlaced
  <1>2. -2 \in -2..Tip
    BY DEF Typed, Tip
  <1> QED
    BY <1>1, <1>2, TagPlaced DEF Packument, Versioned, Unset, Foreign

LEMMA CaughtRecord == ASSUME Caught, ~ late, ~ In("confirm") PROVE Fetched = Truth
  BY DEF Caught, Fetched, Truth

\* VerdictStands, as the invariant has it.
LEMMA JudgedStands == IInv => VerdictStands
  <1> SUFFICES ASSUME IInv, In("publish"), ~ late
      PROVE NpmVerdict(lane.job, lane.tip, Truth) = "publish"
    BY DEF VerdictStands
  <1>1. ~ In("confirm")
    BY DEF In
  <1> QED
    BY <1>1, CaughtRecord DEF IInv, Judged

-----------------------------------------------------------------------------
(* Versions and their order. *)

LEMMA VersionTyped ==
  ASSUME Typed, NEW job \in Jobs, job.at \in Positions
  PROVE  VersionOf(job) \in Versions
  <1>1. main[job.at].release \in Releases
    <2>1. main[job.at] \in Commits
      BY DEF Typed, Positions
    <2> QED
      BY <2>1 DEF Commits
  <1>2. NextPatch(main[job.at].release) \in Releases
    BY <1>1 DEF NextPatch, Releases
  <1>3. job.at \in -2..MaxCommits /\ Released \in -2..MaxCommits
    BY BoundsAssumption DEF Jobs, Released
  <1> QED
    BY <1>1, <1>2, <1>3 DEF VersionOf, PrereleaseVersion, ReleaseVersion, Versions

LEMMA BumpedTyped ==
  ASSUME NEW r \in Releases, NEW kind \in Bumps
  PROVE  Bumped(r, kind) \in Releases
  <1>1. kind = "major" \/ kind = "minor" \/ kind = "patch"
    BY ContentAssumption
  <1> QED
    BY <1>1 DEF Bumped, NextPatch, Releases

LEMMA ReleaseOrder ==
  ASSUME NEW r \in Releases, NEW s \in Releases
  PROVE  /\ ~ (ReleaseBefore(r, s) /\ ReleaseBefore(s, r))
         /\ r = s \/ ReleaseBefore(r, s) \/ ReleaseBefore(s, r)
  BY DEF Releases, ReleaseBefore

LEMMA ReleaseTransitive ==
  ASSUME NEW r \in Releases, NEW s \in Releases, NEW t \in Releases,
         ReleaseBefore(r, s), ReleaseBefore(s, t)
  PROVE  ReleaseBefore(r, t)
  BY DEF Releases, ReleaseBefore

\* In an ascending log a tag names the newest version of its channel.
LEMMA NextTop ==
  ASSUME Typed, BuildsAscend, NEW k \in 0..Len(log), NEW i \in 1..k, log[i].version.source > 0
  PROVE  /\ TagAt(k, "next") \in Versioned(k)
         /\ TagAt(k, "next").source >= log[i].version.source
  <1> DEFINE m == Last(TagMoves(k, "next"))
  <1>1. k \in Nat /\ TagMoves(k, "next") \in SUBSET (1 .. k) /\ i \in 1..Len(log)
    BY DEF Typed, TagMoves
  <1>2. i \in TagMoves(k, "next")
    BY <1>1 DEF BuildsAscend, TagMoves
  <1>3. m \in TagMoves(k, "next") /\ i <= m
    BY <1>1, <1>2, LastIsLast
  <1>4. TagAt(k, "next") = log[m].version
    BY <1>2 DEF TagAt
  <1>5. m \in 1..k /\ m \in 1..Len(log) /\ log[m].tag = "next"
    BY <1>1, <1>3 DEF TagMoves, Typed
  <1>6. log[m].version.source >= log[i].version.source
    <2>1. CASE m = i
      <3>1. log[i] \in Entries
        BY <1>1 DEF Typed
      <3>2. log[i].version.source \in Int
        BY <3>1, BoundsAssumption DEF Entries, Versions
      <3> QED
        BY <2>1, <3>2
    <2>2. CASE m # i
      <3>1. m \in i + 1..Len(log)
        BY <1>1, <1>3, <1>5, <2>2
      <3>2. log[m].version.source > log[i].version.source
        BY <1>1, <1>5, <3>1 DEF BuildsAscend
      <3>3. log[m] \in Entries /\ log[i] \in Entries
        BY <1>1, <1>5 DEF Typed
      <3>4. log[m].version.source \in Int /\ log[i].version.source \in Int
        BY <3>3, BoundsAssumption DEF Entries, Versions
      <3> QED
        BY <3>2, <3>4
    <2> QED
      BY <2>1, <2>2
  <1> QED
    BY <1>4, <1>5, <1>6 DEF Versioned

LEMMA LatestTop ==
  ASSUME Typed, ReleasesAscend(log), NEW k \in 0..Len(log), NEW i \in 1..k,
         log[i].version.source = Released
  PROVE  /\ TagAt(k, "latest") \in Versioned(k)
         /\ TagAt(k, "latest").source = Released
         /\ \/ TagAt(k, "latest") = log[i].version
            \/ ReleaseBefore(log[i].version.release, TagAt(k, "latest").release)
  <1> DEFINE m == Last(TagMoves(k, "latest"))
  <1>1. k \in Nat /\ TagMoves(k, "latest") \in SUBSET (1 .. k) /\ i \in 1..Len(log)
    BY DEF Typed, TagMoves
  <1>2. i \in TagMoves(k, "latest") /\ log[i].tag = "latest"
    BY <1>1 DEF ReleasesAscend, TagMoves
  <1>3. m \in TagMoves(k, "latest") /\ i <= m
    BY <1>1, <1>2, LastIsLast
  <1>4. TagAt(k, "latest") = log[m].version
    BY <1>2 DEF TagAt
  <1>5. m \in 1..k /\ m \in 1..Len(log)
    BY <1>1, <1>3 DEF TagMoves, Typed
  <1>6. m # i => m \in i + 1..Len(log) /\ log[m].tag = "latest"
    BY <1>1, <1>3, <1>5 DEF TagMoves
  <1>7. m # i => /\ log[m].version.source = Released
                 /\ ReleaseBefore(log[i].version.release, log[m].version.release)
    BY <1>1, <1>6 DEF ReleasesAscend
  <1> HIDE DEF m
  <1> QED
    BY <1>4, <1>5, <1>7 DEF Versioned

-----------------------------------------------------------------------------
(* The start. *)

LEMMA InitIInv == Init => IInv
  <1> SUFFICES ASSUME Init PROVE IInv
    OBVIOUS
  <1>1. log \in Seq(Entries) /\ \A i \in 1..Len(log) : log[i].version.source < 1
    BY ContentAssumption DEF Init
  <1>2. Len(main) = 1
    BY DEF Init
  <1>3. \A i \in 1..Len(log) : log[i].version.source \in -2..MaxCommits
    <2>1. \A i \in 1..Len(log) : log[i] \in Entries
      BY <1>1
    <2> QED
      BY <2>1 DEF Entries, Versions
  <1>4. Typed
    <2>1. [code |-> FirstCode, release |-> FirstRelease] \in Commits
      BY ContentAssumption DEF Commits
    <2>2. main \in Seq(Commits)
      BY <2>1 DEF Init
    <2>3. Len(log) \in Nat /\ 1 \in 1..MaxCommits
      BY <1>1, BoundsAssumption
    <2>4. shown \in 0..Len(log)
      BY <2>3 DEF Init
    <2>5. late \in BOOLEAN
      BY DEF Init
    <2> QED
      BY <1>1, <1>2, <2>2, <2>3, <2>4, <2>5 DEF Typed
  <1>5. LogPlaced
    BY <1>1, <1>2, <1>3, BoundsAssumption DEF LogPlaced, Tip
  <1>6. LaneTyped /\ Caught /\ Judged
    BY DEF Init, LaneTyped, Caught, Judged, In, Free
  <1>7. Ascending
    BY <1>1, <1>3, OrderAssumption, BoundsAssumption DEF Init, Ascending, BuildsAscend
  <1> QED
    BY <1>4, <1>5, <1>6, <1>7 DEF IInv

-----------------------------------------------------------------------------
(* The steps that leave the log alone. *)

LEMMA LanePlaced ==
  ASSUME IInv, lane # Free
  PROVE  /\ lane \in [stage: {"judge", "publish", "confirm"}, job: Jobs, tip: Nat, reads: Nat,
                      whole: BOOLEAN]
         /\ lane.job.at \in Positions /\ lane.tip \in Positions
  BY DEF IInv, LaneTyped

LEMMA MergeIInv == ASSUME IInv, Merge PROVE IInv'
  <1>1. Len(main') = Len(main) + 1 /\ \A c \in Positions : main'[c] = main[c]
    BY MergeAppends DEF IInv
  <1>2. /\ log' = log /\ shown' = shown /\ late' = late /\ lane' = lane
        /\ Len(main) \in Nat /\ Tip < MaxCommits
    BY DEF Merge, IInv, Typed
  <1>3. Typed'
    <2>1. main[Tip] \in Commits
      <3>1. Len(main) \in 1..Len(main)
        BY DEF IInv, Typed
      <3> QED
        BY <3>1 DEF IInv, Typed, Tip
    <2>2. \A code \in Codes : [main[Tip] EXCEPT !.code = code] \in Commits
      BY <2>1 DEF Commits
    <2>3. \A kind \in Bumps : Bumped(main[Tip].release, kind) \in Releases
      BY <2>1, BumpedTyped DEF Commits
    <2>4. \A kind \in Bumps : [main[Tip] EXCEPT !.release = Bumped(@, kind)]
                                 \in Commits
      BY <2>1, <2>3 DEF Commits
    <2>5. \E e \in Commits : main' = Append(main, e)
      BY <2>2, <2>4 DEF Merge
    <2>6. main' \in Seq(Commits)
      BY <2>5 DEF IInv, Typed
    <2>7. Len(main') \in 1..MaxCommits
      BY <1>1, <1>2, BoundsAssumption DEF Tip
    <2> QED
      BY <1>2, <2>6, <2>7 DEF IInv, Typed
  <1>4. LogPlaced'
    <2> SUFFICES ASSUME NEW i \in 1..Len(log)
        PROVE /\ log[i].version.source \in -2..Tip'
              /\ log[i].version.source > 0 =>
                   log[i].version = PrereleaseVersion(log[i].version.source)'
      BY <1>2 DEF LogPlaced
    <2>1. /\ log[i].version.source \in -2..Tip
          /\ log[i].version.source > 0 => log[i].version = PrereleaseVersion(log[i].version.source)
      BY DEF IInv, LogPlaced
    <2>2. log[i].version.source > 0 => log[i].version.source \in Positions
      BY <1>2, <2>1 DEF Tip, Positions
    <2> QED
      BY <1>1, <1>2, <2>1, <2>2 DEF PrereleaseVersion, Tip
  <1>5. LaneTyped'
    BY <1>1, <1>2 DEF IInv, LaneTyped, Positions
  <1>6. Caught'
    <2>1. CASE lane = Free
      BY <1>2, <2>1 DEF IInv, Caught, In, Free
    <2>2. CASE lane # Free
      <3>1. VersionOf(lane.job)' = VersionOf(lane.job)
        BY <1>1, <1>2, <2>2, LanePlaced DEF VersionOf, PrereleaseVersion, ReleaseVersion
      <3> QED
        BY <1>2, <3>1 DEF IInv, Caught, In, Versioned
    <2> QED
      BY <2>1, <2>2
  <1>7. Judged'
    <2> SUFFICES ASSUME In("publish"), ~ late
        PROVE NpmVerdict(lane.job, lane.tip, Fetched)' = "publish"
      BY <1>2 DEF Judged, In
    <2>1. lane # Free
      BY DEF In, Free
    <2>2. PICK job, tip, record : job = lane.job /\ tip = lane.tip /\ record = Fetched
      OBVIOUS
    <2>3. job = lane'.job /\ tip = lane'.tip /\ record = Fetched'
      BY <1>2, <2>2 DEF Fetched, Packument, Versioned, TagAt, TagMoves
    <2>4. /\ \A v \in record.versions : v.source \in -2..Tip
          /\ record.next.source \in -2..Tip
      BY <2>2, VersionedPlaced DEF IInv, Fetched, Typed
    <2>5. NpmVerdict(job, tip, record)' = NpmVerdict(job, tip, record)
      BY <2>1, <2>2, <2>4, LanePlaced, VerdictOutlivesMerge DEF IInv
    <2>6. NpmVerdict(job, tip, record) = "publish"
      BY <2>2 DEF IInv, Judged
    <2> QED
      BY <2>3, <2>5, <2>6
  <1>8. Ascending'
    BY <1>2 DEF IInv, Ascending, BuildsAscend
  <1> QED
    BY <1>3, <1>4, <1>5, <1>6, <1>7, <1>8 DEF IInv

\* A job enters, is judged or leaves: only the lane, the counters and late change.
LEMMA EnterIInv == ASSUME IInv, NEW job \in Jobs, job.at \in Positions, Enter(job) PROVE IInv'
  <1>1. /\ lane' = [stage |-> "judge", job |-> job, tip |-> Tip, reads |-> 0, whole |-> FALSE]
        /\ UNCHANGED <<main, log, shown, late>>
        /\ ~ In("confirm")
    BY DEF Enter, In
  <1>2. job.at \in Positions /\ Tip \in Positions /\ Tip \in Nat
    BY DEF IInv, Typed, Tip, Positions
  <1>3. Typed' /\ LogPlaced' /\ Ascending'
    BY <1>1 DEF IInv, Typed, LogPlaced, Tip, PrereleaseVersion, Ascending, BuildsAscend
  <1>4. LaneTyped'
    BY <1>1, <1>2 DEF LaneTyped, Positions
  <1>5. Caught' /\ Judged'
    BY <1>1 DEF IInv, Caught, Judged, In
  <1> QED
    BY <1>3, <1>4, <1>5 DEF IInv

LEMMA JudgeIInv == ASSUME IInv, Judge PROVE IInv'
  <1> DEFINE verdict == NpmVerdict(lane.job, lane.tip, Fetched)
             stage == IF verdict = "publish" THEN "publish" ELSE "confirm"
             whole == shown = Len(log)
  <1>1. /\ In("judge") /\ lane # Free
        /\ UNCHANGED <<main, log, shown, late>>
    BY DEF Judge, In, Free
  <1>2. lane' = Free \/ lane' = [lane EXCEPT !.stage = stage, !.whole = whole]
    BY DEF Judge, End
  <1>3. lane' # Free => lane'.job = lane.job /\ lane'.tip = lane.tip /\ lane'.stage = stage
    BY <1>1, <1>2, LanePlaced
  <1>4. Typed' /\ LogPlaced' /\ Ascending'
    BY <1>1 DEF IInv, Typed, LogPlaced, Tip, PrereleaseVersion, Ascending, BuildsAscend
  <1>5. LaneTyped'
    <2>1. stage \in {"judge", "publish", "confirm"} /\ whole \in BOOLEAN
      OBVIOUS
    <2> HIDE DEF stage, whole
    <2> QED
      BY <1>1, <1>2, <2>1, LanePlaced DEF LaneTyped, Positions
  <1>6. ~ late => shown = Len(log)
    BY <1>1 DEF IInv, Caught, In
  <1>7. Caught'
    BY <1>1, <1>6 DEF Caught
  <1>8. Judged'
    <2>1. In("publish")' => lane' # Free /\ verdict = "publish"
      BY <1>3 DEF In, Free
    <2>2. Fetched' = Fetched
      BY <1>1 DEF Fetched, Packument, Versioned, TagAt, TagMoves
    <2>3. PICK job, tip, record : job = lane.job /\ tip = lane.tip /\ record = Fetched
      OBVIOUS
    <2>4. NpmVerdict(job, tip, record)' = NpmVerdict(job, tip, record)
      BY <1>1, VerdictOfMain
    <2> QED
      BY <1>3, <2>1, <2>2, <2>3, <2>4 DEF Judged
  <1> QED
    BY <1>4, <1>5, <1>7, <1>8 DEF IInv

LEMMA ConfirmIInv == ASSUME IInv, Confirm PROVE IInv'
  <1> DEFINE outcome == ConfirmPublish(lane.job, lane.reads + 1, Fetched)
  <1>1. /\ In("confirm") /\ lane # Free
        /\ UNCHANGED <<main, log, shown>>
        /\ late' = (late \/ outcome = "unsettled")
    BY DEF Confirm, In, Free
  <1>2. Typed' /\ LogPlaced' /\ Ascending'
    BY <1>1 DEF IInv, Typed, LogPlaced, Tip, PrereleaseVersion, Ascending, BuildsAscend
  <1>3. CASE outcome = "again"
    <2>1. lane' = [lane EXCEPT !.reads = IF @ < MaxReads THEN @ + 1 ELSE @]
      BY <1>3 DEF Confirm
    <2>2. /\ lane'.job = lane.job /\ lane'.stage = lane.stage
          /\ lane' \in [stage: {"judge", "publish", "confirm"}, job: Jobs, tip: Nat, reads: Nat,
                        whole: BOOLEAN]
          /\ lane'.tip = lane.tip
      BY <1>1, <2>1, LanePlaced
    <2>3. LaneTyped'
      BY <1>1, <2>2, LanePlaced DEF LaneTyped, Positions
    <2>4. ~ late' => ~ late
      BY <1>1
    <2>5. VersionOf(lane.job)' = VersionOf(lane.job)
      BY <1>1, <2>2 DEF VersionOf, PrereleaseVersion, ReleaseVersion
    <2>6. Caught'
      BY <1>1, <2>2, <2>4, <2>5 DEF IInv, Caught, In, Versioned
    <2>7. Judged'
      BY <1>1, <2>2 DEF Judged, In
    <2> QED
      BY <1>2, <2>3, <2>6, <2>7 DEF IInv
  <1>4. CASE outcome # "again"
    <2>1. lane' = Free
      BY <1>4 DEF Confirm, End
    <2>2. ~ late' => VersionOf(lane.job) \in Fetched.versions
      BY <1>1, <1>4 DEF ConfirmPublish
    <2>3. Caught'
      BY <1>1, <2>2 DEF IInv, Caught, Fetched, Packument
    <2> QED
      BY <1>2, <2>1, <2>3 DEF IInv, LaneTyped, Judged, In, Free
  <1> QED
    BY <1>3, <1>4

LEMMA DieIInv == ASSUME IInv, Die PROVE IInv'
  <1>1. /\ lane' = Free /\ UNCHANGED <<main, log, shown>>
        /\ late' = (late \/ VersionOf(lane.job) \in Truth.versions \ Fetched.versions)
    BY DEF Die, End
  <1>2. Typed' /\ LogPlaced' /\ Ascending'
    BY <1>1 DEF IInv, Typed, LogPlaced, Tip, PrereleaseVersion, Ascending, BuildsAscend
  <1>3. Caught'
    <2>1. Len(log) # 0 => log[Len(log)].version \in Truth.versions
      BY DEF IInv, Typed, Truth, Packument, Versioned
    <2>2. shown + 1 = Len(log) => Len(log) # 0
      BY DEF IInv, Typed
    <2> QED
      BY <1>1, <2>1, <2>2 DEF IInv, Caught, Fetched, Packument
  <1> QED
    BY <1>1, <1>2, <1>3 DEF IInv, LaneTyped, Judged, In, Free

LEMMA ShowIInv == ASSUME IInv, Show PROVE IInv'
  <1>1. /\ shown' \in shown + 1..Len(log) /\ UNCHANGED <<main, lane, log, late>>
        /\ shown \in Nat /\ Len(log) \in Nat
    BY DEF Show, IInv, Typed
  <1>2. Typed' /\ LogPlaced' /\ LaneTyped' /\ Ascending'
    BY <1>1 DEF IInv, Typed, LogPlaced, LaneTyped, Positions, Tip, PrereleaseVersion, Ascending,
                BuildsAscend
  <1>3. ~ late => In("confirm") /\ shown' = Len(log)
    BY <1>1 DEF IInv, Caught
  <1> QED
    BY <1>1, <1>2, <1>3 DEF IInv, Caught, Judged, In

-----------------------------------------------------------------------------
(* The step that adds to the log. *)

\* An npm publish that lands.
Lands ==
  /\ In("publish") /\ lane # Free
  /\ VersionOf(lane.job) \notin Truth.versions
  /\ lane' = [lane EXCEPT !.stage = "confirm"]
  /\ log' = Append(log, [version |-> VersionOf(lane.job), tag |-> TagOf(lane.job.channel)])
  /\ UNCHANGED <<main, shown, late>>

LEMMA LandsTyped ==
  ASSUME IInv, Lands
  PROVE  /\ Len(log') = Len(log) + 1 /\ Len(log) \in Nat
         /\ \A i \in 1..Len(log) : log'[i] = log[i]
         /\ log'[Len(log) + 1] = [version |-> VersionOf(lane.job), tag |-> TagOf(lane.job.channel)]
         /\ log' \in Seq(Entries)
  <1>1. log \in Seq(Entries)
    BY DEF IInv, Typed
  <1>2. VersionOf(lane.job) \in Versions
    BY LanePlaced, VersionTyped DEF IInv, Lands
  <1>3. [version |-> VersionOf(lane.job), tag |-> TagOf(lane.job.channel)] \in Entries
    BY <1>2 DEF Entries, TagOf
  <1> QED
    BY <1>1, <1>3, Appended DEF Lands

\* The verdict it was told still stands.
LEMMA LandsJudged ==
  ASSUME IInv, Lands, ~ late
  PROVE  /\ shown = Len(log)
         /\ NpmVerdict(lane.job, lane.tip, Truth) = "publish"
  <1>1. ~ In("confirm") /\ In("publish")
    BY DEF Lands, In
  <1> QED
    BY <1>1, JudgedStands DEF IInv, Caught, VerdictStands

\* A build of main that lands is the newest.
LEMMA LandsNext ==
  ASSUME IInv, Lands, ~ late, lane.job.channel = "next",
         NEW i \in 1..Len(log), log[i].version.source > 0
  PROVE  lane.job.at > log[i].version.source
  <1> DEFINE v == log[i].version
             c == lane.job.at
  <1>1. /\ v.source \in -2..Tip /\ v = PrereleaseVersion(v.source)
        /\ v \in Truth.versions
    BY DEF IInv, LogPlaced, Truth, Packument, Versioned
  <1>2. c \in Positions
    BY LanePlaced DEF Lands
  <1>3. NextPublishVerdict(c, lane.tip, Truth) = "publish"
    BY LandsJudged DEF NpmVerdict
  <1>4. PrereleaseVersion(c) \notin Truth.versions /\ Descendants(c, Truth) = {}
    BY <1>1, <1>3 DEF NextPublishVerdict
  <1>5. v.source \in Positions
    BY <1>1 DEF Tip, Positions, IInv, Typed
  <1>6. v.source # c
    BY <1>1, <1>4
  <1>7. ~ (c <= v.source)
    BY <1>1, <1>4, <1>5, <1>6 DEF Descendants, Placed, IsAncestor
  <1> HIDE DEF v, c
  <1>8. c \in Int /\ v.source \in Int
    BY <1>2, <1>5 DEF Positions
  <1>9. c > v.source
    BY <1>7, <1>8
  <1> QED
    BY <1>9 DEF v, c

\* A release that lands is the newest.
LEMMA LandsLatest ==
  ASSUME IInv, Lands, ~ late, lane.job.channel = "stable",
         NEW i \in 1..Len(log), log[i].version.source = Released
  PROVE  ReleaseBefore(log[i].version.release, main[lane.job.at].release)
  <1> DEFINE r == log[i].version.release
             s == Truth.latest.release
             t == main[lane.job.at].release
  <1>1. Len(log) \in 0..Len(log) /\ Truth.versions # {}
    BY DEF IInv, Typed, Truth, Packument, Versioned
  <1>2. Typed /\ ReleasesAscend(log)
    BY DEF IInv, Ascending
  <1>3. /\ Truth.latest \in Truth.versions
        /\ Truth.latest.source = Released
        /\ Truth.latest = log[i].version \/ ReleaseBefore(r, s)
    BY <1>1, <1>2, LatestTop DEF Truth, Packument
  <1>4. StablePublishVerdict(lane.job.at, Truth) = "publish"
    BY LandsJudged DEF NpmVerdict
  <1>5. ReleaseVersion(lane.job.at) \notin Truth.versions /\ ~ ReleaseBefore(t, s)
    BY <1>1, <1>3, <1>4 DEF StablePublishVerdict
  <1>6. Truth.latest \in Versions /\ log[i].version \in Versions
    <2>1. \A j \in 1..Len(log) : log[j] \in Entries
      BY DEF IInv, Typed
    <2> QED
      BY <1>3, <2>1 DEF Truth, Packument, Versioned, Entries
  <1>7. r \in Releases /\ s \in Releases
    BY <1>6 DEF Versions
  <1>8. t \in Releases
    <2>1. main[lane.job.at] \in Commits
      BY LanePlaced DEF IInv, Typed, Positions, Lands
    <2> QED
      BY <2>1 DEF Commits
  <1>9. s # t
    <2>1. SUFFICES ASSUME s = t PROVE FALSE
      OBVIOUS
    <2>2. Truth.latest = ReleaseVersion(lane.job.at)
      BY <1>3, <1>6, <2>1 DEF Versions, ReleaseVersion
    <2> QED
      BY <1>3, <1>5, <2>2
  <1>10. ReleaseBefore(s, t)
    BY <1>5, <1>7, <1>8, <1>9, ReleaseOrder
  <1>11. r = s \/ ReleaseBefore(r, s)
    BY <1>3
  <1> HIDE DEF r, s, t
  <1>12. ReleaseBefore(r, t)
    BY <1>7, <1>8, <1>10, <1>11, ReleaseTransitive
  <1> QED
    BY <1>12 DEF r, t

LEMMA LandsAscending == ASSUME IInv, Lands PROVE Ascending'
  <1> SUFFICES ASSUME ~ late PROVE BuildsAscend' /\ ReleasesAscend(log)'
    BY DEF Ascending, Lands
  <1> DEFINE n == Len(log)
             job == lane.job
  <1>1. BuildsAscend /\ ReleasesAscend(log)
    BY DEF IInv, Ascending
  <1>2. /\ Len(log') = n + 1 /\ n \in Nat
        /\ \A i \in 1..n : log'[i] = log[i]
        /\ log'[n + 1].version = VersionOf(job) /\ log'[n + 1].tag = TagOf(job.channel)
    BY LandsTyped
  <1>3. job \in Jobs /\ job.channel \in {"next", "stable"}
    BY LanePlaced DEF Lands, Jobs
  <1>4. CASE job.channel = "next"
    <2>1. /\ log'[n + 1].tag = "next"
          /\ log'[n + 1].version.source = job.at
          /\ job.at \in Nat \ {0}
      BY <1>2, <1>3, <1>4 DEF TagOf, VersionOf, PrereleaseVersion, Jobs
    <2>2. \A i \in 1..n : log[i].version.source > 0 => job.at > log[i].version.source
      BY <1>4, LandsNext
    <2> HIDE DEF n, job
    <2>3. BuildsAscend'
      BY <1>1, <1>2, <2>1, <2>2 DEF BuildsAscend, n
    <2>4. ReleasesAscend(log)'
      BY <1>1, <1>2, <2>1 DEF ReleasesAscend, Released, n
    <2> QED
      BY <2>3, <2>4
  <1>5. CASE job.channel = "stable"
    <2>1. /\ log'[n + 1].tag = "latest"
          /\ log'[n + 1].version.source = Released
          /\ log'[n + 1].version.release = main[job.at].release
      BY <1>2, <1>5 DEF TagOf, VersionOf, ReleaseVersion
    <2>2. \A i \in 1..n : log[i].version.source = Released =>
             ReleaseBefore(log[i].version.release, main[job.at].release)
      BY <1>5, LandsLatest
    <2> HIDE DEF n, job
    <2>3. BuildsAscend'
      BY <1>1, <1>2, <2>1 DEF BuildsAscend, Released, n
    <2>4. ReleasesAscend(log)'
      BY <1>1, <1>2, <2>1, <2>2 DEF ReleasesAscend, n
    <2> QED
      BY <2>3, <2>4
  <1> QED
    BY <1>3, <1>4, <1>5

LEMMA LandsIInv == ASSUME IInv, Lands PROVE IInv'
  <1>1. /\ Len(log') = Len(log) + 1 /\ Len(log) \in Nat
        /\ \A i \in 1..Len(log) : log'[i] = log[i]
        /\ log'[Len(log) + 1].version = VersionOf(lane.job)
        /\ log' \in Seq(Entries)
    BY LandsTyped
  <1>2. /\ lane'.stage = "confirm" /\ lane'.job = lane.job /\ lane'.tip = lane.tip
        /\ lane' \in [stage: {"judge", "publish", "confirm"}, job: Jobs, tip: Nat, reads: Nat,
                      whole: BOOLEAN]
        /\ UNCHANGED <<main, shown, late>>
    BY LanePlaced DEF Lands
  <1>3. lane.job \in Jobs /\ lane.job.channel \in {"next", "stable"} /\ lane.job.at \in Positions
    BY LanePlaced DEF Lands, Jobs
  <1>4. Typed'
    BY <1>1, <1>2 DEF IInv, Typed
  <1>5. LogPlaced'
    <2>1. \A i \in 1..Len(log) :
            /\ log[i].version.source \in -2..Tip
            /\ log[i].version.source > 0 =>
                 log[i].version = PrereleaseVersion(log[i].version.source)
      BY DEF IInv, LogPlaced
    <2>2. /\ VersionOf(lane.job).source \in -2..Tip
          /\ VersionOf(lane.job).source > 0 =>
               VersionOf(lane.job) = PrereleaseVersion(VersionOf(lane.job).source)
      BY <1>3 DEF VersionOf, PrereleaseVersion, ReleaseVersion, Released, Positions, Tip
    <2>3. \A i \in 1..Len(log') : i \in 1..Len(log) \/ i = Len(log) + 1
      BY <1>1
    <2> QED
      BY <1>1, <1>2, <2>1, <2>2, <2>3 DEF LogPlaced, PrereleaseVersion, Tip
  <1>6. LaneTyped'
    BY <1>2, LanePlaced DEF LaneTyped, Positions, Lands
  <1>7. Caught'
    <2> SUFFICES ASSUME ~ late
        PROVE /\ In("confirm")' /\ shown' + 1 = Len(log')
              /\ log'[Len(log')].version = VersionOf(lane.job)'
              /\ VersionOf(lane.job)' \notin Versioned(shown)'
      BY <1>2 DEF Caught
    <2>1. shown = Len(log)
      BY LandsJudged
    <2>2. VersionOf(lane.job)' = VersionOf(lane.job)
      BY <1>2 DEF VersionOf, PrereleaseVersion, ReleaseVersion
    <2>3. Versioned(shown)' = Versioned(shown)
      BY <1>1, <1>2, <2>1 DEF Versioned
    <2>4. VersionOf(lane.job) \notin Versioned(shown)
      BY <2>1 DEF Lands, Truth, Packument
    <2> QED
      BY <1>1, <1>2, <2>1, <2>2, <2>3, <2>4 DEF In
  <1>8. Judged'
    BY <1>2 DEF Judged, In
  <1> QED
    BY <1>4, <1>5, <1>6, <1>7, <1>8, LandsAscending DEF IInv

LEMMA PublishIInv == ASSUME IInv, Publish PROVE IInv'
  <1>1. CASE VersionOf(lane.job) \in Truth.versions
    <2>1. lane' = Free /\ UNCHANGED <<main, log, shown, late>> /\ ~ In("confirm")
      BY <1>1 DEF Publish, End, In
    <2> QED
      BY <2>1 DEF IInv, Typed, LogPlaced, Tip, PrereleaseVersion, Ascending, BuildsAscend,
                  LaneTyped, Caught, Judged, In, Free
  <1>2. CASE VersionOf(lane.job) \notin Truth.versions
    <2>1. Lands
      BY <1>2 DEF Publish, Lands, In, Free
    <2> QED
      BY <2>1, LandsIInv
  <1> QED
    BY <1>1, <1>2

LEMMA StepBegun == IInv /\ BegunPlaced /\ [Next]_vars => BegunPlaced'
  <1> SUFFICES ASSUME IInv, BegunPlaced, [Next]_vars PROVE BegunPlaced'
    OBVIOUS
  <1>1. CASE Merge
    <2>1. Len(main) \in Nat /\ Len(main') = Len(main) + 1
      BY <1>1, MergeAppends DEF IInv, Typed
    <2>2. begun' = begun
      BY <1>1 DEF Merge
    <2> QED
      BY <2>1, <2>2 DEF BegunPlaced, Positions
  <1>2. CASE \E job \in Jobs : Admit(job)
    BY <1>2 DEF Admit, Enter, Due, BegunPlaced, Positions
  <1>3. CASE UNCHANGED <<main, begun>>
    BY <1>3 DEF BegunPlaced, Positions
  <1> QED
    BY <1>1, <1>2, <1>3
       DEF Next, LaneStep, Judge, Publish, Confirm, Die, Show, Rerun, Enter, vars

LEMMA StepIInv == IInv /\ BegunPlaced /\ [Next]_vars => IInv'
  <1> SUFFICES ASSUME IInv, BegunPlaced, [Next]_vars PROVE IInv'
    OBVIOUS
  <1>1. CASE Merge
    BY <1>1, MergeIInv
  <1>2. CASE Judge
    BY <1>2, JudgeIInv
  <1>3. CASE Publish
    BY <1>3, PublishIInv
  <1>4. CASE Confirm
    BY <1>4, ConfirmIInv
  <1>5. CASE Die
    BY <1>5, DieIInv
  <1>6. CASE Show
    BY <1>6, ShowIInv
  <1>7. CASE \E job \in Jobs : Admit(job) \/ Rerun(job)
    BY <1>7, EnterIInv DEF Admit, Rerun, Due, BegunPlaced
  <1>8. CASE UNCHANGED vars
    <2>1. Typed' /\ LogPlaced' /\ LaneTyped' /\ Ascending'
      BY <1>8 DEF vars, IInv, Typed, LogPlaced, Tip, PrereleaseVersion, LaneTyped, Positions,
                  Ascending, BuildsAscend
    <2>2. Caught'
      BY <1>8 DEF vars, IInv, Caught, In, VersionOf, PrereleaseVersion, ReleaseVersion, Versioned
    <2>3. Judged'
      <3>1. PICK job, tip, record : job = lane.job /\ tip = lane.tip /\ record = Fetched
        OBVIOUS
      <3>2. job = lane'.job /\ tip = lane'.tip /\ record = Fetched'
        BY <1>8, <3>1 DEF vars, Fetched, Packument, Versioned, TagAt, TagMoves
      <3>3. NpmVerdict(job, tip, record)' = NpmVerdict(job, tip, record)
        BY <1>8, VerdictOfMain DEF vars
      <3> QED
        BY <1>8, <3>1, <3>2, <3>3 DEF vars, IInv, Judged, In
    <2> QED
      BY <2>1, <2>2, <2>3 DEF IInv
  <1> QED
    BY <1>1, <1>2, <1>3, <1>4, <1>5, <1>6, <1>7, <1>8 DEF Next, LaneStep

-----------------------------------------------------------------------------
(* A confirmation raises no false alarm. *)

LEMMA ConfirmsSettled == IInv => NoFalseAlarm
  <1> SUFFICES ASSUME IInv, In("confirm"), ~ late, VersionOf(lane.job) \in Fetched.versions
      PROVE TagVerdict(lane.job, Fetched) # "behind"
    BY DEF NoFalseAlarm, ConfirmPublish
  <1> DEFINE n == Len(log)
             c == lane.job.at
  <1>1. lane # Free /\ n \in Nat /\ n \in 0..n /\ Typed
    BY DEF In, Free, IInv, Typed
  <1>2. shown = n /\ Fetched = Packument(n)
    BY DEF IInv, Caught, Fetched, Packument
  <1>3. lane.job.channel \in {"next", "stable"} /\ c \in Positions
    BY <1>1, LanePlaced DEF Jobs
  <1>4. BuildsAscend /\ ReleasesAscend(log)
    BY DEF IInv, Ascending
  <1>5. PICK i \in 1..n : log[i].version = VersionOf(lane.job)
    BY <1>2 DEF Packument, Versioned
  <1>6. CASE lane.job.channel = "next"
    <2>1. log[i].version.source = c /\ c > 0 /\ VersionOf(lane.job) = PrereleaseVersion(c)
      BY <1>3, <1>5, <1>6 DEF VersionOf, PrereleaseVersion, Positions
    <2>2. Fetched.next \in Versioned(n) /\ Fetched.next.source >= c
      BY <1>1, <1>2, <1>4, <2>1, NextTop DEF Packument
    <2>3. PICK m \in 1..n : Fetched.next = log[m].version
      BY <2>2 DEF Versioned
    <2>4. Fetched.next.source \in -2..Tip
      BY <2>3 DEF IInv, LogPlaced
    <2>5. Fetched.next.source \in Positions
      BY <1>3, <2>2, <2>4 DEF Positions, Tip
    <2>6. Fetched.next = PrereleaseVersion(Fetched.next.source)
      BY <2>3, <2>5 DEF IInv, LogPlaced, Positions
    <2>7. Fetched.versions = Versioned(n)
      BY <1>2 DEF Packument
    <2>8. CASE Fetched.next.source = c
      <3>1. Fetched.next = PrereleaseVersion(c)
        BY <2>6, <2>8
      <3>2. Descendants(c, Fetched) = {}
        <4>1. SUFFICES ASSUME NEW v \in Descendants(c, Fetched) PROVE FALSE
          OBVIOUS
        <4>2. /\ v \in Versioned(n) /\ v.source \in Positions /\ v.source # c /\ c <= v.source
          BY <2>7 DEF Descendants, Placed, IsAncestor
        <4>3. PICK j \in 1..n : v = log[j].version
          BY <4>2 DEF Versioned
        <4>4. Fetched.next.source >= v.source
          BY <1>1, <1>2, <1>4, <4>2, <4>3, NextTop DEF Packument, Positions
        <4> QED
          BY <1>3, <2>8, <4>2, <4>4 DEF Positions
      <3> QED
        BY <1>6, <3>1, <3>2 DEF TagVerdict, NextBehind
    <2>9. CASE Fetched.next.source # c
      <3>1. Fetched.next \in Descendants(c, Fetched)
        BY <1>3, <2>2, <2>5, <2>7, <2>9 DEF Descendants, Placed, IsAncestor, Positions
      <3> QED
        BY <1>6, <3>1 DEF TagVerdict, NextBehind
    <2> QED
      BY <2>8, <2>9
  <1>7. CASE lane.job.channel = "stable"
    <2>1. /\ VersionOf(lane.job) = ReleaseVersion(c)
          /\ log[i].version.source = Released /\ log[i].version.release = main[c].release
      BY <1>5, <1>7 DEF VersionOf, ReleaseVersion
    <2>2. /\ Fetched.latest.source = Released
          /\ \/ Fetched.latest = ReleaseVersion(c)
             \/ ReleaseBefore(main[c].release, Fetched.latest.release)
      BY <1>1, <1>2, <1>4, <1>5, <2>1, LatestTop DEF Packument
    <2> QED
      BY <1>7, <2>2 DEF TagVerdict, StableBehind
  <1> QED
    BY <1>3, <1>6, <1>7

-----------------------------------------------------------------------------
(* No dist-tag moves back. *)

\* A tag of the registry names the newest version of its channel.
Newest ==
  /\ \A i \in 1..Len(log) : log[i].version.source > 0 =>
       Truth.next.source >= log[i].version.source
  /\ \A i \in 1..Len(log) : log[i].version.source = Released =>
       /\ Truth.latest \in Truth.versions /\ Truth.latest.source = Released
       /\ \/ Truth.latest = log[i].version
          \/ ReleaseBefore(log[i].version.release, Truth.latest.release)

LEMMA AscendingNewest == Typed /\ BuildsAscend /\ ReleasesAscend(log) => Newest
  <1> SUFFICES ASSUME Typed, BuildsAscend, ReleasesAscend(log) PROVE Newest
    OBVIOUS
  <1>1. Len(log) \in 0..Len(log)
    BY DEF Typed
  <1> QED
    BY <1>1, NextTop, LatestTop DEF Newest, Truth, Packument

LEMMA AscendingNewestNext == (Typed /\ BuildsAscend /\ ReleasesAscend(log) => Newest)'
  BY AscendingNewest, PTL

LEMMA LogGrows ==
  ASSUME IInv, [Next]_vars
  PROVE  \/ log' = log
         \/ /\ late' = late
            /\ Len(log') = Len(log) + 1
            /\ \A i \in 1..Len(log) : log'[i] = log[i]
  <1>1. CASE Publish /\ log' # log
    <2>1. Lands
      BY <1>1 DEF Publish, Lands, In, Free
    <2> QED
      BY <2>1, LandsTyped DEF Lands
  <1>2. CASE ~ Publish
    BY <1>2 DEF Next, LaneStep, Merge, Judge, Confirm, Die, Show, Admit, Rerun, Enter, vars
  <1> QED
    BY <1>1, <1>2

LEMMA StepForward ==
  ASSUME IInv, IInv', [Next]_vars, ~ late
  PROVE  NextForward /\ LatestForward
  <1>1. Len(log) \in Nat /\ Len(log') \in Nat /\ Len(log') >= Len(log)
    BY LogGrows DEF IInv, Typed
  <1>2. \A i \in 1..Len(log) : i \in 1..Len(log') /\ log'[i] = log[i]
    BY <1>1, LogGrows
  <1>3. BuildsAscend' /\ ReleasesAscend(log)'
    <2>1. CASE log' = log
      BY <2>1 DEF IInv, Ascending, BuildsAscend
    <2>2. CASE late' = late
      BY <2>2 DEF IInv, Ascending
    <2> QED
      BY <2>1, <2>2, LogGrows
  <1>4. Typed /\ Typed' /\ Len(log) \in 0..Len(log) /\ Len(log') \in 0..Len(log')
    BY <1>1 DEF IInv
  <1>5. Newest'
    BY <1>3, <1>4, AscendingNewestNext
  <1>6. NextForward
    <2> SUFFICES ASSUME Truth.next.source > 0 PROVE Truth'.next.source >= Truth.next.source
      BY DEF NextForward
    <2>1. PICK i \in 1..Len(log) : Truth.next = log[i].version
      BY <1>4, TagPlaced DEF Truth, Packument, Unset, Foreign
    <2>2. i \in 1..Len(log') /\ log'[i].version.source > 0
      BY <1>2, <2>1
    <2> QED
      BY <1>2, <1>5, <2>1, <2>2 DEF Newest
  <1>7. LatestForward
    <2> SUFFICES ASSUME Truth.latest.source = Released
        PROVE /\ Truth'.latest.source = Released
              /\ ~ ReleaseBefore(Truth'.latest.release, Truth.latest.release)
      BY DEF LatestForward
    <2>1. PICK i \in 1..Len(log) : Truth.latest = log[i].version
      BY <1>4, TagPlaced DEF Truth, Packument, Unset, Foreign, Released
    <2>2. i \in 1..Len(log') /\ log'[i].version.source = Released
      BY <1>2, <2>1
    <2>3. /\ Truth'.latest \in Truth'.versions /\ Truth'.latest.source = Released
          /\ \/ Truth'.latest = Truth.latest
             \/ ReleaseBefore(Truth.latest.release, Truth'.latest.release)
      BY <1>2, <1>5, <2>1, <2>2 DEF Newest
    <2>4. Truth.latest.release \in Releases /\ Truth'.latest.release \in Releases
      <3>1. \A j \in 1..Len(log') : log'[j] \in Entries
        BY <1>4 DEF Typed
      <3>2. log[i] \in Entries
        BY <1>4 DEF Typed
      <3> QED
        BY <2>1, <2>3, <3>1, <3>2 DEF Truth, Packument, Versioned, Entries, Versions
    <2> QED
      BY <2>3, <2>4, ReleaseOrder
  <1> QED
    BY <1>6, <1>7

-----------------------------------------------------------------------------
(* What main's tip ships stays what next names.  None of this depends on     *)
(* whether a job ended unsettled.                                            *)

\* A job judged on all there was misses at most its own publish since.
WholeRecord ==
  lane # Free /\ lane.whole =>
    \/ shown = Len(log)
    \/ /\ In("confirm") /\ shown + 1 = Len(log)
       /\ log[Len(log)].version = VersionOf(lane.job)
       /\ VersionOf(lane.job) \notin Versioned(shown)

\* A job is of a commit its checkout of main has.
TipAhead == lane # Free => lane.job.at <= lane.tip

\* Once the run of the tip came through, the record names a build like it, all
\* it misses are releases, and no build of main is on its way.
Kept ==
  caughtUp =>
    /\ Placed(Fetched.next) /\ Surface(Fetched.next.source) = Surface(Tip)
    /\ \A j \in shown + 1..Len(log) : log[j].tag # "next"
    /\ lane # Free => lane.tip = Tip /\ (In("publish") => lane.job.channel = "stable")

TipInv == WholeRecord /\ TipAhead /\ Kept

\* Releases do not move next.
LEMMA NextUnmoved ==
  ASSUME Typed, NEW k \in 0..Len(log), NEW n \in k..Len(log),
         \A j \in k + 1..n : log[j].tag # "next"
  PROVE  TagAt(n, "next") = TagAt(k, "next")
  <1>1. k \in Nat /\ n \in Nat /\ k <= n
    BY DEF Typed
  <1>2. \A i \in 1..n : i \in 1..k \/ i \in k + 1..n
    BY <1>1
  <1>3. \A i \in 1..k : i \in 1..n
    BY <1>1
  <1>4. TagMoves(n, "next") = TagMoves(k, "next")
    BY <1>2, <1>3 DEF TagMoves
  <1> QED
    BY <1>4 DEF TagAt

LEMMA KeptShips == IInv /\ TipInv => TipShipped
  <1> SUFFICES ASSUME IInv, TipInv, caughtUp PROVE ShipsTip
    BY DEF TipShipped
  <1>1. shown \in 0..Len(log) /\ Len(log) \in shown..Len(log) /\ Typed
    BY DEF IInv, Typed
  <1>2. Truth.next = Fetched.next
    BY <1>1, NextUnmoved DEF TipInv, Kept, Truth, Fetched, Packument
  <1> QED
    BY <1>2 DEF TipInv, Kept, ShipsTip

\* What a record showed of next it shows as long as those moves are there.
LEMMA RecordKept ==
  ASSUME Typed, NEW k \in 0..Len(log), \A i \in 1..k : log'[i] = log[i]
  PROVE  TagAt(k, "next")' = TagAt(k, "next") /\ Versioned(k)' = Versioned(k)
  <1>1. k \in Nat /\ TagMoves(k, "next") \in SUBSET (1 .. k)
    BY DEF Typed, TagMoves
  <1>2. TagMoves(k, "next")' = TagMoves(k, "next")
    BY DEF TagMoves
  <1>3. TagMoves(k, "next") # {} => Last(TagMoves(k, "next")) \in 1..k
    BY <1>1, LastIsLast
  <1> QED
    BY <1>2, <1>3 DEF TagAt, Versioned

\* A step that changes neither main nor the record keeps what it names.
LEMMA KeptRecord ==
  ASSUME IInv, TipInv, main' = main, shown' = shown, Len(log') >= Len(log),
         \A i \in 1..Len(log) : log'[i] = log[i], caughtUp
  PROVE  /\ Placed(Fetched.next)' /\ (Surface(Fetched.next.source) = Surface(Tip))'
         /\ Fetched'.next = Fetched.next
  <1>1. PICK k \in 0..Len(log) : k = shown
    BY DEF IInv, Typed
  <1>2. \A i \in 1..k : i \in 1..Len(log)
    BY DEF IInv, Typed
  <1>3. TagAt(k, "next")' = TagAt(k, "next")
    BY <1>2, RecordKept DEF IInv
  <1>4. Fetched'.next = Fetched.next
    BY <1>1, <1>3 DEF Fetched, Packument
  <1> QED
    BY <1>4 DEF TipInv, Kept, Placed, Positions, Surface, Tip

\* The record names a build like the tip's: no build of main is published.
LEMMA KeptVerdict ==
  ASSUME IInv, TipInv, caughtUp, lane # Free, lane.job.channel = "next"
  PROVE  NpmVerdict(lane.job, lane.tip, Fetched) # "publish"
  <1> DEFINE c == lane.job.at
  <1>1. /\ Placed(Fetched.next) /\ Surface(Fetched.next.source) = Surface(Tip) /\ lane.tip = Tip
    BY DEF TipInv, Kept
  <1>2. c \in Positions
    BY LanePlaced
  <1>3. Fetched.next \in Fetched.versions
    <2>1. shown \in 0..Len(log) /\ Typed
      BY DEF IInv, Typed
    <2>2. Unset.source \notin Positions
      BY DEF Unset, Foreign, Positions
    <2> QED
      BY <1>1, <2>1, <2>2, TagPlaced DEF Fetched, Packument, Versioned, Placed
  <1>4. CASE IsAncestor(Fetched.next.source, c)
    <2>1. ~ ShippedSurfaceGate(c, lane.tip, Fetched.next)
      BY <1>1, <1>4 DEF ShippedSurfaceGate
    <2> QED
      BY <1>3, <2>1 DEF NpmVerdict, NextPublishVerdict
  <1>5. CASE ~ IsAncestor(Fetched.next.source, c)
    <2>1. Fetched.next \in Descendants(c, Fetched)
      BY <1>1, <1>2, <1>3, <1>5 DEF Descendants, IsAncestor, Placed, Positions
    <2> QED
      BY <1>3, <2>1 DEF NpmVerdict, NextPublishVerdict
  <1> QED
    BY <1>4, <1>5

\* Nothing placed descends from the tip.
LEMMA TipLast ==
  ASSUME Typed, Tip \in Positions, NEW record
  PROVE  Descendants(Tip, record) = {}
  <1> SUFFICES ASSUME NEW v \in Descendants(Tip, record) PROVE FALSE
    OBVIOUS
  <1>1. v.source \in 1..Len(main) /\ v.source # Len(main) /\ Len(main) <= v.source
    BY DEF Descendants, Placed, IsAncestor, Positions, Tip
  <1> QED
    BY <1>1 DEF Typed

LEMMA JudgeTip == ASSUME IInv, TipInv, Judge PROVE TipInv'
  <1> DEFINE verdict == NpmVerdict(lane.job, lane.tip, Fetched)
             stage == IF verdict = "publish" THEN "publish" ELSE "confirm"
             whole == shown = Len(log)
  <1>1. /\ In("judge") /\ lane # Free
        /\ UNCHANGED <<main, log, shown>>
    BY DEF Judge, In, Free
  <1>2. CASE verdict \in {"skip", "stop"}
    <2>1. lane' = Free
      BY <1>2 DEF Judge, End
    <2>2. CASE caughtUp
      BY <1>1, <2>1, <2>2, KeptRecord DEF TipInv, WholeRecord, TipAhead, Kept, IInv, Typed
    <2>3. CASE ~ caughtUp /\ caughtUp'
      <3>1. /\ verdict = "skip" /\ shown = Len(log)
            /\ lane.job = [channel |-> "next", at |-> Tip]
        BY <1>2, <2>3 DEF Judge, End
      <3>2. lane.tip = Tip /\ Tip \in Positions
        <4>1. lane.tip \in Positions /\ Tip <= lane.tip
          BY <1>1, <3>1, LanePlaced DEF TipInv, TipAhead
        <4>2. Tip \in Nat \ {0}
          BY DEF IInv, Typed, Tip
        <4> QED
          BY <4>1, <4>2 DEF Positions, Tip
      <3>3. Descendants(Tip, Fetched) = {}
        BY <3>2, TipLast DEF IInv
      <3>4. ~ ShippedSurfaceGate(Tip, Tip, Fetched.next)
        BY <3>1, <3>2, <3>3 DEF NpmVerdict, NextPublishVerdict
      <3>5. Placed(Fetched.next) /\ Surface(Fetched.next.source) = Surface(Tip)
        BY <3>4 DEF ShippedSurfaceGate
      <3>6. Fetched' = Fetched
        BY <1>1 DEF Fetched, Packument, Versioned, TagAt, TagMoves
      <3>7. shown + 1..Len(log) = {}
        BY <3>1 DEF IInv, Typed
      <3> QED
        BY <1>1, <2>1, <3>5, <3>6, <3>7
           DEF TipInv, WholeRecord, TipAhead, Kept, Placed, Positions, Surface, Tip
    <2> QED
      BY <2>1, <2>2, <2>3 DEF TipInv, WholeRecord, TipAhead, Kept
  <1>3. CASE verdict \notin {"skip", "stop"}
    <2>1. lane' = [lane EXCEPT !.stage = stage, !.whole = whole] /\ caughtUp' = caughtUp
      BY <1>3 DEF Judge
    <2>2. /\ lane'.job = lane.job /\ lane'.tip = lane.tip
          /\ lane'.stage = stage /\ lane'.whole = whole
      BY <1>1, <2>1, LanePlaced
    <2>3. WholeRecord' /\ TipAhead'
      BY <1>1, <2>2 DEF TipInv, WholeRecord, TipAhead
    <2>4. caughtUp /\ stage = "publish" => lane.job.channel = "stable"
      <3>1. lane.job.channel \in {"next", "stable"}
        BY <1>1, LanePlaced DEF Jobs
      <3> QED
        BY <1>1, <3>1, KeptVerdict
    <2>5. Len(log') >= Len(log) /\ \A i \in 1..Len(log) : log'[i] = log[i]
      BY <1>1 DEF IInv, Typed
    <2> HIDE DEF stage
    <2>6. Kept'
      BY <1>1, <2>1, <2>2, <2>4, <2>5, KeptRecord DEF TipInv, Kept, In, Tip
    <2> QED
      BY <2>3, <2>6 DEF TipInv
  <1> QED
    BY <1>2, <1>3

LEMMA PublishTip == ASSUME IInv, TipInv, Publish PROVE TipInv'
  <1>1. CASE VersionOf(lane.job) \in Truth.versions
    <2>1. lane' = Free /\ UNCHANGED <<main, log, shown>>
      BY <1>1 DEF Publish, End
    <2>2. caughtUp' => caughtUp
      BY <1>1 DEF Publish, End
    <2>3. Len(log') >= Len(log) /\ \A i \in 1..Len(log) : log'[i] = log[i]
      BY <2>1 DEF IInv, Typed
    <2> QED
      BY <2>1, <2>2, <2>3, KeptRecord DEF TipInv, WholeRecord, TipAhead, Kept
  <1>2. CASE VersionOf(lane.job) \notin Truth.versions
    <2>1. Lands /\ caughtUp' = caughtUp
      BY <1>2 DEF Publish, Lands, In, Free
    <2>2. /\ Len(log') = Len(log) + 1 /\ Len(log) \in Nat
          /\ \A i \in 1..Len(log) : log'[i] = log[i]
          /\ log'[Len(log) + 1].version = VersionOf(lane.job)
          /\ log'[Len(log) + 1].tag = TagOf(lane.job.channel)
      BY <2>1, LandsTyped
    <2>3. /\ lane # Free /\ lane'.stage = "confirm" /\ lane'.job = lane.job
          /\ lane'.tip = lane.tip /\ lane'.whole = lane.whole /\ In("publish")
          /\ UNCHANGED <<main, shown>>
      BY <2>1, LanePlaced DEF Lands
    <2>4. WholeRecord'
      <3> SUFFICES ASSUME lane.whole
          PROVE /\ In("confirm")' /\ shown' + 1 = Len(log')
                /\ log'[Len(log')].version = VersionOf(lane.job)'
                /\ VersionOf(lane.job)' \notin Versioned(shown)'
        BY <2>3 DEF WholeRecord
      <3>1. shown = Len(log)
        BY <2>3 DEF TipInv, WholeRecord, In
      <3>2. VersionOf(lane.job)' = VersionOf(lane.job)
        BY <2>3 DEF VersionOf, PrereleaseVersion, ReleaseVersion
      <3>3. Versioned(shown)' = Versioned(shown)
        BY <2>2, <2>3, <3>1 DEF Versioned
      <3>4. VersionOf(lane.job) \notin Versioned(shown)
        BY <2>1, <3>1 DEF Lands, Truth, Packument
      <3> QED
        BY <2>2, <2>3, <3>1, <3>2, <3>3, <3>4 DEF In
    <2>5. TipAhead'
      BY <2>3 DEF TipInv, TipAhead
    <2>6. Kept'
      <3> SUFFICES ASSUME caughtUp PROVE Kept'
        BY <2>1 DEF Kept
      <3>1. /\ \A j \in shown + 1..Len(log) : log[j].tag # "next"
            /\ lane.tip = Tip /\ lane.job.channel = "stable"
        BY <2>3 DEF TipInv, Kept
      <3>2. \A j \in shown + 1..Len(log') : j \in shown + 1..Len(log) \/ j = Len(log) + 1
        BY <2>2 DEF IInv, Typed
      <3>3. \A j \in shown + 1..Len(log) : j \in 1..Len(log)
        BY DEF IInv, Typed
      <3>4. \A j \in shown' + 1..Len(log') : log'[j].tag # "next"
        BY <2>2, <2>3, <3>1, <3>2, <3>3 DEF TagOf
      <3> QED
        BY <2>2, <2>3, <3>1, <3>4, KeptRecord DEF Kept, In, Tip
    <2> QED
      BY <2>4, <2>5, <2>6 DEF TipInv
  <1> QED
    BY <1>1, <1>2

LEMMA ConfirmTip == ASSUME IInv, TipInv, Confirm PROVE TipInv'
  <1> DEFINE outcome == ConfirmPublish(lane.job, lane.reads + 1, Fetched)
  <1>1. /\ In("confirm") /\ lane # Free
        /\ UNCHANGED <<main, log, shown>>
    BY DEF Confirm, In, Free
  <1>2. Len(log') >= Len(log) /\ \A i \in 1..Len(log) : log'[i] = log[i]
    BY <1>1 DEF IInv, Typed
  <1>3. CASE outcome = "again"
    <2>1. /\ lane' = [lane EXCEPT !.reads = IF @ < MaxReads THEN @ + 1 ELSE @]
          /\ caughtUp' = caughtUp
      BY <1>3 DEF Confirm
    <2>2. /\ lane'.job = lane.job /\ lane'.stage = lane.stage
          /\ lane'.tip = lane.tip /\ lane'.whole = lane.whole
      BY <1>1, <2>1, LanePlaced
    <2>3. VersionOf(lane.job)' = VersionOf(lane.job)
      BY <1>1, <2>2 DEF VersionOf, PrereleaseVersion, ReleaseVersion
    <2>4. WholeRecord' /\ TipAhead'
      BY <1>1, <2>2, <2>3 DEF TipInv, WholeRecord, TipAhead, In, Versioned
    <2>5. Kept'
      BY <1>1, <1>2, <2>1, <2>2, KeptRecord DEF TipInv, Kept, In, Tip
    <2> QED
      BY <2>4, <2>5 DEF TipInv
  <1>4. CASE outcome # "again"
    <2>1. lane' = Free
      BY <1>4 DEF Confirm, End
    <2>2. CASE caughtUp
      BY <1>1, <1>2, <2>1, <2>2, KeptRecord DEF TipInv, WholeRecord, TipAhead, Kept
    <2>3. CASE ~ caughtUp /\ caughtUp'
      <3>1. /\ outcome \in {"settled", "skip"} /\ lane.whole
            /\ lane.job = [channel |-> "next", at |-> Tip]
        BY <1>4, <2>3 DEF Confirm, End
      <3>2. VersionOf(lane.job) \in Fetched.versions /\ TagVerdict(lane.job, Fetched) # "behind"
        BY <3>1 DEF ConfirmPublish
      <3>3. shown = Len(log)
        BY <1>1, <3>1, <3>2 DEF TipInv, WholeRecord, Fetched, Packument
      <3>4. Tip \in Positions
        BY DEF IInv, Typed, Tip, Positions
      <3>5. Descendants(Tip, Fetched) = {}
        BY <3>4, TipLast DEF IInv
      <3>6. Fetched.next = PrereleaseVersion(Tip)
        BY <3>1, <3>2, <3>5 DEF TagVerdict, NextBehind
      <3>7. Placed(Fetched.next) /\ Surface(Fetched.next.source) = Surface(Tip)
        BY <3>4, <3>6 DEF PrereleaseVersion, Placed
      <3>8. Fetched' = Fetched
        BY <1>1 DEF Fetched, Packument, Versioned, TagAt, TagMoves
      <3>9. shown + 1..Len(log) = {}
        BY <3>3 DEF IInv, Typed
      <3> QED
        BY <1>1, <2>1, <3>7, <3>8, <3>9
           DEF TipInv, WholeRecord, TipAhead, Kept, Placed, Positions, Surface, Tip
    <2> QED
      BY <2>1, <2>2, <2>3 DEF TipInv, WholeRecord, TipAhead, Kept
  <1> QED
    BY <1>3, <1>4

LEMMA ShowTip == ASSUME IInv, TipInv, Show PROVE TipInv'
  <1>1. /\ shown' \in shown + 1..Len(log) /\ UNCHANGED <<main, lane, log, caughtUp>>
        /\ shown \in Nat /\ Len(log) \in Nat /\ shown \in 0..Len(log)
    BY DEF Show, IInv, Typed
  <1>2. WholeRecord' /\ TipAhead'
    BY <1>1 DEF TipInv, WholeRecord, TipAhead
  <1>3. Kept'
    <2> SUFFICES ASSUME caughtUp PROVE Kept'
      BY <1>1 DEF Kept
    <2>1. \A j \in shown + 1..Len(log) : log[j].tag # "next"
      BY DEF TipInv, Kept
    <2>2. PICK n \in shown + 1..Len(log) : n = shown'
      BY <1>1
    <2>3. n \in shown..Len(log) /\ \A j \in shown + 1..n : j \in shown + 1..Len(log)
      BY <1>1, <2>2
    <2>4. TagAt(n, "next") = TagAt(shown, "next")
      BY <1>1, <2>1, <2>3, NextUnmoved DEF IInv
    <2>5. TagAt(n, "next")' = TagAt(n, "next")
      BY <1>1 DEF TagAt, TagMoves
    <2>6. Fetched'.next = Fetched.next
      BY <2>2, <2>4, <2>5 DEF Fetched, Packument
    <2>7. \A j \in n + 1..Len(log) : j \in shown + 1..Len(log)
      BY <1>1, <2>3
    <2> QED
      BY <1>1, <2>1, <2>2, <2>6, <2>7 DEF TipInv, Kept, Placed, Positions, Surface, Tip, In
  <1> QED
    BY <1>2, <1>3 DEF TipInv

LEMMA StepTip == IInv /\ BegunPlaced /\ TipInv /\ [Next]_vars => TipInv'
  <1> SUFFICES ASSUME IInv, BegunPlaced, TipInv, [Next]_vars PROVE TipInv'
    OBVIOUS
  <1>1. CASE Merge
    <2>1. UNCHANGED <<lane, log, shown>> /\ ~ caughtUp'
      BY <1>1 DEF Merge
    <2>2. \A c \in Positions : main'[c] = main[c]
      BY <1>1, MergeAppends DEF IInv
    <2>3. lane # Free => VersionOf(lane.job)' = VersionOf(lane.job)
      BY <2>1, <2>2, LanePlaced DEF VersionOf, PrereleaseVersion, ReleaseVersion
    <2> QED
      BY <2>1, <2>3 DEF TipInv, WholeRecord, TipAhead, Kept, In, Versioned
  <1>2. CASE Judge
    BY <1>2, JudgeTip
  <1>3. CASE Publish
    BY <1>3, PublishTip
  <1>4. CASE Confirm
    BY <1>4, ConfirmTip
  <1>5. CASE Show
    BY <1>5, ShowTip
  <1>6. CASE Die
    <2>1. lane' = Free /\ UNCHANGED <<main, log, shown>>
      BY <1>6 DEF Die, End
    <2>2. caughtUp' => caughtUp
      BY <1>6 DEF Die, End
    <2>3. Len(log') >= Len(log) /\ \A i \in 1..Len(log) : log'[i] = log[i]
      BY <2>1 DEF IInv, Typed
    <2> QED
      BY <2>1, <2>2, <2>3, KeptRecord DEF TipInv, WholeRecord, TipAhead, Kept
  <1>7. CASE \E job \in Jobs : Admit(job) \/ Rerun(job)
    <2>1. PICK job \in Jobs : Enter(job) /\ job.at \in Positions
      BY <1>7 DEF Admit, Rerun, Due, BegunPlaced
    <2>2. /\ lane' = [stage |-> "judge", job |-> job, tip |-> Tip, reads |-> 0, whole |-> FALSE]
          /\ UNCHANGED <<main, log, shown, caughtUp>>
      BY <2>1 DEF Enter
    <2>3. Len(log') >= Len(log) /\ \A i \in 1..Len(log) : log'[i] = log[i]
      BY <2>2 DEF IInv, Typed
    <2>4. job.at <= Tip
      BY <2>1 DEF Positions, Tip
    <2> QED
      BY <2>2, <2>3, <2>4, KeptRecord DEF TipInv, WholeRecord, TipAhead, Kept, In, Tip
  <1>8. CASE UNCHANGED vars
    <2>1. UNCHANGED <<main, log, shown, lane, caughtUp>>
      BY <1>8 DEF vars
    <2>2. Len(log') >= Len(log) /\ \A i \in 1..Len(log) : log'[i] = log[i]
      BY <2>1 DEF IInv, Typed
    <2>3. VersionOf(lane.job)' = VersionOf(lane.job)
      BY <2>1 DEF VersionOf, PrereleaseVersion, ReleaseVersion
    <2> QED
      BY <2>1, <2>2, <2>3, KeptRecord
         DEF TipInv, WholeRecord, TipAhead, Kept, In, Tip, Versioned
  <1> QED
    BY <1>1, <1>2, <1>3, <1>4, <1>5, <1>6, <1>7, <1>8 DEF Next, LaneStep

-----------------------------------------------------------------------------

LEMMA Invariance == Spec => [](IInv /\ BegunPlaced)
  <1>1. Init => BegunPlaced
    BY DEF Init, BegunPlaced
  <1> QED
    BY <1>1, InitIInv, StepIInv, StepBegun, PTL DEF Spec

\* While no job ended before its publish showed, a verdict read under the lane
\* holds until the publish lands, though the registry has no compare-and-set.
THEOREM VerdictsHold == Spec => []VerdictStands
  BY Invariance, JudgedStands, PTL

\* Under the same condition no confirmation fails a job.
THEOREM AlarmsAreReal == Spec => []NoFalseAlarm
  BY Invariance, ConfirmsSettled, PTL

\* Under the same condition neither dist-tag moves back, in whatever order, and
\* however often, the jobs run.
THEOREM TagsNeverBack == Spec => TagsForward
  <1>1. IInv /\ IInv' /\ [Next]_vars => [~ late => NextForward /\ LatestForward]_vars
    BY StepForward
  <1> QED
    BY <1>1, Invariance, PTL DEF Spec, TagsForward

\* Once the run of main's tip came through on a complete record, next ships what
\* main ships until something more is merged, whatever jobs run or die meanwhile.
THEOREM TipStays == Spec => []TipShipped
  <1>1. Init => TipInv
    BY DEF Init, TipInv, WholeRecord, TipAhead, Kept
  <1> QED
    BY <1>1, StepTip, KeptShips, Invariance, PTL DEF Spec

=============================================================================
