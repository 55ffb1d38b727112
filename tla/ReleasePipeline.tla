--------------------------- MODULE ReleasePipeline ---------------------------
(***************************************************************************)
(* How builds of main reach the npm registry                               *)
(* (.github/scripts/release-pipeline.ts, with the jobs of post-green.yml   *)
(* and update-release.yml that call it).  Two channels publish one         *)
(* package: every green commit may move the dist-tag next, every release   *)
(* tag moves latest.  Their jobs finish in any order, may be run again,    *)
(* and share one lane; the registry has no compare-and-set and shows a     *)
(* publish only some time after it landed, so a job judges on what the     *)
(* record shows and holds the lane until it shows its own publish.         *)
(***************************************************************************)
EXTENDS Integers, Sequences, FiniteSets

CONSTANTS
  Codes,        \* contents the shipped files (isShipped) can have
  Bumps,        \* how a release may raise the version
  FirstCode, FirstRelease, \* what the first commit ships, the release it carries
  InitialLogs,  \* what the registry may hold to begin with
  MaxCommits,   \* bound on main
  MaxReruns,    \* bound on jobs run again
  MaxReads,     \* CONFIRM_READS
  MaxLost       \* bound on jobs that die on the way

\* Sources of versions that are no position on main.
Released == 0   \* a release: X.Y.Z, no sha
Stray    == -1  \* its sha is no commit of main
Foreign  == -2  \* not a version this pipeline mints

Releases == Nat \X Nat \X Nat
Versions == [release: Releases, source: -2..MaxCommits]
Entries  == [version: Versions, tag: {"next", "latest"}]

ASSUME BoundsAssumption ==
  /\ MaxCommits \in Nat \ {0} /\ MaxReads \in Nat \ {0}
  /\ MaxReruns \in Nat /\ MaxLost \in Nat
ASSUME ContentAssumption ==
  /\ FirstCode \in Codes /\ FirstRelease \in Releases
  /\ Bumps \subseteq {"major", "minor", "patch"}
  /\ InitialLogs \subseteq {log \in Seq(Entries) :
       \A i \in 1..Len(log) : log[i].version.source < 1}

VARIABLES
  main,     \* the commits of main: what they ship, which release they carry
  begun,    \* jobs the lane ever let in
  lane,     \* the job that holds it
  log,      \* every move of a dist-tag the registry made, in order
  shown,    \* how many of them the record it answers with covers
  reruns,   \* jobs run again so far
  lost,     \* jobs that died so far
  late,     \* some job ended before the record showed its publish
  caughtUp  \* the run of main's tip ended well, judged on a full record

vars == <<main, begun, lane, log, shown, reruns, lost, late, caughtUp>>

-----------------------------------------------------------------------------
(* Main and the versions it mints *)

Positions == 1..Len(main)
Tip == Len(main)
Jobs == [channel: {"next", "stable"}, at: 1..MaxCommits]

\* What a build of commit c packs.  package.json is one of the shipped files,
\* so a release changes it.
Surface(c) == main[c]

NextPatch(r) == <<r[1], r[2], r[3] + 1>>
Bumped(r, kind) ==
  CASE kind = "major" -> <<r[1] + 1, 0, 0>>
    [] kind = "minor" -> <<r[1], r[2] + 1, 0>>
    [] kind = "patch" -> NextPatch(r)

PrereleaseVersion(c) == [release |-> NextPatch(main[c].release), source |-> c]

ReleaseVersion(c) == [release |-> main[c].release, source |-> Released]

VersionOf(job) ==
  IF job.channel = "next" THEN PrereleaseVersion(job.at) ELSE ReleaseVersion(job.at)

\* The order npm puts releases in.
ReleaseBefore(r, s) ==
  \/ r[1] < s[1]
  \/ r[1] = s[1] /\ r[2] < s[2]
  \/ r[1] = s[1] /\ r[2] = s[2] /\ r[3] < s[3]

\* Releases took latest one above the other, and none was displaced but by a release.
ReleasesAscend(entries) ==
  \A i \in 1..Len(entries) : entries[i].version.source = Released =>
    /\ entries[i].tag = "latest"
    /\ \A j \in i + 1..Len(entries) : entries[j].tag = "latest" =>
         /\ entries[j].version.source = Released
         /\ ReleaseBefore(entries[i].version.release, entries[j].version.release)

ASSUME OrderAssumption == \A entries \in InitialLogs : ReleasesAscend(entries)

-----------------------------------------------------------------------------
(* The registry.  Its record after k moves; a package it has never seen has *)
(* none, and the first publish takes latest whatever tag it asked for.      *)

Versioned(k) == {log[i].version : i \in 1..k}
TagMoves(k, tag) == {i \in 1..k : log[i].tag = tag \/ (tag = "latest" /\ i = 1)}
Last(S) == CHOOSE i \in S : \A j \in S : j <= i
Unset == [release |-> FirstRelease, source |-> Foreign]
TagAt(k, tag) ==
  IF TagMoves(k, tag) = {} THEN Unset ELSE log[Last(TagMoves(k, tag))].version

Packument(k) ==
  [versions |-> Versioned(k), next |-> TagAt(k, "next"), latest |-> TagAt(k, "latest")]

\* A read reaches the origin: it is as fresh as the registry's record.
Fetched == Packument(shown)
Truth == Packument(Len(log))

-----------------------------------------------------------------------------
(* Verdicts *)

Placed(v) == v.source \in Positions
IsAncestor(c, d) == c <= d
\* Seeded fault: a run compares itself with what latest names.
TaggedDescendants(c, record) ==
  {v \in {record.latest} : Placed(v) /\ v.source > c}

Descendants(c, record) ==
  {v \in record.versions : Placed(v) /\ v.source # c /\ IsAncestor(c, v.source)}

\* Seeded fault: main's tip is not looked at.
UntippedGate(c, tip, next) ==
  \/ ~ Placed(next)
  \/ ~ IsAncestor(next.source, c)
  \/ Surface(c) # Surface(next.source)

\* Whether the source changed what ships since the build next names, and
\* main's tip, as the checkout has it, has not undone that.
ShippedSurfaceGate(c, tip, next) ==
  \/ ~ Placed(next)
  \/ ~ IsAncestor(next.source, c)
  \/ /\ Surface(c) # Surface(next.source)
     /\ \/ tip = c
        \/ Surface(tip) # Surface(next.source)

NextPublishVerdict(c, tip, record) ==
  IF record.versions = {} THEN "publish"
  ELSE IF PrereleaseVersion(c) \in record.versions THEN "present"
  ELSE IF Descendants(c, record) # {} THEN "skip"
  ELSE IF ShippedSurfaceGate(c, tip, record.next) THEN "publish" ELSE "skip"

StablePublishVerdict(c, record) ==
  IF record.versions = {} THEN "publish"
  ELSE IF ReleaseVersion(c) \in record.versions THEN "present"
  ELSE IF record.latest.source = Foreign THEN "stop"
  ELSE IF /\ record.latest.source = Released
          /\ ReleaseBefore(main[c].release, record.latest.release) THEN "skip"
  ELSE "publish"

NpmVerdict(job, tip, record) ==
  IF job.channel = "next"
  THEN NextPublishVerdict(job.at, tip, record)
  ELSE StablePublishVerdict(job.at, record)

-----------------------------------------------------------------------------
(* Confirmation *)

\* Seeded fault: only this run's own version counts as confirmed.
OwnNextBehind(c, record) == record.next # PrereleaseVersion(c)

NextBehind(c, record) ==
  IF Descendants(c, record) = {}
  THEN record.next # PrereleaseVersion(c)
  ELSE record.next \notin Descendants(c, record)

StableBehind(c, record) ==
  ~ /\ record.latest.source = Released
    /\ \/ record.latest = ReleaseVersion(c)
       \/ ReleaseBefore(main[c].release, record.latest.release)

TagVerdict(job, record) ==
  IF IF job.channel = "next" THEN NextBehind(job.at, record) ELSE StableBehind(job.at, record)
  THEN "behind" ELSE "settled"

\* Seeded fault: what was published counts as shown.
ImpatientConfirm(job, n, record) ==
  IF VersionOf(job) \in record.versions THEN TagVerdict(job, record) ELSE "settled"

\* Seeded fault: the reads are not counted.
EndlessConfirm(job, n, record) ==
  IF VersionOf(job) \in record.versions THEN TagVerdict(job, record) ELSE "again"

\* What read number n of the record says of a job: its verdict on the tag, or
\* to look again, or that the reads are used up.
ConfirmPublish(job, n, record) ==
  IF VersionOf(job) \in record.versions THEN TagVerdict(job, record)
  ELSE IF n >= MaxReads THEN "unsettled" ELSE "again"

-----------------------------------------------------------------------------
(* Steps *)

Free == [stage |-> "free"]
In(stage) == lane.stage = stage

Init ==
  /\ main = <<[code |-> FirstCode, release |-> FirstRelease]>>
  /\ begun = {} /\ lane = Free
  /\ log \in InitialLogs /\ shown = Len(log)
  /\ reruns = 0 /\ lost = 0
  /\ late = FALSE /\ caughtUp = FALSE

\* A change is merged, which may leave what ships as it was, or undo what an
\* earlier merge changed; or a release is, which raises the version alone.
Merge ==
  /\ Tip < MaxCommits
  /\ \/ \E code \in Codes : main' = Append(main, [main[Tip] EXCEPT !.code = code])
     \/ \E kind \in Bumps :
          main' = Append(main, [main[Tip] EXCEPT !.release = Bumped(@, kind)])
  /\ caughtUp' = FALSE
  /\ UNCHANGED <<begun, lane, log, shown, reruns, lost, late>>

\* CI calls the job of a green commit, or of a release tag, some time later;
\* of the jobs that wait the lane lets one in, in no promised order, and that
\* job checks out main.
Due(job) ==
  /\ job.at \in Positions
  /\ job.channel = "stable" =>
       job.at > 1 /\ main[job.at].release # main[job.at - 1].release
Enter(job) ==
  /\ In("free")
  /\ lane' = [stage |-> "judge", job |-> job, tip |-> Tip, reads |-> 0, whole |-> FALSE]
  /\ UNCHANGED <<main, log, shown, lost, late, caughtUp>>

Admit(job) ==
  /\ Due(job) /\ job \notin begun
  /\ Enter(job)
  /\ begun' = begun \cup {job}
  /\ UNCHANGED reruns

Rerun(job) ==
  /\ job \in begun /\ reruns < MaxReruns
  /\ Enter(job)
  /\ reruns' = reruns + 1
  /\ UNCHANGED begun

\* A job ends and leaves the lane; `whole` is whether it judged on all there was.
End(outcome, whole) ==
  /\ lane' = Free
  /\ caughtUp' = \/ caughtUp
                 \/ /\ outcome \in {"settled", "skip"} /\ whole
                    /\ lane.job = [channel |-> "next", at |-> Tip]

\* The verdict is read under the lane.
Judge ==
  /\ In("judge")
  /\ LET verdict == NpmVerdict(lane.job, lane.tip, Fetched)
         whole == shown = Len(log)
         stage == IF verdict = "publish" THEN "publish" ELSE "confirm"
     IN  IF verdict \in {"skip", "stop"}
         THEN End(verdict, whole)
         ELSE /\ lane' = [lane EXCEPT !.stage = stage, !.whole = whole]
              /\ UNCHANGED caughtUp
  /\ UNCHANGED <<main, begun, log, shown, reruns, lost, late>>

\* npm publish: the version lands and moves the channel's dist-tag, unless the
\* registry has it already, which fails the job.
TagOf(channel) == IF channel = "next" THEN "next" ELSE "latest"
Publish ==
  /\ In("publish")
  /\ IF VersionOf(lane.job) \in Truth.versions
     THEN /\ End("refused", lane.whole)
          /\ UNCHANGED log
     ELSE /\ lane' = [lane EXCEPT !.stage = "confirm"]
          /\ log' = Append(log, [version |-> VersionOf(lane.job),
                                 tag |-> TagOf(lane.job.channel)])
          /\ UNCHANGED caughtUp
  /\ UNCHANGED <<main, begun, shown, reruns, lost, late>>

\* One read of confirmPublish.
Confirm ==
  /\ In("confirm")
  /\ LET outcome == ConfirmPublish(lane.job, lane.reads + 1, Fetched)
     IN  /\ IF outcome = "again"
            THEN /\ lane' = [lane EXCEPT !.reads = IF @ < MaxReads THEN @ + 1 ELSE @]
                 /\ UNCHANGED caughtUp
            ELSE End(outcome, lane.whole)
         /\ late' = (late \/ outcome = "unsettled")
  /\ UNCHANGED <<main, begun, log, shown, reruns, lost>>

\* A job dies: the runner, the timeout of the job, an error of git, npm or the
\* registry.  Whatever it published stays.
Die ==
  /\ ~ In("free") /\ lost < MaxLost
  /\ lost' = lost + 1 /\ End("died", FALSE)
  /\ late' = (late \/ VersionOf(lane.job) \in Truth.versions \ Fetched.versions)
  /\ UNCHANGED <<main, begun, log, shown, reruns>>

\* The registry comes to show more of what landed.
Show ==
  /\ \E k \in shown + 1..Len(log) : shown' = k
  /\ UNCHANGED <<main, begun, lane, log, reruns, lost, late, caughtUp>>

LaneStep == Judge \/ Publish \/ Confirm
Next ==
  \/ Merge \/ LaneStep \/ Die \/ Show
  \/ \E job \in Jobs : Admit(job) \/ Rerun(job)

Spec == Init /\ [][Next]_vars

\* The job in the lane goes on, and the job of main's tip gets its turn.
\* Nothing is promised of what the registry shows.
FairSpec ==
  /\ Spec
  /\ WF_vars(LaneStep)
  /\ SF_vars(Admit([channel |-> "next", at |-> Tip]))

-----------------------------------------------------------------------------
(* Properties *)

\* A verdict read under the lane still holds when its publish lands, though
\* the registry has no compare-and-set and answers late (post-green.yml:28):
\* unless some job ended unsettled, judging again on all that landed would
\* come to the same answer.
VerdictStands ==
  In("publish") /\ ~ late => NpmVerdict(lane.job, lane.tip, Truth) = "publish"

NextForward == Truth.next.source > 0 => Truth'.next.source >= Truth.next.source
LatestForward ==
  Truth.latest.source = Released =>
    /\ Truth'.latest.source = Released
    /\ ~ ReleaseBefore(Truth'.latest.release, Truth.latest.release)
\* Neither dist-tag moves back, whatever order the jobs finish in: next not
\* along main, and once a release holds latest, no older one and no pre-release
\* displaces it.
TagsForward == [][~ late => NextForward /\ LatestForward]_vars

\* Once the run of main's tip has come through, on a record that was complete,
\* next ships what main ships, even where an earlier job had moved it back; no
\* run of an older commit, its change undone since or not, takes that away.
ShipsTip == Placed(Truth.next) /\ Surface(Truth.next.source) = Surface(Tip)
TipShipped == caughtUp => ShipsTip

\* A confirmation fails a job only when a tag really was moved back, which
\* takes a job that ended unsettled.
NoFalseAlarm ==
  In("confirm") /\ ConfirmPublish(lane.job, 1, Fetched) = "behind" => late

\* Main's tip comes to be what next ships, unless a job was lost or ended
\* unsettled: a record that never shows a publish holds no job back for good.
EventuallyShipped == <>[](ShipsTip \/ late \/ lost > 0)

==============================================================================
