# maxims, specified

maxims installs "memories" (short markdown rules with a body) from git
repositories and local folders into the rule files of coding assistants, and
keeps them fresh from a hook that runs at every session start. This directory
holds TLA+ modules of the parts of it where order, interleaving and
interruption decide whether it is right, the TLC configurations that check
them, and TLAPS proofs of what matters most. Paths below are relative to the
repository (`src/util/lock.ts`, `docs/guarantees.md`).

    tlc -workers 2 -config SharedFile.cfg MCSharedFile.tla       # one check
    tlapm ProjectLockProofs.tla                                  # one proof

## The system

A home directory holds everything a machine has: `state.json` (the user's
intent: one entry per source, with the last fetched revision and a held one),
`state.json.lock`, `store/` (a copy of each fetched source), `pending/` (held
revisions of reviewed sources), `config.json` and a log. What a harness reads
lies elsewhere: rule files with a block or a file per source, and directories
of links into the store. Every verb edits the intent under the lock, writes it
once, and then runs the sync that derives the rest; the session hook runs the
same sync without waiting and without deleting.

| component | state | operations | interacts by | correct when |
| --- | --- | --- | --- | --- |
| store lock (`util/lock.ts`) | the lock file, its record and age | `withLock`, `tryCreate`, heartbeat, `stealIfStale`, `release` | files other processes move | one process inside while holders are alive; a dead holder's lock is taken; a live one's never |
| intent store (`state/store.ts`, `cli-context.ts`) | `state.json`, files set aside | `readState`, `withStateLock`, `settle`, `updateIntent` | lock, `applyChanges` | no update lost; only unreadable bytes moved; a newer file left alone |
| fetch and refresh (`engine/fetch.ts`, `sync-refresh.ts`) | `fetched`, `pending`, `lastError` of an entry | `refreshSource`, hold, refuse | resolvers, store | record, copy and rules agree; holds wait for a user |
| planning (`plan-sync.ts`, `plan-install.ts`, `bodies.ts`, `orphans.ts`) | none of its own | `planSync`, `planInstall`, `build` | reads everything, emits changes | a second sync has nothing to do; a hook takes nothing away |
| name index and cap (`rulefile/dedupe.ts`, `budget.ts`, `lookup.ts`) | none | `buildNameIndex`, `resolveIncoming` | planning, `add` | one owner per name, on disk too |
| planned changes (`util/change.ts`, `util/fs.ts`) | the files | `applyChanges`, `writeFileAtomic` | every writer | what a kill leaves, a later run completes |
| verbs (`commands/`) | none | `add`, `remove`, `review`, `unreview`, `accept`, `update`, `sync`, `disable`, `link`, `share`, `install` | intent, then sync | as above |
| rule files and blocks (`engine/rules.ts`, `rulefile/`) | text the user shares | splice, strip, hold | planning | the user's text survives; blocks match intent |
| hooks and registries (`engine/hooks.ts`, `harnesses/`) | settings files of harnesses, files of maxims's own | `planHooks`, `landRewrites`, splices | planning | an entry stays exactly while someone wants it; nothing of the user's goes with it |
| fetch ladder (`sources/github/`, `sources/git/`) | a scratch directory | `climb`, clone, tarball | git, gh, http | one rung's tree, never two mixed; the best failure; nothing left behind |
| project lock (`project-lock-io.ts`, `share`, `install`) | a committed file | project, replay | teammates' machines, through git | a teammate's entries survive; a replay is faithful |
| release pipeline (`.github/scripts/release-pipeline.ts`) | two dist-tags | verdict, publish, confirm | the registry, GitHub's queue | no tag moves back; main's tip is shipped |
| debounce, mcp stub, console, reports | a stamp | | | |

What is hard: processes that meet on one lock file without any other
coordination; readers that decide before they hold the lock; a plan applied
change by change that may stop anywhere; a hook that applies a plan without
its deletions; sources whose names collide while their trees, records, copies
and rule files are at different revisions; names switched off and on meanwhile;
holds that upstream moves past or returns from; cooldowns and refusals that
postpone a refresh; files whose other half is the user's, comments and open
fences included; harnesses and scopes that answer for one entry; two machines
behind one committed file; transports that fail half-way; a registry that
answers late. `PROJECT.json`
lists each of these hazards at its line with the properties that watch it.

## Modules

| module | models | uses |
| --- | --- | --- |
| `RevocableLock` | what `withLock` promises its callers | |
| `StoreLock` | `src/util/lock.ts`, one action per file system call | `RevocableLock` (refined) |
| `IntentStore` | `src/state/store.ts`, `updateIntent`, the state write of a sync | `RevocableLock` (extended) |
| `IntentStoreProofs` | theorems about `RevocableLock` and `IntentStore` | |
| `LockedIntent` | `IntentStore` running inside `StoreLock` | both |
| `LockedIntentProofs` | theorems about `StoreLock` and `LockedIntent` | `IntentStoreProofs` |
| `SourceSync` | the life of fetched sources through verbs and syncs | |
| `SourceSyncPlans` | what a plan of `SourceSync` holds and in which order: lemmas | |
| `SourceSyncProofs` | theorems about `SourceSync` | `SourceSyncPlans` (extended) |
| `BlockGrammar` | `src/rulefile/block.ts`: the two edits of a shared text | |
| `SharedFile` | a rule file that sources and the user share, through runs | `BlockGrammar` (extended) |
| `HookRegistry` | `src/harnesses/hook-writer.ts` and dsh's patch file: the splices of a registry | |
| `HookPlan` | `src/engine/hooks.ts`: who wants which artifact, what a run plans and applies | `HookRegistry` (extended) |
| `HookPlanProofs` | theorems about `HookRegistry` and `HookPlan` | |
| `ProjectLock` | the committed lock, every verb that rewrites it, `install`, git | |
| `ProjectLockProofs` | theorems about `ProjectLock` | |
| `FetchLadder` | `src/sources/github`, `src/sources/git`: one fetch | |
| `FetchLadderProofs` | theorems about `FetchLadder` | |
| `ReleasePipeline` | `.github/scripts/release-pipeline.ts` and the jobs that call it | |
| `ReleasePipelineProofs` | theorems about `ReleasePipeline` | |
| `MC*` | values, symmetry and views for TLC | |

`SourceSync`, `SharedFile`, `HookPlan`, `ProjectLock` and `FetchLadder` are
parts of one program that meet in narrow places: a fetch gives `SourceSync` a
whole revision or a failure (`TreeWhole`), the plan of a sync ends with the
changes of the rule files and of the hooks, and every commit of a project's
source rewrites its lock in front of the state. Each is checked against
anything the others may hand it.

### StoreLock

`lockAt` is the inode at the lock path. A process creates it (`Create`,
`openSync "wx"`), writes its record through the descriptor (`WriteRecord`, or
`WriteFails` with its unchecked unlink), beats (`Heartbeat`), and on the way
out compares (`CheckOwn`, `CheckForeign`) and unlinks (`Unlink`). A process
that finds the file goes through `stealIfStale`: `StatYoung`/`StatOld`,
`RenameAside`/`RenameFails`, `GrabbedFresh` (then `PutBack` and `Discard`) or
`GrabbedStale` (then `DropStale`), and creates its own or backs off. Every one
of these is a step of its own, so any two processes interleave between them.

Time is abstract: a file is young until `Outlive` makes it old, and `Outlive`
is free to do that to any file except one whose owner is alive and not
`silent`. `Silence` is the failing `futimes`, the blocked event loop or the
suspended machine. `lapsed` remembers that some file has ever been old: what
the code promises without condition holds before that, and what it promises
afterwards is `RevocableLock`: whoever is inside together with another has
lost its file from the path. The exit hook's release is `Finish` too.

Two writes of one pid in one millisecond, which `sameHolder` could not tell
apart, are left out: an inode stands for its record.

### IntentStore and LockedIntent

`disk` is `state.json`: absent, current, older (the ladder climbs from it),
ancient (below the ladder), newer, or garbage. A command waits for the lock
(`Begin`, or `ReadOutside` for a reader whose first look calls for a change),
reads again under it (`ReadUnderLock`), settles what it found (`Quarantine`,
`WriteBack`), goes on or stops (`GoesOn`), and writes over the document it
read (`Write`). `DropLink` is the unlink that `writeFileAtomic` makes before
its rename when the destination is a link. `Abort` is a crash, a signal or an
exception anywhere before the end. A command of a newer maxims is one of the
verbs, since two binaries may share a home.

The lock is `RevocableLock`, which this module extends: `Enter` is its
`Acquire`, `Exit` its `Release`, and revocations happen to holders that do not
notice, as in the code. `LockedIntent` joins the two modules action by action
(`Locked` is `Create` and `Enter` at once), and the whole satisfies
`IntentStore`'s specification (`Composes`, checked and proved), so nothing is lost
by reasoning about the store behind the promise alone.

### SourceSync

A source entry has the fields planning decides on: `added`, `review`, `select`,
`fetched`, `pending`, whether it is `due`, and which sources were installed
before it; `off` are the names switched off at the project. Around them are the
store copy, the parked revision, the rule file and the body links. A revision is
the tree itself, a version per memory name.

A sync computes its whole plan from what it reads (`SyncPlan`): the outcome of
each refresh (`Outcome`, `Refreshed`), the admission loop of `planSync`
(`Attempts`, `RefusedIn`, `OwnsName`, `Retained`) over what a selection and
`off` leave of each tree (`Selected`), the installation (`Install`), in which a
source that is refused or cannot be read keeps its lines and its links
(`Sweepable`), the hook's deferral (`Build`), the state write at the end. `Apply`
then makes one change at a time, in the plan's order, with the swap of a store
entry as the delete, the mkdir and the writes it is; `Crash` may fall between
any two, which is also what a failing change does. A committing verb (`Add`,
`Disable` for both ways, `Review`, `Accept`, `Unreview`) applies its store
changes and the state write and then owes a sync (`owed`), before which it may be
killed and hooks may run. `RemoveSource` and `RemoveMemory` plan their sync under the same lock.
`Publish`, `TimePasses` and `Meddle` are the world.

Abstracted away: one project, one harness with a file per source, no renames,
no byte budgets, no live folders, links but no copies. Each source has a
rule file of its own, so the order of the rule files within a run is free: the
model writes the ones that keep a line before it removes the others, where the
code takes them source by source. `add` installs all a
source ships; a selection comes from `remove` of single memories, as `add
--memory` would make it. A run reads everything at its start: it holds the lock
from there to its end, and nothing the modelled part reads is written by anyone
outside the lock. `add` does resolve names before it takes the lock
(`validate.ts`); here it does so under the lock, and `ProjectLock` has the gap.

### BlockGrammar and SharedFile

`BlockGrammar` holds the pure functions. A text is a sequence of lines: the
user's, blank ones, begin and end markers, rule lines, and lines that open or
end a fence, a comment or an HTML block. `Leaves` runs over the lines as
`scanLines` does, `Seen` is the text with what is swallowed read as the user's,
and `CloserFor` the line an appended block ends an open one with. `BlockSpans`
pairs a begin marker with the very next marker when that is its own end;
`ReplaceBlock` puts a block over the one its source has, or opens a slot
behind the last block, and deals all blocks into the slots in key order;
`StripBlock` closes one slot (the last one by preference, since an add opened
it), joins the text around it (`Joined`) and refuses when no slot can be
closed without pairing stray markers (`ReadsBackAsKept`).
Intermediate results (the spans of a text, its occupants and gaps) are passed
on as parameters, not bound by nested LETs: TLC's coverage unfolds every use.

`SharedFile` plans a run over them: `PlanFile` is `planSharedFile` with its
budget check, holds and the delete of a blank file, `Attempt` the loop that
withdraws one source after the other until the file fits, `PlanRun` the
attempts of `planSync` that roll back or keep what was refused. `StartRun`
makes the plan, `ApplyWrite` and `ApplyRemoval` land it, `Kill` may fall
before each, and a hook run drops the removal. Between runs sources come, go
and render something else (`Install`, `Uninstall`, `Move`), and the user
inserts or deletes a line anywhere (`SaveMore`, `SaveLess`), markers and whole
pairs included. A save while a run goes on is overwritten by what the run has
left to apply, or is as if made behind it; either way the file is one that
saves between runs reach, so the model leaves it out.

Abstracted away: a line stands for its bytes and the budget counts lines;
every line is terminated by LF; no line is in a list or a quote; a block has no
staleness line; one file has one harness (`linked` is whether some reader comes to
it through a link).

### HookRegistry and HookPlan

`HookRegistry` is the text of a settings file reduced to what a splice can keep
or lose: whose handler stands in which group of which event, which containers
exist, where the user left a comment, whether there is a byte order mark.
`RewriteHookRegistry` registers a handler at the deepest level there is,
replaces it, drops copies, or removes it and climbs to the highest container it
alone kept (`RemoveOne`, `OnlyChild`); `RewriteServers` and `EditPatch` do the
same for the table of MCP servers and dsh's patch file.

In `HookPlan`, a pair of a harness and a scope wants its artifacts while a
source lists it and `state.hooks` asks for it (`Wants`). `PlanHooks` is
`planHooks`: the answers of the run's own scopes and, for files those reach,
of other projects (`OwnScopes`, `Elsewhere`); wanted rewrites landed first,
unwanted ones that nobody owns behind them (`LandWanted`, `LandUnwanted`), each
over the text the one before it left; the changes in the order they are emitted
(`Emit`), a file's edit being a removal while nothing wanted altered it. `Sync`
plans, `Apply` makes one change, `Abandon` is a kill or a failing write, and a
hook run leaves the removals out (`Changes`). `Add` and `RemoveLast` move what
is wanted, `SetAccess` makes a file unparsable or locked for a while. What the
machine's definitions declare, and what the user's files hold before the first
run, is a constant (`Worlds`).

Abstracted away: the spelling of JSON and YAML, what a handler is told, config
edits beside the hooks, and groups with matchers.

### ProjectLock

Every machine has a state, a checkout with the lock file, and the verbs its
processes have prepared and not committed (`jobs`); `remote` is what git last
published. `ProjectLockChange` is the
rewrite: what is this machine's (`OwnedHere`) is taken out of the file, what it
shares after the edit (`SharedProjection`) is put in, the rest stays
(`TeammateEntries`). `add`, `install` and `disable` prepare against the state
they read (`Prepare*`) and commit later, when other verbs of the machine may
have committed (`CommitAdd`, `CommitInstall`, `CommitDisable`); `Enable`,
`Share`, `Link`, `Trim` (`unlink`, one memory removed), `Rename` (`update
--rename`) and `RemoveSource` read and commit under the lock.

Names are judged in two ways. Before the lock, and in `Rename`, what a source is
to provide may be no other source's, switched on or off (`Resolves`,
`DistinctNames`). At the commit of `add`, `install` and `link` a plan is drawn
(`AdmitIntent`), for which a name that is switched off is no candidate: two
sources may come to share it (`Doubled`), when it was switched off between the
validation of one and its commit. Such a name is refused once it is on
(`Clashing`), but `enable` judges nothing. `NoNewClash` is what is left: no step
lets two sources have a name that is on, unless both had it before. A commit
writes the project lock and then, in `Land`, the state; `Kill` may fall between.
`Push` and `Pull` are git, whose merge takes each entry from one side or the
other. An intent is all an entry records of a source, and `Provides` the names
the source has under it, so that sources collide under some intents only. Of two
sources that share a name the one installed first owns it; `Resolves` leaves the
order out and lets either of them be judged the owner.

Abstracted away: a pull between a rewrite's read and its write, corrupt locks
and locks of other versions, the renames a prompt proposes, and the refusals
over two keys of one source.

### FetchLadder

One fetch resolves a ref and then brings the tree, each by a ladder of
transports (`RungsOf`, `Climb`, `AllowsFallback`). A rung is skipped (`Skip`),
fails in any of the ways an answer can be read (`Fail`), resolves, clones file
by file (`CloneStart`, `CloneFile`, `CloneEnd` with its check of the commit), or
extracts a tarball: the parser hands over entries (`ReadEntry`), each is written
once its body has arrived (`EntryArrives`, `WriteEntry`), possibly after the
parser stopped (`ParserEnd`, `ParserError`), and the rung waits for all of them
(`Extracted`). `GiveUp` reports one failure of those met (`ChosenFailure`),
`ReadTree` reads the result and removes the directory, and `Signal` is a
terminating signal at any moment. Upstream moves meanwhile (`Push`), so files of
different commits can be told apart.

Abstracted away: how an answer is parsed, which host a request goes to, and the
contents of a file. A signal that cannot be caught leaves its directories, and a
git child may outlive its parent; the model has neither.

### ReleasePipeline

`main` is a list of commits, each with what it ships and the release it carries;
`log` every move of a dist-tag the registry made, of which its record shows the
first `shown`. A job enters the lane (`Admit`, `Rerun`, in any order), reads the
record and judges (`Judge`, over `NextPublishVerdict` and
`StablePublishVerdict`), publishes (`Publish`), and reads on until the record
shows its version or its reads are used up (`Confirm`). `Die` loses a job
anywhere, which also stands for GitHub cancelling it. `late` remembers that some
job ended before the record showed its publish, which is the one way the
promises may fail and which the pipeline reports as "unsettled".

Abstracted away: the npm version floor, the refusal of a tag that does not match
its package, and caches between the registry's origin and a reader.

## Checks

`bounds` names the constants that limit a run; states are distinct states.

| run | states | bounds | shows |
| --- | --- | --- | --- |
| `StoreLock` | 336,178 | 3 processes, 2 files, 1 crash | `TypeOK`, `MutualExclusion`, `Implements` (refinement of `RevocableLock`), `OnlySilentRobbed`, `LockObtainable` under `FairSpec` |
| `IntentStore` | 1,733,399 | 2 processes, 2 sources, 1 damage, every kind of file | `StoreTypeOK`, `OnlyCorruptSetAside`, `AtomicIntent`, `NewerKept` |
| `LockedIntent` | about 114,000 | 2 processes, 1 source, 1 crash, 1 damage, a linked file | `Composes` (refinement of `IntentStore`) |
| `LockedIntent_lost` | | 2 processes, 2 sources | violated: a stalled holder takes back a commit |
| `SourceSync_review` | 253,150 | 1 source, 3 names, 5 revisions, cap 2, 1 switched name, 1 mishap | `ReadsBack`, `Agreement`, `Idempotent`, `LinesLinked`, `ReviewGate`, `HookKeeps`; `Rederived`, `CatchesUp` under `FairSync` |
| `SourceSync_enable` | | 2 sources, 2 names, 3 revisions | violated: a body is another source's |
| `SourceSync_recover` | | 1 source, 1 mishap | violated: half a store copy stays |
| `SharedFile` | 367,413 | 2 sources, 1 orphan, 9 lines, 1 edit | `SpliceLaws`, `Converged`, `KeepsUserLines`, `LastGoodKept` |
| `HookPlan` | 35,173 | 4 harnesses, 3 scopes, 1 lock or breakage | `OneRunSettles`, `HookDefers`, `UserKept`, `WantedStays`, `RowBacked` |
| `ProjectLock` | 187,146 | 2 machines, 2 sources, 2 names, 3 verbs | `Projection`, `Replayed`, `TeamKept`, `NoNewClash` |
| `FetchLadder` | 83,598 | 3 commits, 3 files | `TreeWhole`, `NothingLeft`, `BestFailure`, `EveryFetchEnds` |
| `ReleasePipeline` | 255,123 | 3 commits, 2 contents, 1 rerun, 2 reads, 1 lost job | `VerdictStands`, `TipShipped`, `NoFalseAlarm`, `TagsForward`, `EventuallyShipped` under `FairSpec` |

Why the bounds are enough. The lock needs a third process for the races its
comments name: one dies or stalls, one steals, one grabs what the thief
created. A file no name or descriptor leads to is reused by `Create`, so the
pool of files bounds files alive at once and not files ever created: with two,
a thief that holds one and a creator of the other leave a third process
waiting, and the proofs cover any number. In `IntentStore` two processes meet
in every pair of stages, and the proofs cover any number.

In `SourceSync`, one source meets every sequence of its verbs with a revision
over the cap, one that swaps its memories for another, one upstream returns to
and one without memories; a switched name takes a source in and out of the cap.
Two sources are what a collision needs, and two names let one move while the
other stays. One mishap is one crash, one lost copy or one edited hold, at any
point, followed by any number of runs. Upstreams may go back where `Returns` is
set.

In `SharedFile` two keys give every order of two blocks, the first files add an
orphan behind them, a stray begin marker in front, a foreign marker, a quoted
pair in a fence, an open comment, an open HTML block and a linked empty file,
and one inserted or deleted line makes a stray marker, a broken pair, an open
fence, a blank line in any gap. Nine lines let two blocks with a rule each fit
beside two lines of the user's and not beside three with an orphan, so refusals
do happen. A run meets one new revision or one unreadable source; `MaxRev = 1`
is a block with a rule or, at 0, a source that renders nothing.

In `HookPlan`, codex and devin share an event of one registry, which a project
rooted at the home directory shares with the user scope; dsh has its bridge and
amp a file and a server entry. The ten worlds have registries that are missing,
the user's, copied, outdated or commented at each level. One file stops parsing
or is locked once. In `ProjectLock` the two sources collide under some intents
only, one source is linked and the other renamed, and two verbs of a machine
prepare at once; three verbs are an edit on each machine with a replay or a crash
between them, or a name that comes to be recorded and switched off between the
validation of an `add` and its commit (switching it on again would be a fourth).
A machine prepares only what can still commit within them. The proofs cover any
number. In `FetchLadder` one file is outside
the memory folder and another comes and goes with the commits. In
`ReleasePipeline` three commits are a change, its undoing, and one more, which
is what the gate on main's tip is about; two reads of the fifteen are enough to
be too few.

What these properties leave out on purpose. `Converged` says nothing of a file
in which the user duplicated a pair (a run replaces or strips the first of them
only, so it takes one run per copy) nor of a run that refused something.
`KeepsUserLines` and `SpliceLaws` allow the one line that ends what the user
left open. `Agreement` and `Rederived` speak of what fits the cap: switching a
name on can push a source past it, which is then refused until a name is
switched off again; and a rule file that lost its last line to a hook run waits
for an interactive one. `WantedStays` speaks of runs that are not kept to some
harnesses, see below.

Each property is also shown to notice a fault: `PROJECT.json` pairs it with a
change of one definition (the operators marked "Seeded fault") under which
the same run finds it violated.

### Fairness

`StoreLock`: a process that can work does (`WF(Work)`), which covers that
commands end and that sessions keep starting hooks, and time passes for a file
nobody touches (`WF(Outlive)`). Nothing is assumed of heartbeats or crashes.

`SourceSync`: a run goes on (`WF(Apply)`, `WF(Finish)`), a verb that committed
comes to its sync, cooldowns and retry delays end, and sources that keep coming
due are met again and again by a sync that reaches the network. The last is what
"session starts keep happening and the network is not down for ever" means; a
hook that is always the one to run would leave deletions waiting for ever, by
design. The conditions are written as `[]<>.. => []<><<..>>`, which is strong
fairness with the enabling condition spelled out.

`FetchLadder`: a step of the fetch is taken while one can be (`WF(Step)`): every
transport answers or its timeout does, and the event loop goes on. Nothing is
assumed of which answer. `ReleasePipeline`: the job in the lane goes on
(`WF(LaneStep)`; the delays between reads and the job's own timeout see to it),
and the job of main's tip gets its turn (`SF(Admit)`), as it would in any queue
that empties. Nothing is assumed of what the registry comes to show, nor of
merges, releases or reruns.

### Where the code and its documentation disagree

Three runs are expected to fail; each checks a sentence of the repository.

* `LockedIntent_lost`: a holder that stalls past 60 seconds and resumes writes
  the document it read before its lock was stolen; the thief's commit is
  gone. `docs/guarantees.md:52` promises a redundant rewrite at worst.
* `SourceSync_recover`: `add` of an installed, unchanged revision killed inside
  its swap leaves part of a store copy behind an intact record. Every later
  sync finds the source unchanged, and installs the part. `docs/state.md:36`
  says recovery from any crash is a sync.
* `SourceSync_enable`: a name switched off at the project is no candidate of its
  source, so a second source that comes to ship it is admitted, and both copies
  hold it as installed. After `enable` the tie goes to the lower key: its body is
  linked under the name while the other source, refused whole, keeps its rule
  line, against `src/engine/plan-install.ts:389`. No run is cut short.

Disagreements no run is spent on:

* Two sources have come to hold one name as in `SourceSync_enable`, and the second is
  refused for it. The first drops the name upstream; its line goes, but the refused
  source keeps the directory of links from being swept (`Sweepable`), and the link
  that stays keeps the name the first source's (`Retained`). Every later sync refuses
  the second again, for a name nobody else ships, where `src/engine/plan-install.ts:394`
  says the link reserves the name until an interactive run sweeps it. TLC finds the
  loop under `FairSync`, with an upstream that ships the name and drops it.
* Two sources that hold one name after a run of `enable` was killed before its
  sync: when one drops the name, the sync that brings this in refuses the other,
  and a second sync admits it and writes, where `docs/guarantees.md:12` promises zero
  writes after the first. `Idempotent` fails so with the constants of
  `SourceSync_enable` and one mishap (without one it holds), which is why its
  theorem assumes `Apart`.
* A name switched off between the validation of an `add` and its commit may come
  to have two sources, both shared. `NoNewClash` allows it, and the lock then lists
  both; `install` refuses that lock in a fresh clone, since it tells names apart
  whether they are on or off (`src/commands/install.ts:148`), where
  `docs/share.md:49` says it adds each source. `Replayed` speaks of the locks a
  clone can install (`Doubled(lock.entry) = {}`).
* The byte budget is judged before the blocks of removed sources are stripped,
  so a run that removes one source can refuse another whose file fits;
  `src/engine/rules.ts:434` says "on the finished text". `PlanFile` of
  `SharedFile` judges where the code does.
* `add` of an installed source at a new revision, killed between its swap and
  its state write, lets another source take over a body a rule line still names
  (`src/commands/add/commit.ts:307`): the same sentence as `SourceSync_enable`,
  by way of a crash.
* `hookStatus` (`src/engine/hooks.ts:72`) reads "current" off an empty plan, and
  the bridge of dsh always plans to write its hooks file
  (`src/harnesses/dsh/quirks.ts:71`), so dsh reports its hook missing for ever;
  `src/harnesses/hook-writer.ts:94` and `docs/check.md:97` say otherwise.
  `HookPlan` has the write, and `Effective` asks whether it changes anything.
* A run kept to one harness with `-a` takes out a shared entry that another
  harness wants, where `src/engine/hooks.ts:625` says it stays;
  `WantedStays` speaks of complete runs. A complete run can do so too: another
  project's artifacts are asked per harness (`elsewhereAnswers`, line 548), so when
  one harness reaches the file globally and the other, a user-defined one, only
  from that project, a global run plans the removal and not the want. TLC finds it
  with such declarations; the built-in harnesses share no file that way.
* A machine that holds a source privately takes a teammate's entry for it out of
  the project lock at its next edit, where `docs/share.md:41` says a teammate's
  entries stay; an entry removed or unshared on one machine returns with the
  next edit of another that still shares it. `OwnedHere` says how, and
  `TeamKept` speaks of sources the machine does not record.

A second `add` of an unchanged source rewrites its store copy as well, where
`docs/guarantees.md:12` says it writes nothing; that is what `Add`'s `Swap`
says, and `SourceSync_recover` rests on it.

Three windows of the code: `release` compares and then
unlinks in two calls (`src/util/lock.ts:91`), so a silent holder robbed in
between unlinks the thief's lock, against the comment above it; `StoreLock`
has both calls. Replacing a linked `state.json` unlinks the link first, so a
reader may see no file, where `src/util/fs.ts:45` says old or new;
`IntentStore` has it as `DropLink`. An edit overwrites what the user saved
since it was planned (`applyEdit` in `src/util/change.ts`).

## Proofs

The theorems of the eight proof modules hold for every value of the constants.

`LockedIntentProofs`, of `StoreLock` (any number of processes, files and crashes).
The inductive invariant `IInv` adds three facts to `TypeOK`: a file has one owner
(`OneOwner`), a file of an owner grows old only when that owner is silent
(`OldMeansSilent`), and before a lapse no file is old, nobody is inside a
theft and every owner's file is at the path (`TheftAfterLapse`). The last is
what mutual exclusion needs: `Create` finds the path empty, so there is no
owner. From it:

* `TypeCorrectness`, `Exclusive` (`MutualExclusion`), `NoRobbery`
  (`OnlySilentRobbed`, from `OldMeansSilent`: the file that was moved is aged
  again, so it is old, so its owner is silent),
* `Refinement` (`Implements`): each step maps to a step of `RevocableLock` or a
  stutter, with `Holders` for its holders and `Displaced` for its revoked ones.

`IntentStoreProofs`. `LockExclusion` is the promise of `RevocableLock` itself.
`StoreInv` says that until a lapse a holder about to settle or to write
believes of the file what is there (`Informed`); its preservation needs that
nobody else is inside (`Alone`). From it `StoreTypes`, `Quarantined`
(`OnlyCorruptSetAside`), `Atomicity` (`AtomicIntent`) and `NewerRespected`
(`NewerKept`).

`LockedIntentProofs`, of `LockedIntent` (any number of revisions besides). What
joins the two modules is who stands where: `Coupled` says that a process waits in
the store exactly while it is in the retry loop of `withLock`, and is past the
wait exactly while it is a holder of the file. `LockedInv`, the lock's `IInv` with
`Coupled`, is inductive (`LockedInvariance`). Every step of the whole is then a step
of `IntentStore` with `Holders` and `Displaced` in place of the promise's variables,
so that

* `Unhindered`: the lock never stands in the way of a step of the store code that
  the promise allows it, and `Composition` (`Composes`): the whole implements
  `IntentStore`,
* `LockedAtomicity`, `LockedNewerKept` and `LockedQuarantine` carry the theorems of
  `IntentStoreProofs` over to the code behind the real lock file.

`SourceSyncPlans` and `SourceSyncProofs` (any number of sources, names, versions,
revisions and mishaps, any cap). Plans are sequences that folds build, and the
prover does not reason about folds. So `SourceSyncPlans` says once, of each operator
that writes a piece of a plan, which set of changes the sequence lists (`Lists`) and
that they come in turn (`InTurn`: of two changes the order of which matters, the
one `May` says comes first does; a link comes before the lines that name it, a
delete before the mkdir and that before the writes, the state behind the copies).
From there on a plan is a set and an order. The attempts of `planSync` are a
recursive function; that they end is `AttemptsSettle`, for any number of sources:
an attempt that refuses something moves a fresh source to the last-good ones or one
of those to the held ones, so there are at most two a source, and the last refuses
nothing. What is induction on data here is written as a least counterexample
(`LeastNumber`).

`SourceSyncProofs` works with what is left of a run's plan, `In(run.todo)`:

* `Basic`: everything has its type, the state on disk and the one in the queue read
  back (`Sane`), and the queue is in turn. From it `FileReadsBack` (`ReadsBack`).
* `LinesFollow`: a rule change whose link is missing is behind that link, and an
  unlink is behind the changes that take the last line off it. Without the second
  half a sweep that a kill cuts short could leave a line without its body. From it
  `LineHasBody` (`LinesLinked`).
* `HookQueue`: a hook's queue holds nothing but changes that take nothing. From it
  `HookTakesNothing` (`HookKeeps`).
* `StoreFollows`: where nothing went wrong, the queue brings store copies and parked
  revisions to the state it ends in (`Settles`), and never writes into a directory
  it has not made (`Formed`). Half-way through a swap no store copy is what its
  record says, so this is what a run keeps instead; from it `StoreMatchesRecord`.
* `ReviewQueue`: what a queue changes of a reviewed source is on record or parked;
  a plan takes its lines from the store copy, which is why this needs
  `StoreMatchesRecord`. From it `ReviewedMovesOnAccept` (`ReviewGate`).
* `LinesWithinCap` (`WithinCap`): every rule change planned was admitted; a source
  that a switched name pushes past the cap is refused and keeps what it had.
* `LinesSettled`: the queue brings the rule file of every source that fits the cap
  in line with its record, but for a last line a hook leaves. From it `ApartAgree`
  (`Agreement`) and `LoneSourceAgrees`.
* `Calming`: an interactive run ends somewhere (`Ending`): there are a state file,
  store copies and rule files such that the queue brings each copy and each rule
  file there, takes out what belongs to sources that are gone and holds that are off
  the record, and leaves a link for every line and, where nothing was refused, no
  other. Where all is calm the disk is like that with nothing queued, and then every
  piece of the next plan is empty (`NothingLeft`). `StoreFormed` is the part of
  `StoreFollows` that crashes do not take away: no run writes into a store copy it
  has not made. Unlike `LinesSettled`, `Calming` speaks of the disk and not of the
  record, so it holds after any number of mishaps. From it `SettledRuns`
  (`Idempotent`) and `LoneSourceSettles`.

`ApartAgree` and `SettledRuns` assume `Apart`: between runs no two sources hold the
same name. Both need it. Two sources that come to hold one name (`SourceSync_enable`
shows how) leave one of them refused, and a refused source keeps the lines of an
earlier revision while its record moves on, until one of the two is gone; and what
one sync refuses, a later one may admit. With one source there is nothing to assume:
`LoneSourceAgrees` and `LoneSourceSettles` have no hypothesis on behaviours. With two
or more, every behaviour in which sources ship different names meets it.
`LinesSettled` was checked as an invariant before it was proved: it
holds in the 253,150 states of `SourceSync_review`, and with two sources of disjoint
revisions; with the two sources of `SourceSync_enable` and no `Apart` it fails.

`HookPlanProofs` (any number of harnesses, scopes, handlers and files, any
declarations, any disks that parse). First the splices, in the order the code
makes them: cutting a handler, climbing to what it alone kept (`RemoveOnePart`),
registering (`RegisterPart`), the table of servers and the patch file each leave
`UserPart` or `UserRows` of a text as it was (`RegistryPart`, `ServersPart`,
`PatchPart`). Then a plan. It is a fold of `Land` over the answers, and what a fold
keeps is what each of its steps keeps (`Folding`, a least counterexample again),
so of a plan it is enough to know that every answer comes of a declared artifact
(`Sound`), what landing one can do to a file (`LandSays`), and how an answer and an
edit are emitted (`EmitLed`). Four invariants of the queue `todo` carry this from
the plan to the steps that apply it:

* `HookTyped`: files parse as their kind and changes fit their files, which the
  splice lemmas need of every text they are used on (`HookTypes`).
* `HookKept`: an edit still to be applied keeps the user's part of what the disk
  holds now, not of what it held when the edit was planned. It is inductive since
  earlier changes of the plan keep that part too (`PlansKeep`); from it
  `UserStays` (`UserKept`).
* `HookWrites`: what a hook run has left writes maxims's own files and deletes
  none. From it `HookRunsDefer` (`HookDefers`), whose other half is that a plan in
  which every wanted artifact is in its place changes nothing: registering a
  handler where it stands alone gives the text back (`NothingWaits`).
* `HookBacked`: an edit that will bring a bridge row where there is none stands
  behind a write of the file the row names, no change before it takes that file
  away, and all edits of a file are the same. A kill between the two changes leaves
  the file without the row, never the row without the file. From it `RowsBacked`
  (`RowBacked`).

The four hold in the 35,173 states of `HookPlan`, where they were checked as
invariants before they were proved.

`ProjectLockProofs` (any number of machines, sources, names and intents). The
inductive invariant `IInv` adds to `LockTypeOK` what the windows between two
writes need: a state whose lock has landed before it is one a verb may write over
the state that is there (`Follows`: of the names that are on, only those two
sources had before have two), a lock that was rewritten and not touched since agrees with
the state that is, or is about to be, there (`Agrees`), and a pending `disable`
brings no source. `RewriteAgrees` and `RewriteKeeps` are the two facts about
`ProjectLockChange` it all rests on; the lemmas `*Follows` say the other for every
verb, with `DoubledShrinks` for those no plan is judged for. From it:

* `TypeCorrectness`; `ClashesAdmitted` (`NoNewClash`), which needs that
  `AdmitIntent` is asked under the lock whatever was validated before it, and that
  only `Land` writes a state,
* `Projected` (`Projection`): in the window before `Land` the lock agrees with
  the state to come, and `settled` falls with a kill,
* `Replays` (`Replayed`), over every lock a merge can make: of a clone's state
  `OwnedHere` is all that the lock lists,
* `TeamSafe` (`TeamKept`), an action property from `RewriteKeeps`.

`FetchLadderProofs` (any number of commits and files, any answers). The inductive
invariant `IInv` follows the scratch directory: it is empty when a rung starts
(`Fresh`), holds files of one commit while git checks it out (`Cloning`), and
while a tarball is extracted holds files of the resolved commit, each of which is
unread, being read, waiting to be written or there as long as none was lost
(`Extracting`). Outside its rung nothing waits to be written (`Idle`), which is
what `PendingSettled` is for. From it:

* `WholeTree` (`TreeWhole`) and `LeavesNothing` (`NothingLeft`),
* `ReportsBest` (`BestFailure`), by what `ChosenFailure` picks (`ChosenIsBest`).

`ReleasePipelineProofs` (any number of commits, contents, reruns, reads and lost
jobs). While no job ended before its publish showed, the record lacks at most the
publish that is being confirmed (`Caught`), so a verdict was read off all there
was (`Judged`); then the log itself ascends, builds of main under `next` and
releases under `latest` (`Ascending`, kept by `LandsNext` and `LandsLatest`), and
a tag names the newest of its channel (`NextTop`, `LatestTop`). From it:

* `VerdictsHold` (`VerdictStands`), `TagsNeverBack` (`TagsForward`) and
  `AlarmsAreReal` (`NoFalseAlarm`);
* `TipStays` (`TipShipped`) by an invariant of its own that needs no such
  condition: once the tip's run came through, all the record lacks are releases,
  and every verdict on a build of main is against publishing (`KeptVerdict`).

Assumptions are the `ASSUME`s of the modules: bounds are naturals, kinds and
verbs are of the sets named, `None` is none of the things it stands in for,
`Provides` gives sets of names, sources and names are finite sets of positive
numbers (their place in the order of spelling), and the registry starts without a
build of this main and with its releases in order. Of hooks: no file is both the
user's and maxims's own, scopes are finitely many, a declaration names a file of the
sort its kind has and an event and a handler of this release, a bridge is alone in
its patch file and always names the same file beside it (`src/harnesses/dsh/quirks.ts`
takes both from the global root), and the files parse before the first run; later
ones may stop parsing (`SetAccess`).

Only model-checked: `LockObtainable`, `Rederived`, `CatchesUp`,
`EveryFetchEnds` and `EventuallyShipped` (liveness is beyond the prover);
`Agreement` and `Idempotent` where two sources share a name; all of `SharedFile`,
whose scan is a fold in which every line depends on those before it: what it
computes for every text is induction over data; and two properties of `HookPlan`.
`OneRunSettles` compares a plan with the plan of the disk it would leave, text by
text. `WantedStays` depends on which harnesses share a file across scopes, since
`Elsewhere` asks per harness: for declarations in which a wanted artifact lies in a
file that only some other harness of the run reaches, it need not hold.

## Plan

Done: the lock, the store and their composition; the life of a source; the file
sources and the user share; hooks and registries; the project lock; a fetch; the
publishing of the program itself. What is left, in order:

1. `SourceSync`: the rename map of an entry and `update`'s renames, partial
   validity, live folders, copies, several harnesses with their own files.
2. `SharedFile`: several readers of one file and their aliases, lists and quotes
   around a block. Abstract specification: every reader sees the user's text
   and, per source, its old block or its new one.
3. Proofs: `WantedStays` of `HookPlan`, for declarations in which who shares a file
   shares it at every scope; `HookTakesNothing` and `Calming` for several harnesses,
   once the model has them.

## Not modelled, and why

Parsing and wording (memory contract, risk, options, console, reports), the
declarations of harnesses, and the scripts that build, bench and test have no
behaviour over time. `list`, `show`, `doctor` and `lint` write nothing, and
`init` writes one new file. `config.json` is one more file under the same lock.
The debounce stamp decides whether a hook run takes place; no property relies on
one that does. The server of the mcp stub runs one sync beside a loop of fixed
answers.

Of modelled parts: copies in the place of links, files of the user's in a
directory of bodies, wikilinks checked by `add`, `add --memory` and its renames,
the refusal of a bare name two sources own, live local sources, sources at
other scopes and `-o` folders. What is abstracted in each module is said with
it, and component by component in `PROJECT.json`.
