----------------------------- MODULE SourceSync -----------------------------
(***************************************************************************)
(* The life of fetched sources: what `add`, `remove`, `review`, `unreview` *)
(* and `accept` commit, and what a sync makes of it (src/engine).  A run   *)
(* holds the store lock from its first read to its last change, so one run *)
(* goes at a time; it plans every change from what it read and applies the *)
(* plan one change after the other, and may be killed between any two.     *)
(*                                                                         *)
(* A tree gives each memory name the version of its text, 0 for a name it  *)
(* lacks; a revision's id is the tree itself.  `add` installs everything a *)
(* source ships, `remove` of a memory leaves it a selection of the others; *)
(* there are one project, one harness with a rule file per source and one  *)
(* directory of body links.  Names and sources are numbered in the order   *)
(* of their spelling.                                                      *)
(***************************************************************************)
EXTENDS Naturals, Sequences, FiniteSets, SequencesExt

CONSTANTS Sources,      \* source keys
          Names,        \* memory names
          Versions,     \* versions of a memory's text
          Revisions,    \* what upstreams publish, in that order
          Returns,      \* whether an upstream may go back to a revision
          Cap,          \* most rule lines of a source (ruleCap)
          Switched,     \* bound: the names a user switches off and on, or removes
          Verbs,        \* the verbs a user may run
          MaxMishaps    \* bound: crashes, lost store copies, edited holds

ASSUME SyncAssumption ==
    /\ Sources \subseteq Nat \ {0} /\ IsFiniteSet(Sources)
    /\ Names \subseteq Nat \ {0} /\ IsFiniteSet(Names)
    /\ Versions \subseteq Nat \ {0}
    /\ Revisions \in Seq([Names -> Versions \union {0}]) /\ Revisions # <<>>
    /\ Returns \in BOOLEAN
    /\ Cap \in Nat
    /\ Switched \subseteq Names
    /\ Verbs \subseteq {"add", "remove", "review", "unreview", "accept", "disable",
                    "update", "offline", "hook"}
    /\ MaxMishaps \in Nat

VARIABLES published,  \* the index of the revision each upstream stands at
          state,      \* state.json: an entry per source
          off,        \* state.json: the names switched off at the project
          store,      \* the store copy of each source
          pending,    \* the held revision of each source, parked beside the store
          rules,      \* the lines of each source's rule file
          bodies,     \* the source each body link points into, 0 for none
          run,        \* the run under way
          owed,       \* a committed verb has not run its sync yet
          calm,       \* nothing happened since an interactive sync ended
          mishaps

vars == <<published, state, off, store, pending, rules, bodies, run, owed, calm, mishaps>>

Empty == [n \in Names |-> 0]

NamesIn(tree) == {n \in Names : tree[n] # 0}

\* A directory of the store, or of the pending root: there or not, and its files.
Gone == [there |-> FALSE, files |-> Empty]

Holding(tree) == [there |-> TRUE, files |-> tree]

\* The entry of a source.  due: the cooldown, or the hour after a failed fetch,
\* is over.  select: the names it may install, all of them for "*".  elders: the
\* sources installed before this one (addedAt).  fetched and pending are Empty
\* for a revision that is not recorded.
NoEntry == [added |-> FALSE, review |-> FALSE, due |-> FALSE, select |-> Names,
            fetched |-> Empty, pending |-> Empty, elders |-> {}]

Added(doc) == {s \in Sources : doc[s].added}

Upstream(s) == Revisions[published[s]]

\* ownedUpstreamNames: the names of a tree an entry selects, switched off or not.
Owned(entry, tree) == NamesIn(tree) \intersect entry.select

\* selectMemories: what a tree brings in, the names switched off withheld.
Selected(entry, tree) ==
    [n \in Names |-> IF n \in Owned(entry, tree) \ off THEN tree[n] ELSE 0]

NoRun == [verb |-> "none", todo |-> <<>>]

\* The members of a set of numbers in their order, the i-th with i - 1 below it.
InOrder(S) == [i \in 1..Cardinality(S) |->
                  CHOOSE n \in S : Cardinality({m \in S : m <= n}) = i]

\* What f makes of each member of S, in order; Joined, where f makes sequences.
Each(S, f(_)) == LET order == InOrder(S)
                 IN [i \in 1..Cardinality(S) |-> f(order[i])]

Joined(S, f(_)) == FlattenSeq(Each(S, f))

When(condition, seq) == IF condition THEN seq ELSE <<>>

SyncInit ==
    /\ published = [s \in Sources |-> 1]
    /\ state = [s \in Sources |-> NoEntry]
    /\ off = {}
    /\ store = [s \in Sources |-> Gone]
    /\ pending = [s \in Sources |-> Gone]
    /\ rules = [s \in Sources |-> Empty]
    /\ bodies = [n \in Names |-> 0]
    /\ run = NoRun
    /\ owed = FALSE
    /\ calm = FALSE
    /\ mishaps = 0

----------------------------------------------------------------------------
(* The refresh round: refreshSource, src/engine/fetch.ts                   *)

\* isDue; update forces a fetch, --no-fetch and a committed verb's sync
\* forbid one.
IsDue(s, fetch) ==
    \/ fetch = "force"
    \/ fetch = "due" /\ (state[s].due \/ ~store[s].there)

\* Seeded fault: the record is believed without a look at the store copy.
OutcomeByRecord(s, fetch, down) ==
    IF ~state[s].added THEN "none"
    ELSE IF ~IsDue(s, fetch) THEN "not-due"
    ELSE IF s \in down THEN "failed"
    ELSE IF Upstream(s) = state[s].fetched THEN "unchanged"
    ELSE IF Upstream(s) = Empty THEN "failed"
    ELSE "fresh"

\* Seeded fault: a forced fetch does not ask whether upstream moved.
OutcomeForced(s, fetch, down) ==
    IF ~state[s].added THEN "none"
    ELSE IF ~IsDue(s, fetch) THEN "not-due"
    ELSE IF s \in down THEN "failed"
    ELSE IF store[s].there /\ Upstream(s) = state[s].fetched /\ fetch # "force" THEN "unchanged"
    ELSE IF store[s].there /\ Upstream(s) = state[s].pending /\ Upstream(s) # Empty THEN "waiting"
    ELSE IF Upstream(s) = Empty THEN "failed"
    ELSE IF store[s].there /\ state[s].review THEN "held"
    ELSE "fresh"

\* A hold or an unchanged upstream needs a store copy behind the record.
Outcome(s, fetch, down) ==
    IF ~state[s].added THEN "none"
    ELSE IF ~IsDue(s, fetch) THEN "not-due"
    ELSE IF s \in down THEN "failed"
    ELSE IF store[s].there /\ Upstream(s) = state[s].fetched THEN "unchanged"
    ELSE IF store[s].there /\ Upstream(s) = state[s].pending /\ Upstream(s) # Empty THEN "waiting"
    ELSE IF Upstream(s) = Empty THEN "failed"
    ELSE IF store[s].there /\ state[s].review THEN "held"
    ELSE "fresh"

\* withoutPending: the hold is withdrawn.
WithoutPending(entry) == [entry EXCEPT !.pending = Empty]

\* Seeded fault: a hold counts as applied.
RefreshedApplyingHolds(s, outcome) ==
    CASE outcome \in {"none", "not-due"} -> state[s]
      [] outcome \in {"failed", "waiting"} -> [state[s] EXCEPT !.due = FALSE]
      [] outcome = "unchanged" -> [WithoutPending(state[s]) EXCEPT !.due = FALSE]
      [] outcome = "held" -> [state[s] EXCEPT !.due = FALSE, !.fetched = Upstream(s)]
      [] outcome = "fresh" -> [WithoutPending(state[s]) EXCEPT !.due = FALSE,
                                                               !.fetched = Upstream(s)]

\* The entry each outcome leaves.
Refreshed(s, outcome) ==
    CASE outcome \in {"none", "not-due"} -> state[s]
      [] outcome \in {"failed", "waiting"} -> [state[s] EXCEPT !.due = FALSE]
      [] outcome = "unchanged" -> [WithoutPending(state[s]) EXCEPT !.due = FALSE]
      [] outcome = "held" -> [state[s] EXCEPT !.due = FALSE, !.pending = Upstream(s)]
      [] outcome = "fresh" -> [WithoutPending(state[s]) EXCEPT !.due = FALSE,
                                                               !.fetched = Upstream(s)]

----------------------------------------------------------------------------
(* Admission: indexNames and resolveSourceCandidates                       *)

\* selectedNames: the names of the store copy a source selects, or those of the
\* record when there is no copy.
SelectedNames(s, was) ==
    Owned(was[s], IF store[s].there THEN store[s].files ELSE was[s].fetched)

\* retainedNames: those, and what the rule file and the body links still name.
Retained(s, was) ==
    SelectedNames(s, was) \union NamesIn(rules[s]) \union {n \in Names : bodies[n] = s}

\* indexNames: what the sources hold on disk, by the state as read, comes before
\* what they ship.
Holders(n, doc, was) == {t \in Added(doc) : n \in Retained(t, was)}

\* buildNameIndex: a name goes to the first source that holds it installed, else
\* to the one installed first among those that ship it, switched off or not.
OwnsName(s, n, works, trees, doc, was) ==
    IF Holders(n, doc, was) # {}
    THEN s \in Holders(n, doc, was) /\ \A t \in Holders(n, doc, was) : s <= t
    ELSE \A t \in works : n \in Owned(doc[t], trees[t]) => t \notin doc[s].elders

\* resolveSourceCandidates: one of the names is another source's, or they are more
\* lines than the cap.
Collides(s, lines, works, trees, doc, was) ==
    \E n \in lines : ~OwnsName(s, n, works, trees, doc, was)

OverCap(lines) == Cardinality(lines) > Cap

\* planSource: such a source is refused whole.
RefusedIn(works, trees, doc, was) ==
    {s \in works : LET lines == NamesIn(Selected(doc[s], trees[s]))
                   IN Collides(s, lines, works, trees, doc, was) \/ OverCap(lines)}

\* installedTree: what the store copy of a source shows.
InstalledTree(s) == store[s].files

\* What each source installs from: its fresh fetch, else its store copy.
TreesOf(fresh) == [s \in Sources |-> IF s \in fresh THEN Upstream(s) ELSE InstalledTree(s)]

\* previewStoreTrees: the store as the changes of a commit will leave it.
PreviewTrees(s, tree) == [TreesOf({}) EXCEPT ![s] = tree]

\* Seeded fault: a source whose fetch brought nothing new is passed over.
ReadableChanged(trees, doc) == {s \in Added(doc) : trees[s] \notin {Empty, store[s].files}}

\* The sources there is a tree to install from.
Readable(trees, doc) == {s \in Added(doc) : trees[s] # Empty}

\* record: a refused fresh source goes back to last-good, one that was not fresh
\* is kept as if unreadable.
Refuse(last, refused) ==
    [fresh |-> last.fresh \ refused, held |-> last.held \union (refused \ last.fresh)]

\* planSync's loop: whatever an attempt refuses, all is planned again.
Attempts(fetched, doc, was) ==
    LET attempt[i \in 0..2 * Cardinality(Sources)] ==
            IF i = 0 THEN [fresh |-> fetched, held |-> {}]
            ELSE LET last    == attempt[i - 1]
                     trees   == TreesOf(last.fresh)
                 IN Refuse(last, RefusedIn(Readable(trees, doc) \ last.held, trees, doc, was))
    IN attempt[2 * Cardinality(Sources)]

\* admitIntent: a commit whose dry run refuses anything is not made.
Admitted(trees, doc) == RefusedIn(Readable(trees, doc), trees, doc, doc) = {}

\* effectiveNames: the names `add` judges an installed source to own, the
\* record's when no valid memory is in its store copy.
UpstreamNames(s) ==
    Owned(state[s], IF InstalledTree(s) # Empty THEN InstalledTree(s) ELSE state[s].fetched)

\* resolveIncoming: no name of the tree is owned by another source, and they
\* are within the cap, those switched off counted too.
Resolves(s, tree) ==
    /\ \A n \in NamesIn(tree) :
          LET shippers == {t \in Added(state) : n \in UpstreamNames(t)}
          IN \A t \in shippers \ {s} : s \in shippers /\ s \in state[t].elders
    /\ Cardinality(NamesIn(tree)) <= Cap

----------------------------------------------------------------------------
(* The plan                                                                *)

Change(category, kind, s, n, v) ==
    [category |-> category, kind |-> kind, source |-> s, name |-> n, version |-> v]

\* The kinds of change to a store copy, and to a parked revision.
AtStore == [delete |-> "delete-store", mkdir |-> "mkdir-store", write |-> "write-store"]

AtPending == [delete |-> "delete-pending", mkdir |-> "mkdir-pending", write |-> "write-pending"]

\* withoutAbsentDeletes: only what is there is deleted.
Emptied(root, dir, s) ==
    When(dir[s].there, <<Change("store", root.delete, s, 0, 0)>>)

\* swapStoreEntry: delete, make and fill, one change after the other.
Swap(root, dir, s, tree) ==
    Emptied(root, dir, s)
        \o <<Change("store", root.mkdir, s, 0, 0)>>
        \o Each(NamesIn(tree),
                LAMBDA n : Change("store", root.write, s, n, tree[n]))

\* Seeded fault: a hook run deletes like any other.
BuildAll(changes, hook) == changes

\* PlanBuilder.build: a hook run takes nothing away but half a store swap.
Build(changes, hook) ==
    LET kept == {i \in DOMAIN changes : changes[i].category \notin {"removal", "orphan"}}
    IN IF hook THEN Each(kept, LAMBDA i : changes[i]) ELSE changes

\* Seeded fault: links are made whether or not they are there.
LinksRemade(s, wanted) ==
    Each(wanted, LAMBDA n : Change("destination", "link", s, n, 0))

\* planBodies: a link for each name a source installs, where it is not there.
Links(s, wanted) ==
    Each({n \in wanted : bodies[n] # s},
         LAMBDA n : Change("destination", "link", s, n, 0))

\* planSourceBodies: the store swap of a fetch, then the links into the store.
Bodies(s, fresh, tree, lines) ==
    When(s \in fresh, Swap(AtStore, store, s, tree)) \o Links(s, NamesIn(lines))

\* planSourceBlocks: the lines each admitted source has in its rule file.
Blocks(works, trees, doc) == [s \in works |-> Selected(doc[s], trees[s])]

\* planRulesDirWrite.
RuleFile(category, s, tree) ==
    [category |-> category, kind |-> "rules", source |-> s, tree |-> tree]

\* renderFiles, planWholeFile: the rule file of each admitted source, where it
\* differs; one without a line goes. The code takes the files one by one in its
\* order of sources, here the writes come first: no two of them share a file.
RuleFiles(blocks) ==
    LET differing == {s \in DOMAIN blocks : rules[s] # blocks[s]}
        empty     == {s \in differing : blocks[s] = Empty}
    IN Each(differing \ empty, LAMBDA s : RuleFile("destination", s, blocks[s]))
           \o Each(empty, LAMBDA s : RuleFile("removal", s, Empty))

\* planRulesDirSweep: the rule files of sources that are gone.
SweepRules(doc) ==
    Each({s \in Sources \ Added(doc) : rules[s] # Empty},
         LAMBDA s : RuleFile("removal", s, Empty))

\* Seeded fault: the links of a source that is refused or unreadable are swept.
SweepableAnyway(works, doc) == TRUE

\* refuseSource, keepUnreadableSource: the directory of links is left alone while
\* a source that writes to it brings nothing in.
Sweepable(works, doc) == works = Added(doc)

\* sweepBodies, planBodySweep: the links to names no source installs.
Wanted(blocks) == UNION {NamesIn(blocks[s]) : s \in DOMAIN blocks}

SweepBodies(blocks, doc) ==
    Each({n \in Names \ Wanted(blocks) : Sweepable(DOMAIN blocks, doc) /\ bodies[n] # 0},
         LAMBDA n : Change("removal", "unlink", 0, n, 0))

\* planOrphanSweep over the store, and over the parked revisions.
SweepStore(doc) ==
    Each({s \in Sources \ Added(doc) : store[s].there},
         LAMBDA s : Change("orphan", "delete-store", s, 0, 0))

SweepPending(doc) ==
    Each({s \in Sources : pending[s].there /\ doc[s].pending = Empty},
         LAMBDA s : Change("orphan", "delete-pending", s, 0, 0))

\* planInstall, for the sources readable in trees and not held; heldNow are
\* the sources this run's refresh holds for review.
Install(doc, fresh, held, heldNow, trees) ==
    LET works  == Readable(trees, doc) \ held
        blocks == Blocks(works, trees, doc)
    IN Joined(works, LAMBDA s : Bodies(s, fresh, trees[s], blocks[s]))
       \o RuleFiles(blocks)
       \o SweepRules(doc)
       \o SweepBodies(blocks, doc)
       \o SweepStore(doc)
       \o Joined(heldNow, LAMBDA s : Swap(AtPending, pending, s, Upstream(s)))
       \o SweepPending(doc)

StateWrite(doc, names) ==
    <<[category |-> "state", kind |-> "state", doc |-> doc, off |-> names]>>

RollBack(refused, doc) == [s \in Sources |-> IF s \in refused THEN state[s] ELSE doc[s]]

\* heldRevisions: the fetches this run parks for review.
HeldRevisions(outcome) == {s \in Sources : outcome[s] = "held"}

\* planSync over the state as read; down are the sources no fetch reaches.
SyncPlan(fetch, down, hook) ==
    LET outcome == [s \in Sources |-> Outcome(s, fetch, down)]
        brought == {s \in Sources : outcome[s] = "fresh"}
        after   == [s \in Sources |-> Refreshed(s, outcome[s])]
        last    == Attempts(brought, state, state)
        doc     == RollBack(brought \ last.fresh, after)
        heldNow == HeldRevisions(outcome)
    IN Build(Install(doc, last.fresh, last.held, heldNow, TreesOf(last.fresh)), hook)
           \o When(doc # state, StateWrite(doc, off))

----------------------------------------------------------------------------
(* Runs                                                                    *)

Start(verb, todo) ==
    /\ run' = [verb |-> verb, todo |-> todo]
    /\ calm' = FALSE
    /\ UNCHANGED <<published, state, off, store, pending, rules, bodies, mishaps>>

Idle == run = NoRun

\* sync, sync --no-fetch, update, the session hook, and the sync of a verb.
Fetches(verb) ==
    CASE verb = "update" -> "force" [] verb \in {"offline", "trailing"} -> "none" [] OTHER -> "due"

Sync(verb) ==
    /\ Idle
    /\ \E down \in SUBSET Sources :
           Start(verb, SyncPlan(Fetches(verb), down, verb = "hook"))
    /\ IF verb = "trailing" THEN owed /\ owed' = FALSE
       ELSE (owed => verb = "hook") /\ UNCHANGED owed

\* updateIntent: the changes of the commit and the state write at their end;
\* the verb's own sync follows.
CommitBoth(verb, changes, doc, names) ==
    /\ Start(verb, changes \o StateWrite(doc, names))
    /\ owed' = TRUE

Commit(verb, changes, doc) == CommitBoth(verb, changes, doc, off)

Ready(verb) == Idle /\ ~owed /\ verb \in Verbs

\* buildEntry: add again keeps addedAt and drops the hold.
AddedEntry(s, review) ==
    [added |-> TRUE, review |-> review, due |-> FALSE, select |-> Names,
     fetched |-> Upstream(s), pending |-> Empty,
     elders |-> IF state[s].added THEN state[s].elders ELSE Added(state) \ {s}]

\* stageAdd: a tree without a memory is not added.
Staged(s) == Upstream(s) # Empty

Add(s) ==
    \E review \in {r \in BOOLEAN : r => "review" \in Verbs} :
        LET doc == [state EXCEPT ![s] = AddedEntry(s, review)]
        IN /\ Ready("add")
           /\ Staged(s)
           /\ Resolves(s, Upstream(s))
           /\ Admitted(PreviewTrees(s, Upstream(s)), doc)
           /\ Commit("add", Swap(AtStore, store, s, Upstream(s)), doc)

\* disable and enable, of a name an installed source ships; withDisabled.
Disable(n) ==
    /\ Ready("disable")
    /\ \E s \in Added(state) : n \in UpstreamNames(s)
    /\ CommitBoth("disable", <<>>, state, (off \ {n}) \union ({n} \ off))

\* remove: the sync of the state it leaves, under the same lock.
RemoveFrom(doc) ==
    LET last == Attempts({}, doc, state)
    IN /\ Ready("remove")
       /\ Start("remove", Install(doc, {}, last.held, {}, TreesOf({})) \o StateWrite(doc, off))
       /\ UNCHANGED owed

\* takeOutSource: the entry goes.
WithoutSource(s) == [t \in Sources |-> IF t = s THEN NoEntry
                                       ELSE [state[t] EXCEPT !.elders = @ \ {s}]]

RemoveSource(s) ==
    /\ state[s].added
    /\ RemoveFrom(WithoutSource(s))

\* readInstalled: the memories a source can be asked to let go one by one, those
\* its store copy shows.
Removable(s) == IF state[s].added THEN Owned(state[s], InstalledTree(s)) ELSE {}

\* withoutMemory: the selection becomes the list of the others; with none left the
\* source goes whole.
WithoutMemory(s, n) ==
    LET rest == Removable(s) \ {n}
    IN IF rest = {} THEN WithoutSource(s) ELSE [state EXCEPT ![s].select = rest]

RemoveMemory(s, n) ==
    /\ n \in Removable(s)
    /\ RemoveFrom(WithoutMemory(s, n))

Review(s) ==
    /\ Ready("review")
    /\ state[s].added
    /\ Commit("review", <<>>, [state EXCEPT ![s].review = TRUE])

\* readHeldRevision: the parked files still produce the summary of the hold.
HeldIntact(s) == pending[s].there /\ pending[s].files = state[s].pending

\* applyHeld: the parked revision becomes the record and the store copy, in
\* one plan; a hold that is gone or was edited is forgotten.
ApplyHeld(verb, s, review) ==
    LET held  == state[s].pending # Empty
        lands == held /\ HeldIntact(s)
        tree  == pending[s].files
        entry == [WithoutPending(state[s]) EXCEPT
                     !.review = review, !.fetched = IF lands THEN state[s].pending ELSE @]
        trees == IF lands THEN PreviewTrees(s, tree) ELSE TreesOf({})
        doc   == [state EXCEPT ![s] = entry]
    IN /\ Admitted(trees, doc)
       /\ Commit(verb, When(lands, Swap(AtStore, store, s, tree)), doc)

Accept(s) ==
    /\ Ready("accept")
    /\ state[s].pending # Empty
    /\ ApplyHeld("accept", s, state[s].review)

Unreview(s) ==
    /\ Ready("unreview")
    /\ state[s].review \/ state[s].pending # Empty
    /\ ApplyHeld("unreview", s, FALSE)

\* applyChanges, one change.
Apply ==
    /\ run.todo # <<>>
    /\ run' = [run EXCEPT !.todo = Tail(@)]
    /\ LET c == Head(run.todo)
       IN CASE c.kind = "delete-store" ->
                 store' = [store EXCEPT ![c.source] = Gone]
                   /\ UNCHANGED <<state, off, pending, rules, bodies>>
            [] c.kind = "mkdir-store" ->
                 store' = [store EXCEPT ![c.source].there = TRUE]
                   /\ UNCHANGED <<state, off, pending, rules, bodies>>
            [] c.kind = "write-store" ->
                 store' = [store EXCEPT ![c.source].files[c.name] = c.version]
                   /\ UNCHANGED <<state, off, pending, rules, bodies>>
            [] c.kind = "delete-pending" ->
                 pending' = [pending EXCEPT ![c.source] = Gone]
                   /\ UNCHANGED <<state, off, store, rules, bodies>>
            [] c.kind = "mkdir-pending" ->
                 pending' = [pending EXCEPT ![c.source].there = TRUE]
                   /\ UNCHANGED <<state, off, store, rules, bodies>>
            [] c.kind = "write-pending" ->
                 pending' = [pending EXCEPT ![c.source].files[c.name] = c.version]
                   /\ UNCHANGED <<state, off, store, rules, bodies>>
            [] c.kind = "link" ->
                 bodies' = [bodies EXCEPT ![c.name] = c.source]
                   /\ UNCHANGED <<state, off, store, pending, rules>>
            [] c.kind = "unlink" ->
                 bodies' = [bodies EXCEPT ![c.name] = 0]
                   /\ UNCHANGED <<state, off, store, pending, rules>>
            [] c.kind = "rules" ->
                 rules' = [rules EXCEPT ![c.source] = c.tree]
                   /\ UNCHANGED <<state, off, store, pending, bodies>>
            [] c.kind = "state" ->
                 state' = c.doc /\ off' = c.off
                   /\ UNCHANGED <<store, pending, rules, bodies>>
    /\ UNCHANGED <<published, owed, calm, mishaps>>

Finish ==
    /\ run # NoRun /\ run.todo = <<>>
    /\ run' = NoRun
    /\ calm' = (run.verb \in {"sync", "offline", "trailing", "update"})
    /\ UNCHANGED <<published, state, off, store, pending, rules, bodies, owed, mishaps>>

\* A kill, or a change that fails, between two changes of a run or between a
\* commit and its sync.
Crash ==
    /\ run # NoRun \/ owed
    /\ mishaps < MaxMishaps
    /\ run' = NoRun
    /\ owed' = FALSE
    /\ calm' = FALSE
    /\ mishaps' = mishaps + 1
    /\ UNCHANGED <<published, state, off, store, pending, rules, bodies>>

----------------------------------------------------------------------------
(* The world outside                                                       *)

\* Upstream publishes; a run reads it once, so it may do so between runs.
Publish(s) ==
    /\ Idle
    /\ \E i \in DOMAIN Revisions :
          /\ i # published[s]
          /\ Returns \/ i > published[s]
          /\ published' = [published EXCEPT ![s] = i]
    /\ calm' = FALSE
    /\ UNCHANGED <<state, off, store, pending, rules, bodies, run, owed, mishaps>>

\* The cooldown, or the hour after a failed fetch, runs out.
TimePasses(s) ==
    /\ Idle
    /\ state[s].added /\ ~state[s].due
    /\ state' = [state EXCEPT ![s].due = TRUE]
    /\ calm' = FALSE
    /\ UNCHANGED <<published, off, store, pending, rules, bodies, run, owed, mishaps>>

\* Someone deletes a store copy, or edits the held files.
Meddle(s) ==
    /\ Idle
    /\ mishaps < MaxMishaps
    /\ mishaps' = mishaps + 1
    /\ \/ store[s].there /\ store' = [store EXCEPT ![s] = Gone] /\ UNCHANGED pending
       \/ \E n \in NamesIn(pending[s].files) :
              pending' = [pending EXCEPT ![s].files[n] = 0] /\ UNCHANGED store
    /\ calm' = FALSE
    /\ UNCHANGED <<published, state, off, rules, bodies, run, owed>>

SyncNext ==
    \/ \E verb \in {"sync", "trailing"} \union (Verbs \intersect {"offline", "update", "hook"}) :
           Sync(verb)
    \/ \E s \in Sources : Add(s) \/ RemoveSource(s) \/ Review(s) \/ Accept(s) \/ Unreview(s)
    \/ \E n \in Switched : Disable(n) \/ \E s \in Sources : RemoveMemory(s, n)
    \/ Apply \/ Finish \/ Crash
    \/ \E s \in Sources : Publish(s) \/ TimePasses(s) \/ Meddle(s)

SyncSpec == SyncInit /\ [][SyncNext]_vars

\* A sync that finds every source due and reaches it.
AllDue == \A s \in Added(state) : state[s].due

Reaching ==
    /\ Idle /\ ~owed /\ AllDue
    /\ Start("sync", SyncPlan("due", {}, FALSE))
    /\ UNCHANGED owed

\* A run goes on, a verb comes to its sync, cooldowns end, and sources that keep
\* coming due are met again and again by a sync that reaches the network.
SyncFairness ==
    /\ WF_vars(Apply) /\ WF_vars(Finish)
    /\ []<>(Idle /\ owed) => []<><<Sync("trailing")>>_vars
    /\ []<>(Idle /\ AllDue) => []<><<Reaching>>_vars
    /\ \A s \in Sources : SF_vars(TimePasses(s))

FairSync == SyncSpec /\ SyncFairness

----------------------------------------------------------------------------
(* Properties                                                              *)

\* Every state file written reads back: pendingIsHeld (src/state/schema.ts:168)
\* refuses, at the next reading only, a hold without the review mark or an
\* installed revision behind it, or at the installed revision, and the file
\* would be quarantined with every source in it.
ReadsBack ==
    \A s \in Sources : state[s].pending # Empty =>
        state[s].review /\ state[s].fetched \notin {Empty, state[s].pending}

\* A rule line is never out without the body it points at: links come before
\* lines and go after them, wherever a run is cut short, and those of a source that
\* is refused or cannot be read stay with its lines (planInstall).
LinesLinked ==
    \A s \in Sources : \A n \in NamesIn(rules[s]) : bodies[n] # 0

\* "a memory another source newly ships under an installed name collides instead
\* of taking the body over" (src/engine/plan-install.ts:390): the body a rule line
\* points at is its own source's; of a source on its way out, the line may go last.
Leaving(s) == run.verb = "remove" /\ ~Last(run.todo).doc[s].added

OwnBodies ==
    \A s \in Sources : \A n \in NamesIn(rules[s]) : bodies[n] = s \/ Leaving(s)

\* What an entry takes from a tree is within the cap.
Fits(entry, tree) == ~OverCap(NamesIn(Selected(entry, tree)))

\* Between commands, the record, the store copy and the rule file of every
\* source agree, and a held revision is parked whole; a rule file that lost its
\* last line to a hook run waits for an interactive one.
Agreement ==
    mishaps = 0 /\ Idle /\ ~owed => \A s \in Added(state) :
        /\ store[s] = Holding(state[s].fetched)
        /\ Fits(state[s], state[s].fetched) =>
               \/ rules[s] = Selected(state[s], state[s].fetched)
               \/ ~calm /\ Selected(state[s], state[s].fetched) = Empty
        /\ state[s].pending # Empty => pending[s] = Holding(state[s].pending)

\* "sync any number of times ... makes zero writes after the first"
\* (docs/guarantees.md:12).
Idempotent == calm => SyncPlan("none", {}, FALSE) = <<>>

\* A reviewed source's record and rule file move only to a revision a user
\* accepted or added (docs/keep-fresh.md:117).
ReviewGate ==
    [][\A s \in Sources : state[s].review /\ mishaps = 0 =>
        /\ state'[s].fetched \in {state[s].fetched, state[s].pending, Empty}
               \/ run.verb = "add"
        /\ \A n \in Names : rules'[s][n] \in {0, rules[s][n], state[s].fetched[n]}]_vars

\* The session hook leaves every rule file, body link and store copy in place.
HookKeeps ==
    [][run.verb = "hook" /\ run' # NoRun =>
        /\ \A s \in Sources : rules[s] # Empty => rules'[s] # Empty
        /\ \A n \in Names : bodies[n] # 0 => bodies'[n] # 0
        /\ \A s \in Sources : ~state[s].added => store'[s] = store[s]]_vars

\* Whatever was cut short or deferred, syncs bring every rule file in line
\* with a store copy there is to render, and take it out with its source.
Rederived ==
    []<>(\A s \in Sources : IF ~state[s].added THEN rules[s] = Empty
                            ELSE store[s].files # Empty /\ Fits(state[s], store[s].files) =>
                                rules[s] = Selected(state[s], store[s].files))

\* An unreviewed source keeps reaching the revision its upstream stands at,
\* where that is one the cap admits, a lost store copy included.
Admissible(tree) == tree # Empty /\ ~OverCap(NamesIn(tree))
CatchesUp ==
    \A s \in Sources : []<>(state[s].added /\ ~state[s].review /\ Admissible(Upstream(s)) =>
                               state[s].fetched = Upstream(s) /\ store[s].there)

\* "recovery from any crash is `maxims sync` again" (docs/state.md:36): syncs
\* bring the store copy and the rule file of every source back to its record.
Recovers ==
    []<>(\A s \in Added(state) : store[s] = Holding(state[s].fetched)
                                  /\ rules[s] = Selected(state[s], state[s].fetched))

============================================================================
