-------------------------- MODULE SourceSyncProofs --------------------------
(***************************************************************************)
(* Proofs about SourceSync, for any number of sources, names, versions and *)
(* revisions, any cap and any number of crashes.                           *)
(***************************************************************************)
EXTENDS SourceSyncPlans

----------------------------------------------------------------------------
(* The state file                                                          *)

\* What every state file written satisfies: it reads back, an installed source has
\* a revision, and only an installed source is under review.
Sane(doc) ==
    \A s \in Sources :
        /\ doc[s].pending # Empty =>
               doc[s].review /\ doc[s].fetched \notin {Empty, doc[s].pending}
        /\ doc[s].added => doc[s].fetched # Empty
        /\ doc[s].review => doc[s].added

LEMMA EmptyTree == Empty \in Trees
  BY DEF Empty, Trees

LEMMA UpstreamTree ==
  ASSUME Typed, NEW s \in Sources
  PROVE  Upstream(s) \in Trees
  <1>1. published[s] \in 1..Len(Revisions)
    BY DEF Typed
  <1>2. Revisions \in Seq(Trees)
    BY SyncAssumption DEF SyncAssumption, Trees
  <1> QED BY <1>1, <1>2, ElementOfSeq DEF Upstream

\* What a refresh is told of a source.
LEMMA OutcomeFacts ==
  ASSUME NEW s, NEW fetch, NEW down
  PROVE  LET o == Outcome(s, fetch, down)
         IN /\ o \in {"none", "not-due", "failed", "unchanged", "waiting", "held", "fresh"}
            /\ o = "fresh" => /\ state[s].added /\ Upstream(s) # Empty
                              /\ ~(store[s].there /\ state[s].review)
            /\ o = "held" => /\ state[s].added /\ state[s].review /\ Upstream(s) # Empty
                             /\ Upstream(s) # state[s].fetched
  BY DEF Outcome

\* What a refresh makes of an entry.
LEMMA RefreshedFacts ==
  ASSUME Typed, NEW s \in Sources,
         NEW o \in {"none", "not-due", "failed", "unchanged", "waiting", "held", "fresh"}
  PROVE  LET e == Refreshed(s, o)
         IN /\ e \in Entries /\ e.added = state[s].added /\ e.review = state[s].review
            /\ e.select = state[s].select
            /\ e.fetched = IF o = "fresh" THEN Upstream(s) ELSE state[s].fetched
            /\ e.pending = IF o = "held" THEN Upstream(s)
                           ELSE IF o \in {"fresh", "unchanged"} THEN Empty
                           ELSE state[s].pending
  <1>1. state[s] \in Entries /\ Upstream(s) \in Trees /\ Empty \in Trees
    BY UpstreamTree, EmptyTree DEF Typed, Docs
  <1>2. CASE o \in {"none", "not-due"}
    BY <1>1, <1>2 DEF Refreshed
  <1>3. CASE o \in {"failed", "waiting"}
    BY <1>1, <1>3 DEF Refreshed, Entries
  <1>4. CASE o = "unchanged"
    BY <1>1, <1>4 DEF Refreshed, WithoutPending, Entries
  <1>5. CASE o = "held"
    BY <1>1, <1>5 DEF Refreshed, Entries
  <1>6. CASE o = "fresh"
    BY <1>1, <1>6 DEF Refreshed, WithoutPending, Entries
  <1> QED BY <1>2, <1>3, <1>4, <1>5, <1>6

----------------------------------------------------------------------------
(* Plans                                                                   *)

\* A source that an attempt refused as it stood, with what its entry still selects.
WasRefused(s, doc) ==
    \E last : last[s].select = doc[s].select /\ Added(last) = Added(doc) /\ Stood(s, last, state)

\* What holds of every installation planned: the entries it leaves, the sources it
\* brings in anew, those it parks and those it holds back.
Planned(doc, fresh, held, heldNow) ==
    /\ doc \in Docs /\ Sane(doc)
    /\ Added(doc) \subseteq Added(state)
    /\ fresh \subseteq Added(doc) /\ fresh \intersect held = {}
    /\ heldNow \subseteq Added(doc)
    /\ \A s \in Added(doc) :
          doc[s].fetched = IF s \in fresh THEN Upstream(s) ELSE state[s].fetched
    /\ \A s \in Sources \ Added(doc) : doc[s].fetched \in {Empty, state[s].fetched}
    /\ \A s \in heldNow : doc[s].pending = Upstream(s) /\ Upstream(s) # Empty
    /\ \A s \in Sources \ heldNow : doc[s].pending \in {Empty, state[s].pending}
    /\ \A s \in fresh : ~(store[s].there /\ state[s].review)
    /\ \A s \in Added(doc) : doc[s].select \subseteq state[s].select
    /\ \A s \in Works(doc, held, TreesOf(fresh)) :
          ~OverCap(NamesIn(Selected(doc[s], TreesOf(fresh)[s])))
    /\ \A s \in held : WasRefused(s, doc)

\* The plan of a sync.
LEMMA SyncPlanned ==
  ASSUME Typed, Sane(state), NEW fetch, NEW down, NEW hook
  PROVE  \E doc, fresh, held, heldNow :
            /\ Planned(doc, fresh, held, heldNow) /\ Added(doc) = Added(state)
            /\ SyncPlan(fetch, down, hook) =
                  Build(Install(doc, fresh, held, heldNow, TreesOf(fresh)), hook)
                      \o When(doc # state, StateWrite(doc, off))
  <1> DEFINE outcome == [s \in Sources |-> Outcome(s, fetch, down)]
             brought == {s \in Sources : outcome[s] = "fresh"}
             after == [s \in Sources |-> Refreshed(s, outcome[s])]
             last == Attempts(brought, state, state)
             doc == RollBack(brought \ last.fresh, after)
             heldNow == HeldRevisions(outcome)
  <1>1. SyncPlan(fetch, down, hook) =
           Build(Install(doc, last.fresh, last.held, heldNow, TreesOf(last.fresh)), hook)
               \o When(doc # state, StateWrite(doc, off))
    BY Zenon DEF SyncPlan
  <1>2. /\ last.fresh \subseteq brought /\ last.held \subseteq Added(state)
        /\ last.fresh \intersect last.held = {}
        /\ \A s \in last.held : Stood(s, state, state)
        /\ Refusing(last, state, state) = {}
    <2>1. last \in Verdicts(brought, state, state) /\ Refusing(last, state, state) = {}
      BY AttemptsKept, AttemptsSettle
    <2> HIDE DEF last, brought
    <2> QED BY <2>1 DEF Verdicts
  <1> HIDE DEF last
  <1>3. ASSUME NEW s \in Sources
        PROVE  LET o == Outcome(s, fetch, down)
               IN doc[s] = IF o = "fresh" /\ s \notin last.fresh THEN state[s]
                           ELSE Refreshed(s, o)
    BY DEF RollBack
  <1>4. heldNow = {s \in Sources : Outcome(s, fetch, down) = "held"}
    BY DEF HeldRevisions
  <1>5. last.fresh \subseteq {s \in Sources : Outcome(s, fetch, down) = "fresh"}
    BY <1>2
  <1>6. doc = [s \in Sources |-> doc[s]]
    BY DEF RollBack
  <1> HIDE DEF doc, heldNow, outcome, brought, after
  <1>7. ASSUME NEW s \in Sources
        PROVE  /\ doc[s] \in Entries /\ doc[s].added = state[s].added
               /\ doc[s].review = state[s].review /\ doc[s].select = state[s].select
               /\ doc[s].fetched = IF s \in last.fresh THEN Upstream(s) ELSE state[s].fetched
               /\ s \in heldNow => doc[s].pending = Upstream(s)
               /\ s \notin heldNow => doc[s].pending \in {Empty, state[s].pending}
               /\ s \in last.fresh => doc[s].pending = Empty
    <2>1. state[s] \in Entries
      BY DEF Typed, Docs
    <2>2. CASE Outcome(s, fetch, down) = "fresh" /\ s \notin last.fresh
      BY <1>3, <1>4, <2>1, <2>2
    <2>3. CASE ~(Outcome(s, fetch, down) = "fresh" /\ s \notin last.fresh)
      <3>1. doc[s] = Refreshed(s, Outcome(s, fetch, down))
        BY <1>3, <2>3
      <3>2. Outcome(s, fetch, down) \in
                {"none", "not-due", "failed", "unchanged", "waiting", "held", "fresh"}
        BY OutcomeFacts
      <3> QED BY <1>4, <1>5, <2>3, <3>1, <3>2, RefreshedFacts
    <2> QED BY <2>2, <2>3
  <1>8. ASSUME NEW s \in Sources
        PROVE  /\ s \in last.fresh => /\ state[s].added /\ Upstream(s) # Empty
                                      /\ ~(store[s].there /\ state[s].review)
               /\ s \in heldNow => /\ state[s].added /\ state[s].review
                                   /\ Upstream(s) # Empty /\ Upstream(s) # state[s].fetched
    BY <1>4, <1>5, OutcomeFacts
  <1>9. Sane(doc)
    <2> SUFFICES ASSUME NEW s \in Sources
                 PROVE  /\ doc[s].pending # Empty =>
                              doc[s].review /\ doc[s].fetched \notin {Empty, doc[s].pending}
                        /\ doc[s].added => doc[s].fetched # Empty
                        /\ doc[s].review => doc[s].added
      BY DEF Sane
    <2>1. /\ state[s].pending # Empty =>
                 state[s].review /\ state[s].fetched \notin {Empty, state[s].pending}
          /\ state[s].added => state[s].fetched # Empty
          /\ state[s].review => state[s].added
      BY DEF Sane
    <2>2. CASE s \in last.fresh
      BY <1>7, <1>8, <2>1, <2>2
    <2>3. CASE s \in heldNow
      BY <1>4, <1>5, <1>7, <1>8, <2>1, <2>3
    <2>4. CASE s \notin last.fresh /\ s \notin heldNow
      BY <1>7, <2>1, <2>4
    <2> QED BY <2>2, <2>3, <2>4
  <1>10. doc \in Docs
    BY <1>6, <1>7 DEF Docs
  <1>11. Added(doc) = Added(state)
    BY <1>7 DEF Added
  <1>12. last.fresh \subseteq Added(doc) /\ heldNow \subseteq Added(doc)
    BY <1>4, <1>5, <1>8, <1>11 DEF Added
  <1>13. \A s \in Works(doc, last.held, TreesOf(last.fresh)) :
            ~OverCap(NamesIn(Selected(doc[s], TreesOf(last.fresh)[s])))
    <2> SUFFICES ASSUME NEW s \in Works(doc, last.held, TreesOf(last.fresh))
                 PROVE  ~OverCap(NamesIn(Selected(doc[s], TreesOf(last.fresh)[s])))
      OBVIOUS
    <2>1. s \in Sources /\ s \in Readable(TreesOf(last.fresh), state) \ last.held
      BY <1>11 DEF Works, Readable, Added
    <2>2. Selected(doc[s], TreesOf(last.fresh)[s]) = Selected(state[s], TreesOf(last.fresh)[s])
      BY <1>7, <2>1 DEF Selected, Owned
    <2> QED BY <1>2, <2>1, <2>2 DEF Refusing, RefusedIn
  <1>14. \A s \in last.held : WasRefused(s, doc)
    <2>1. \A s \in last.held : s \in Sources
      BY <1>2 DEF Added
    <2> QED BY <1>2, <1>7, <1>11, <2>1 DEF WasRefused
  <1>15. Planned(doc, last.fresh, last.held, heldNow)
    <2>1. last.fresh \subseteq Added(doc)
      BY <1>12
    <2> QED BY <1>2, <1>7, <1>8, <1>9, <1>10, <1>11, <1>12, <1>13, <1>14, <2>1 DEF Planned, Added
  <1> QED BY <1>1, <1>11, <1>15

\* What a tree brings in is a tree, of names it has.
LEMMA SelectedTree ==
  ASSUME NEW entry, NEW tree \in Trees
  PROVE  /\ Selected(entry, tree) \in Trees
         /\ \A n \in Names : Selected(entry, tree)[n] \in {0, tree[n]}
  BY DEF Selected, Trees

LEMMA TreesOfFacts ==
  ASSUME Typed, NEW fresh, NEW s \in Sources
  PROVE  /\ TreesOf(fresh)[s] = IF s \in fresh THEN Upstream(s) ELSE store[s].files
         /\ TreesOf(fresh)[s] \in Trees
  <1>1. TreesOf(fresh)[s] = IF s \in fresh THEN Upstream(s) ELSE store[s].files
    BY DEF TreesOf, InstalledTree
  <1>2. store[s].files \in Trees
    BY DEF Typed, Dirs
  <1> QED BY <1>1, <1>2, UpstreamTree

----------------------------------------------------------------------------
(* The changes of a plan, one by one                                       *)

\* A change of the swap of a store copy, or of a parked revision, for a tree.
Swaps(c, root, s, tree) ==
    /\ c.category = "store" /\ c.source = s
    /\ \/ c.kind \in {root.delete, root.mkdir}
       \/ /\ c.kind = root.write /\ c.name \in Names
          /\ c.version = tree[c.name] /\ tree[c.name] # 0

LEMMA SwapChange ==
  ASSUME NEW root, NEW dir, NEW s, NEW tree, NEW c \in SwapSet(root, dir, s, tree)
  PROVE  Swaps(c, root, s, tree)
  BY DEF SwapSet, Swaps, Change, NamesIn

\* The shapes of the changes of an installation.
Brought(c, fresh) == c.source \in fresh /\ Swaps(c, AtStore, c.source, Upstream(c.source))

Parked(c, heldNow) == c.source \in heldNow /\ Swaps(c, AtPending, c.source, Upstream(c.source))

SweptStore(c, doc) ==
    /\ c.category = "orphan" /\ c.kind = "delete-store"
    /\ c.source \in Sources \ Added(doc)

SweptPending(c, doc) ==
    /\ c.category = "orphan" /\ c.kind = "delete-pending"
    /\ c.source \in Sources /\ doc[c.source].pending = Empty

Linked(c, doc) ==
    /\ c.category = "destination" /\ c.kind = "link"
    /\ c.source \in Added(doc) /\ c.name \in Names

Unlinked(c, blocks, doc) ==
    /\ c.category = "removal" /\ c.kind = "unlink"
    /\ c.name \in Names \ Wanted(blocks) /\ Sweepable(DOMAIN blocks, doc)

RuleWritten(c, blocks) ==
    /\ c.category = "destination" /\ c.kind = "rules"
    /\ c.source \in DOMAIN blocks /\ c.tree = blocks[c.source] /\ c.tree # Empty

RuleGone(c) ==
    /\ c.category = "removal" /\ c.kind = "rules"
    /\ c.source \in Sources /\ c.tree = Empty

LEMMA InstallChange ==
  ASSUME NEW doc, NEW fresh, NEW held, NEW heldNow,
         NEW c \in InstallSet(doc, fresh, held, heldNow, TreesOf(fresh))
  PROVE  \/ Brought(c, fresh) \/ SweptStore(c, doc)
         \/ Parked(c, heldNow) \/ SweptPending(c, doc)
         \/ Linked(c, doc) \/ Unlinked(c, BlocksOf(doc, held, TreesOf(fresh)), doc)
         \/ RuleWritten(c, BlocksOf(doc, held, TreesOf(fresh))) \/ RuleGone(c)
  <1> DEFINE trees == TreesOf(fresh)
             works == Works(doc, held, trees)
             blocks == BlocksOf(doc, held, trees)
  <1>1. works \subseteq Sources /\ works \subseteq Added(doc) /\ DOMAIN blocks = works
    BY DEF Works, Readable, Added, BlocksOf, Blocks
  <1>2. \/ c \in AllBodies(works, blocks, fresh, trees)
        \/ c \in WrittenSet(blocks) \/ c \in EmptiedRuleSet(blocks) \/ c \in RuleSweepSet(doc)
        \/ c \in UnlinkSet(blocks, doc) \/ c \in StoreSweepSet(doc) \/ c \in AllParked(heldNow)
        \/ c \in PendingSweepSet(doc)
    BY DEF InstallSet
  <1>3. CASE c \in AllBodies(works, blocks, fresh, trees)
    <2>1. PICK s \in works : c \in BodySet(s, fresh, trees[s], blocks[s])
      BY <1>3 DEF AllBodies
    <2>2. CASE s \in fresh /\ c \in SwapSet(AtStore, store, s, trees[s])
      <3>1. Swaps(c, AtStore, s, trees[s])
        BY <2>2, SwapChange
      <3>2. trees[s] = Upstream(s) /\ c.source = s
        BY <1>1, <2>1, <2>2, <3>1 DEF TreesOf, Swaps
      <3> QED BY <2>2, <3>1, <3>2 DEF Brought
    <2>3. CASE c \in LinkSet(s, NamesIn(blocks[s]))
      BY <1>1, <2>3 DEF LinkSet, Linked, NamesIn, Change
    <2> QED BY <2>1, <2>2, <2>3 DEF BodySet
  <1>4. CASE c \in WrittenSet(blocks)
    BY <1>1, <1>4 DEF WrittenSet, RuleWritten, RuleFile
  <1>5. CASE c \in EmptiedRuleSet(blocks) \/ c \in RuleSweepSet(doc)
    BY <1>1, <1>5 DEF EmptiedRuleSet, RuleSweepSet, RuleGone, RuleFile
  <1>6. CASE c \in UnlinkSet(blocks, doc)
    BY <1>6 DEF UnlinkSet, Unlinked, Change
  <1>7. CASE c \in StoreSweepSet(doc)
    BY <1>7 DEF StoreSweepSet, SweptStore, Change
  <1>8. CASE c \in AllParked(heldNow)
    <2>1. PICK s \in heldNow : c \in SwapSet(AtPending, pending, s, Upstream(s))
      BY <1>8 DEF AllParked
    <2>2. Swaps(c, AtPending, s, Upstream(s))
      BY <2>1, SwapChange
    <2>3. c.source = s
      BY <2>2 DEF Swaps
    <2> QED BY <2>2, <2>3 DEF Parked
  <1>9. CASE c \in PendingSweepSet(doc)
    BY <1>9 DEF PendingSweepSet, SweptPending, Change
  <1> QED BY <1>2, <1>3, <1>4, <1>5, <1>6, <1>7, <1>8, <1>9

----------------------------------------------------------------------------
(* The runs that begin                                                     *)

\* The changes of a sequence.
In(t) == {t[i] : i \in 1..Len(t)}

LEMMA PlacedIn ==
  ASSUME NEW t, NEW A, Placed(t, A)
  PROVE  t \in Seq(A) /\ In(t) = A /\ InTurn(t)
  <1>1. t \in Seq(A) /\ InTurn(t) /\ \A x \in A : \E i \in 1..Len(t) : t[i] = x
    BY DEF Placed, Lists
  <1>2. \A i \in 1..Len(t) : t[i] \in A
    BY <1>1, ElementOfSeq
  <1>3. In(t) = A
    BY <1>1, <1>2, Zenon DEF In
  <1> QED BY <1>1, <1>3

\* The run of a sync, or of remove.
PlanStarted(t, doc, fresh, held, heldNow, hook, writes) ==
    /\ Planned(doc, fresh, held, heldNow)
    /\ hook => Added(doc) = Added(state)
    /\ writes \/ doc = state
    /\ LET held0 == InstallSet(doc, fresh, held, heldNow, TreesOf(fresh))
       IN Placed(t, (IF hook THEN Keepable(held0) ELSE held0)
                        \union IF writes THEN {StateChange(doc, off)} ELSE {})

\* The run of a verb that commits a state file, and lands a tree in the store
\* copy of one source or none.
CommitStarted(t, verb, doc, names, s, tree, lands) ==
    /\ doc \in Docs /\ Sane(doc) /\ names \in SUBSET Names
    /\ s \in Sources /\ tree \in Trees
    /\ lands => doc[s].fetched = tree
    /\ \A r \in Sources : doc[r].added /\ ~(lands /\ r = s) =>
                              state[r].added /\ doc[r].fetched = state[r].fetched
    /\ \A r \in Sources : doc[r].pending \in {Empty, state[r].pending}
    /\ verb # "add" => \A r \in Sources : doc[r].fetched \in {state[r].fetched, state[r].pending}
    /\ Placed(t, (IF lands THEN SwapSet(AtStore, store, s, tree) ELSE {})
                     \union {StateChange(doc, names)})

LEMMA PlanPlaced ==
  ASSUME NEW doc, NEW fresh, NEW held, NEW heldNow, Planned(doc, fresh, held, heldNow),
         NEW hook \in BOOLEAN, hook => Added(doc) = Added(state),
         NEW writes \in BOOLEAN, writes \/ doc = state
  PROVE  PlanStarted(Build(Install(doc, fresh, held, heldNow, TreesOf(fresh)), hook)
                         \o When(writes, StateWrite(doc, off)),
                     doc, fresh, held, heldNow, hook, writes)
  <1> DEFINE A == InstallSet(doc, fresh, held, heldNow, TreesOf(fresh))
             B == IF hook THEN Keepable(A) ELSE A
             t == Build(Install(doc, fresh, held, heldNow, TreesOf(fresh)), hook)
  <1>1. Placed(Install(doc, fresh, held, heldNow, TreesOf(fresh)), A)
    <2>1. heldNow \subseteq Sources /\ \A s \in heldNow : doc[s].pending # Empty
      BY DEF Planned, Added
    <2> QED BY <2>1, InstallPlaced
  <1>2. Placed(t, B)
    BY <1>1, BuildPlaced
  <1>3. \A c \in B : c.kind # "state"
    <2>1. \A c \in A : c.kind # "state"
      BY InstallChange, StoreKinds DEF Brought, Parked, Swaps, SweptStore, SweptPending,
         Linked, Unlinked, RuleWritten, RuleGone
    <2> HIDE DEF A
    <2> QED BY <2>1 DEF Keepable
  <1> HIDE DEF A, B, t
  <1>4. Placed(t \o When(writes, StateWrite(doc, off)),
               B \union IF writes THEN {StateChange(doc, off)} ELSE {})
    <2>1. CASE writes
      BY <1>2, <1>3, <2>1, WithStateWrite DEF When
    <2>2. CASE ~writes
      <3>1. t \in Seq(B)
        BY <1>2, PlacedIn
      <3>2. t \o <<>> = t
        BY <3>1, ConcatEmptySeq
      <3> QED BY <1>2, <2>2, <3>2 DEF When
    <2> QED BY <2>1, <2>2
  <1> QED BY <1>4 DEF PlanStarted, A, B, t

LEMMA CommitPlaced ==
  ASSUME NEW doc, NEW names, NEW s, NEW tree, NEW lands \in BOOLEAN
  PROVE  Placed(When(lands, Swap(AtStore, store, s, tree)) \o StateWrite(doc, names),
                (IF lands THEN SwapSet(AtStore, store, s, tree) ELSE {})
                    \union {StateChange(doc, names)})
  <1> DEFINE A == IF lands THEN SwapSet(AtStore, store, s, tree) ELSE {}
             t == When(lands, Swap(AtStore, store, s, tree))
  <1>1. Placed(t, A)
    <2>1. CASE lands
      BY <2>1, SwapList DEF When
    <2>2. CASE ~lands
      BY <2>2, ListsNone DEF When, Placed, InTurn
    <2> QED BY <2>1, <2>2
  <1>2. \A c \in A : c.kind # "state"
    BY SwapSetKinds, StoreKinds
  <1> HIDE DEF A, t
  <1>3. Placed(t \o StateWrite(doc, names), A \union {StateChange(doc, names)})
    BY <1>1, <1>2, WithStateWrite
  <1> QED BY <1>3 DEF A, t

\* The runs that delete as well, and after which all is calm.
Interactive == {"sync", "offline", "trailing", "update"}

\* What a run's start makes of its plan, for a verb.
PlanStarts(t, verb) ==
    \E doc, fresh, held, heldNow : \E writes \in BOOLEAN :
        verb # "add" /\ PlanStarted(t, doc, fresh, held, heldNow, verb = "hook", writes)

CommitStarts(t, verb) ==
    \E doc, names, s, tree : \E lands \in BOOLEAN :
        /\ verb \notin {"hook"} \union Interactive
        /\ CommitStarted(t, verb, doc, names, s, tree, lands)

Starts(t, verb) == PlanStarts(t, verb) \/ CommitStarts(t, verb)

\* A run begins, and nothing else changes.
Begins ==
    /\ run = NoRun /\ run' = [verb |-> run'.verb, todo |-> run'.todo]
    /\ Starts(run'.todo, run'.verb)
    /\ calm' = FALSE /\ (owed' = TRUE \/ PlanStarts(run'.todo, run'.verb))
    /\ UNCHANGED <<published, state, off, store, pending, rules, bodies, mishaps>>

LEMMA SyncBegins ==
  ASSUME Typed, Sane(state), NEW verb, verb # "add", Sync(verb)
  PROVE  Begins
  <1>1. PICK down \in SUBSET Sources :
           Start(verb, SyncPlan(Fetches(verb), down, verb = "hook"))
    BY DEF Sync
  <1> DEFINE t == SyncPlan(Fetches(verb), down, verb = "hook")
  <1>2. PICK doc, fresh, held, heldNow :
           /\ Planned(doc, fresh, held, heldNow) /\ Added(doc) = Added(state)
           /\ t = Build(Install(doc, fresh, held, heldNow, TreesOf(fresh)), verb = "hook")
                      \o When(doc # state, StateWrite(doc, off))
    BY SyncPlanned
  <1> HIDE DEF t
  <1>3. PlanStarted(t, doc, fresh, held, heldNow, verb = "hook", doc # state)
    <2>1. (verb = "hook") \in BOOLEAN /\ (doc # state) \in BOOLEAN
      OBVIOUS
    <2>2. (doc # state) \/ doc = state
      OBVIOUS
    <2> QED BY <1>2, <2>1, <2>2, PlanPlaced
  <1>4. PlanStarts(t, verb)
    <2>1. (doc # state) \in BOOLEAN
      OBVIOUS
    <2> QED BY <1>3, <2>1, Zenon DEF PlanStarts
  <1>5. run' = [verb |-> verb, todo |-> t] /\ run = NoRun
    BY <1>1 DEF Start, t, Sync, Idle
  <1>6. run'.verb = verb /\ run'.todo = t
    BY <1>5
  <1> QED BY <1>1, <1>4, <1>5, <1>6 DEF Begins, Start, Starts

\* What the state that a remove leaves has in common with the one it finds.
Lessens(doc) ==
    /\ doc \in Docs /\ Sane(doc) /\ Added(doc) \subseteq Added(state)
    /\ \A s \in Added(doc) :
          doc[s].fetched = state[s].fetched /\ doc[s].select \subseteq state[s].select
    /\ \A s \in Sources : doc[s].fetched \in {Empty, state[s].fetched}
    /\ \A s \in Sources : doc[s].pending \in {Empty, state[s].pending}

LEMMA RemoveBegins ==
  ASSUME NEW doc, Lessens(doc), RemoveFrom(doc)
  PROVE  Begins
  <1> DEFINE held == Attempts({}, doc, state).held
             i == Install(doc, {}, held, {}, TreesOf({}))
             t == i \o StateWrite(doc, off)
  <1>1. Start("remove", t) /\ run = NoRun
    BY Zenon DEF RemoveFrom, Ready, Idle
  <1>2. t = Build(i, FALSE) \o When(TRUE, StateWrite(doc, off))
    BY DEF Build, When
  <1>8. Attempts({}, doc, state) \in Verdicts({}, doc, state)
    BY AttemptsKept
  <1>9. Attempts({}, doc, state).fresh = {} /\ \A s \in held : Stood(s, doc, state)
    BY <1>8 DEF Verdicts
  <1>10. \A s \in held : WasRefused(s, doc)
    BY <1>9 DEF WasRefused
  <1>11. \A s \in Works(doc, held, TreesOf({})) :
            ~OverCap(NamesIn(Selected(doc[s], TreesOf({})[s])))
    <2>1. Refusing(Attempts({}, doc, state), doc, state) = {}
      BY AttemptsSettle
    <2> QED BY <1>9, <2>1 DEF Refusing, RefusedIn, Works
  <1> HIDE DEF held
  <1>3. Planned(doc, {}, held, {})
    BY <1>10, <1>11 DEF Planned, Lessens
  <1>4. PlanStarted(t, doc, {}, held, {}, FALSE, TRUE)
    <2>1. FALSE \in BOOLEAN /\ TRUE \in BOOLEAN
      OBVIOUS
    <2> HIDE DEF t
    <2> QED BY <1>2, <1>3, <2>1, PlanPlaced
  <1> HIDE DEF t
  <1>5. PlanStarts(t, "remove")
    BY <1>4 DEF PlanStarts
  <1>6. run' = [verb |-> "remove", todo |-> t]
    BY <1>1 DEF Start
  <1>7. run'.verb = "remove" /\ run'.todo = t
    BY <1>6
  <1> QED BY <1>1, <1>5, <1>6, <1>7 DEF Begins, Start, Starts

LEMMA WithoutSourceLessens ==
  ASSUME Typed, Sane(state), NEW s \in Sources
  PROVE  Lessens(WithoutSource(s))
  <1> DEFINE doc == WithoutSource(s)
  <1>1. ASSUME NEW t \in Sources
        PROVE  doc[t] = IF t = s THEN NoEntry ELSE [state[t] EXCEPT !.elders = @ \ {s}]
    BY DEF WithoutSource
  <1>2. doc = [t \in Sources |-> doc[t]]
    BY DEF WithoutSource
  <1> HIDE DEF doc
  <1>3. ASSUME NEW t \in Sources
        PROVE  /\ doc[t] \in Entries
               /\ t # s => /\ doc[t].added = state[t].added
                           /\ doc[t].review = state[t].review
                           /\ doc[t].select = state[t].select
                           /\ doc[t].fetched = state[t].fetched
                           /\ doc[t].pending = state[t].pending
               /\ t = s => /\ ~doc[t].added /\ ~doc[t].review
                           /\ doc[t].fetched = Empty /\ doc[t].pending = Empty
    <2>1. state[t] \in Entries /\ NoEntry \in Entries
      BY EmptyTree DEF Typed, Docs, NoEntry, Entries
    <2>2. CASE t = s
      <3>1. doc[t] = NoEntry
        BY <1>1, <2>2
      <3>2. /\ ~NoEntry.added /\ ~NoEntry.review
            /\ NoEntry.fetched = Empty /\ NoEntry.pending = Empty
        BY DEF NoEntry
      <3> QED BY <2>1, <2>2, <3>1, <3>2
    <2>3. CASE t # s
      BY <1>1, <2>1, <2>3 DEF Entries
    <2> QED BY <2>2, <2>3
  <1>4. doc \in Docs
    BY <1>2, <1>3 DEF Docs
  <1>5. Sane(doc)
    BY <1>3 DEF Sane
  <1> QED BY <1>3, <1>4, <1>5 DEF Lessens, Added, doc

LEMMA WithoutMemoryLessens ==
  ASSUME Typed, Sane(state), NEW s \in Sources, NEW n
  PROVE  Lessens(WithoutMemory(s, n))
  <1> DEFINE rest == Removable(s) \ {n}
             doc == [state EXCEPT ![s].select = rest]
  <1>1. rest \subseteq Names
    BY DEF Removable, Owned, NamesIn
  <1>2. CASE rest = {}
    BY <1>2, WithoutSourceLessens DEF WithoutMemory
  <1>3. CASE rest # {}
    <2>1. WithoutMemory(s, n) = doc
      BY <1>3 DEF WithoutMemory
    <2> HIDE DEF rest
    <2>2. ASSUME NEW t \in Sources
          PROVE  /\ doc[t] \in Entries
                 /\ doc[t].added = state[t].added /\ doc[t].review = state[t].review
                 /\ doc[t].fetched = state[t].fetched /\ doc[t].pending = state[t].pending
                 /\ doc[t].select \subseteq state[t].select
      <3>1. state[t] \in Entries /\ state[s] \in Entries /\ s \in DOMAIN state
        BY DEF Typed, Docs
      <3>2. doc[t] = IF t = s THEN [state[s] EXCEPT !.select = rest] ELSE state[t]
        BY DEF Typed, Docs
      <3>5. rest \subseteq state[s].select
        BY DEF rest, Removable, Owned
      <3>3. CASE t = s
        BY <1>1, <3>1, <3>2, <3>3, <3>5 DEF Entries
      <3>4. CASE t # s
        BY <3>1, <3>2, <3>4
      <3> QED BY <3>3, <3>4
    <2>3. doc = [t \in Sources |-> doc[t]]
      BY DEF Typed, Docs
    <2> HIDE DEF doc
    <2>4. doc \in Docs
      BY <2>2, <2>3 DEF Docs
    <2>5. Sane(doc)
      BY <2>2 DEF Sane
    <2> QED BY <2>1, <2>2, <2>4, <2>5 DEF Lessens, Added
  <1> QED BY <1>2, <1>3

LEMMA CommitBegins ==
  ASSUME NEW verb, verb \notin {"hook"} \union Interactive, run = NoRun,
         NEW doc, NEW names, NEW s, NEW tree, NEW lands \in BOOLEAN,
         doc \in Docs, Sane(doc), names \in SUBSET Names, s \in Sources, tree \in Trees,
         lands => doc[s].fetched = tree,
         \A r \in Sources : doc[r].added /\ ~(lands /\ r = s) =>
                                state[r].added /\ doc[r].fetched = state[r].fetched,
         \A r \in Sources : doc[r].pending \in {Empty, state[r].pending},
         verb # "add" => \A r \in Sources : doc[r].fetched \in {state[r].fetched, state[r].pending},
         CommitBoth(verb, When(lands, Swap(AtStore, store, s, tree)), doc, names)
  PROVE  Begins
  <1> DEFINE t == When(lands, Swap(AtStore, store, s, tree)) \o StateWrite(doc, names)
  <1>1. Start(verb, t) /\ owed' = TRUE
    BY DEF CommitBoth
  <1>2. CommitStarted(t, verb, doc, names, s, tree, lands)
    BY CommitPlaced DEF CommitStarted
  <1> HIDE DEF t
  <1>3. CommitStarts(t, verb)
    BY <1>2, Zenon DEF CommitStarts
  <1>4. run' = [verb |-> verb, todo |-> t]
    BY <1>1 DEF Start
  <1>5. run'.verb = verb /\ run'.todo = t
    BY <1>4
  <1> QED BY <1>1, <1>3, <1>4, <1>5 DEF Begins, Start, Starts

\* A commit that changes the entry of one source.
LEMMA OneEntry ==
  ASSUME Typed, Sane(state), NEW s \in Sources, NEW e \in Entries,
         e.pending # Empty => e.review /\ e.fetched \notin {Empty, e.pending},
         e.added => e.fetched # Empty, e.review => e.added
  PROVE  LET doc == [state EXCEPT ![s] = e]
         IN /\ doc \in Docs /\ Sane(doc) /\ doc[s] = e
            /\ \A r \in Sources \ {s} : doc[r] = state[r]
  <1> DEFINE doc == [state EXCEPT ![s] = e]
  <1>1. doc[s] = e /\ \A r \in Sources \ {s} : doc[r] = state[r]
    BY DEF Typed, Docs
  <1>2. doc \in Docs
    BY DEF Typed, Docs
  <1> HIDE DEF doc
  <1>3. Sane(doc)
    BY <1>1 DEF Sane
  <1> QED BY <1>1, <1>2, <1>3 DEF doc

LEMMA AddBegins ==
  ASSUME Typed, Sane(state), NEW s \in Sources, Add(s)
  PROVE  Begins
  <1>1. PICK review \in {r \in BOOLEAN : r => "review" \in Verbs} :
           LET doc == [state EXCEPT ![s] = AddedEntry(s, review)]
           IN /\ Ready("add") /\ Staged(s)
              /\ Commit("add", Swap(AtStore, store, s, Upstream(s)), doc)
    BY DEF Add
  <1> DEFINE e == AddedEntry(s, review)
             doc == [state EXCEPT ![s] = e]
  <1>2. /\ e \in Entries /\ e.added /\ e.fetched = Upstream(s) /\ e.pending = Empty
        /\ Upstream(s) # Empty /\ Upstream(s) \in Trees
    <2>1. state[s].elders \subseteq Sources /\ Added(state) \subseteq Sources
      BY DEF Typed, Docs, Entries, Added
    <2>2. (IF state[s].added THEN state[s].elders ELSE Added(state) \ {s}) \in SUBSET Sources
      BY <2>1
    <2>3. Upstream(s) # Empty
      BY <1>1 DEF Staged
    <2> QED BY <2>2, <2>3, UpstreamTree, EmptyTree DEF AddedEntry, Entries
  <1>0. PICK lands \in BOOLEAN : lands
    OBVIOUS
  <1>3. CommitBoth("add", When(lands, Swap(AtStore, store, s, Upstream(s))), doc, off)
    BY <1>0, <1>1 DEF Commit, When
  <1> HIDE DEF e
  <1>4. /\ doc \in Docs /\ Sane(doc) /\ doc[s] = e
        /\ \A r \in Sources \ {s} : doc[r] = state[r]
    BY <1>2, OneEntry
  <1> HIDE DEF doc
  <1>5. \A r \in Sources : doc[r].added /\ ~(lands /\ r = s) =>
                               state[r].added /\ doc[r].fetched = state[r].fetched
    BY <1>0, <1>4
  <1>6. \A r \in Sources : doc[r].pending \in {Empty, state[r].pending}
    BY <1>2, <1>4
  <1>7. run = NoRun /\ off \in SUBSET Names
    BY <1>1 DEF Ready, Idle, Typed
  <1>8. lands => doc[s].fetched = Upstream(s)
    BY <1>2, <1>4
  <1>9. Upstream(s) \in Trees
    BY <1>2
  <1>10. /\ "add" \notin {"hook"} \union Interactive
         /\ "add" # "add" =>
                \A r \in Sources : doc[r].fetched \in {state[r].fetched, state[r].pending}
    BY DEF Interactive
  <1> QED BY <1>3, <1>4, <1>5, <1>6, <1>7, <1>8, <1>9, <1>10, CommitBegins

LEMMA DisableBegins ==
  ASSUME Typed, Sane(state), NEW n \in Names, Disable(n)
  PROVE  Begins
  <1> DEFINE names == (off \ {n}) \union ({n} \ off)
  <1>1. PICK s \in Sources : TRUE
    BY DEF Disable, Added
  <1>2. CommitBoth("disable", When(FALSE, Swap(AtStore, store, s, Empty)), state, names)
    BY DEF Disable, When
  <1>3. names \in SUBSET Names /\ state \in Docs /\ run = NoRun
    BY DEF Typed, Disable, Ready, Idle
  <1> HIDE DEF names
  <1>4. \A r \in Sources : state[r].added /\ ~(FALSE /\ r = s) =>
                               state[r].added /\ state[r].fetched = state[r].fetched
    OBVIOUS
  <1>5. \A r \in Sources : state[r].pending \in {Empty, state[r].pending}
    OBVIOUS
  <1>6. \A r \in Sources : state[r].fetched \in {state[r].fetched, state[r].pending}
    OBVIOUS
  <1>7. /\ FALSE \in BOOLEAN /\ (FALSE => state[s].fetched = Empty)
        /\ "disable" \notin {"hook"} \union Interactive /\ Empty \in Trees
    BY EmptyTree DEF Interactive
  <1> QED BY <1>2, <1>3, <1>4, <1>5, <1>6, <1>7, CommitBegins

LEMMA ReviewBegins ==
  ASSUME Typed, Sane(state), NEW s \in Sources, Review(s)
  PROVE  Begins
  <1> DEFINE e == [state[s] EXCEPT !.review = TRUE]
             doc == [state EXCEPT ![s] = e]
  <1>1. /\ e \in Entries /\ e.added /\ e.review
        /\ e.fetched = state[s].fetched /\ e.pending = state[s].pending
    BY DEF Typed, Docs, Entries, Review
  <1>2. CommitBoth("review", When(FALSE, Swap(AtStore, store, s, Empty)), doc, off)
    BY DEF Review, Commit, When
  <1> HIDE DEF e
  <1>3. /\ doc \in Docs /\ Sane(doc) /\ doc[s] = e
        /\ \A r \in Sources \ {s} : doc[r] = state[r]
    <2>1. /\ state[s].pending # Empty => state[s].fetched \notin {Empty, state[s].pending}
          /\ state[s].added => state[s].fetched # Empty
          /\ state[s].added
      BY DEF Sane, Review
    <2> QED BY <1>1, <2>1, OneEntry
  <1> HIDE DEF doc
  <1>4. \A r \in Sources : doc[r].added /\ ~(FALSE /\ r = s) =>
                               state[r].added /\ doc[r].fetched = state[r].fetched
    BY <1>1, <1>3 DEF Review
  <1>5. \A r \in Sources : doc[r].pending \in {Empty, state[r].pending}
    BY <1>1, <1>3
  <1>6. \A r \in Sources : doc[r].fetched \in {state[r].fetched, state[r].pending}
    BY <1>1, <1>3
  <1>7. /\ FALSE \in BOOLEAN /\ (FALSE => doc[s].fetched = Empty)
        /\ "review" \notin {"hook"} \union Interactive
        /\ Empty \in Trees /\ off \in SUBSET Names /\ run = NoRun
    BY EmptyTree DEF Typed, Review, Ready, Idle, Interactive
  <1> QED BY <1>2, <1>3, <1>4, <1>5, <1>6, <1>7, CommitBegins

LEMMA ApplyHeldBegins ==
  ASSUME Typed, Sane(state), NEW verb \in {"accept", "unreview"}, NEW s \in Sources,
         NEW review \in {state[s].review, FALSE}, Ready(verb),
         ApplyHeld(verb, s, review)
  PROVE  Begins
  <1> DEFINE held == state[s].pending # Empty
             lands == held /\ HeldIntact(s)
             tree == pending[s].files
             e == [WithoutPending(state[s]) EXCEPT
                      !.review = review, !.fetched = IF lands THEN state[s].pending ELSE @]
             doc == [state EXCEPT ![s] = e]
  <1>1. CommitBoth(verb, When(lands, Swap(AtStore, store, s, tree)), doc, off)
    BY Zenon DEF ApplyHeld, Commit
  <1>2. /\ state[s] \in Entries /\ tree \in Trees /\ state \in Docs /\ off \in SUBSET Names
        /\ review \in BOOLEAN
    BY DEF Typed, Docs, Dirs, Entries
  <1>3. /\ lands \in BOOLEAN
        /\ lands => state[s].pending # Empty /\ tree = state[s].pending
    BY DEF HeldIntact
  <1> HIDE DEF held, lands, tree
  <1>4. /\ e \in Entries /\ e.added = state[s].added /\ e.review = review /\ e.pending = Empty
        /\ e.fetched = IF lands THEN state[s].pending ELSE state[s].fetched
    <2> DEFINE f == IF lands THEN state[s].pending ELSE state[s].fetched
               w == [state[s] EXCEPT !.pending = Empty]
    <2>1. f \in Trees
      BY <1>2 DEF Entries
    <2>2. w \in Entries /\ w.fetched = state[s].fetched /\ w.added = state[s].added /\ w.pending = Empty
      BY <1>2, EmptyTree DEF Entries
    <2>3. e = [w EXCEPT !.review = review, !.fetched = f]
      BY <2>2 DEF WithoutPending
    <2> HIDE DEF f, w, e
    <2>4. /\ e \in Entries /\ e.added = w.added /\ e.review = review /\ e.pending = w.pending
          /\ e.fetched = f
      BY <1>2, <2>1, <2>2, <2>3 DEF Entries
    <2> QED BY <2>2, <2>4 DEF f
  <1> HIDE DEF e
  <1>5. /\ doc \in Docs /\ Sane(doc) /\ doc[s] = e
        /\ \A r \in Sources \ {s} : doc[r] = state[r]
    <2>1. /\ state[s].pending # Empty => state[s].fetched \notin {Empty, state[s].pending}
          /\ state[s].added => state[s].fetched # Empty
          /\ state[s].review => state[s].added
      BY DEF Sane
    <2>2. e.added => e.fetched # Empty
      BY <1>3, <1>4, <2>1
    <2>3. e.review => e.added
      BY <1>4, <2>1
    <2>4. e \in Entries /\ ~(e.pending # Empty)
      BY <1>4
    <2> QED BY <2>2, <2>3, <2>4, OneEntry
  <1> HIDE DEF doc
  <1>6. \A r \in Sources : doc[r].added /\ ~(lands /\ r = s) =>
                               state[r].added /\ doc[r].fetched = state[r].fetched
    BY <1>4, <1>5
  <1>7. \A r \in Sources : doc[r].pending \in {Empty, state[r].pending}
    BY <1>4, <1>5
  <1>8. \A r \in Sources : doc[r].fetched \in {state[r].fetched, state[r].pending}
    BY <1>4, <1>5
  <1>9. /\ lands => doc[s].fetched = tree
        /\ verb \notin {"hook"} \union Interactive /\ run = NoRun
    BY <1>3, <1>4, <1>5 DEF Ready, Idle, Interactive
  <1> QED BY <1>1, <1>2, <1>3, <1>5, <1>6, <1>7, <1>8, <1>9, CommitBegins

----------------------------------------------------------------------------
(* What every state has                                                    *)

\* The form of a queued change.
Sound(c) ==
    \/ /\ c.kind \in {"delete-store", "mkdir-store", "delete-pending", "mkdir-pending"}
       /\ c.source \in Sources
    \/ /\ c.kind \in {"write-store", "write-pending"}
       /\ c.source \in Sources /\ c.name \in Names /\ c.version \in Versions \union {0}
    \/ c.kind = "link" /\ c.source \in Sources /\ c.name \in Names
    \/ c.kind = "unlink" /\ c.name \in Names
    \/ c.kind = "rules" /\ c.source \in Sources /\ c.tree \in Trees
    \/ c.kind = "state" /\ c.doc \in Docs /\ Sane(c.doc) /\ c.off \in SUBSET Names

\* A queue of sound changes in which each is in turn.
Queue(t) == t \in Seq(In(t)) /\ InTurn(t) /\ \A c \in In(t) : Sound(c)

Basic ==
    /\ Typed /\ mishaps \in Nat /\ Sane(state)
    /\ run = [verb |-> run.verb, todo |-> run.todo] /\ Queue(run.todo)

LEMMA QueueTail ==
  ASSUME NEW t, Queue(t), t # <<>>
  PROVE  /\ In(t) = {Head(t)} \union In(Tail(t)) /\ Queue(Tail(t))
         /\ \A c \in In(Tail(t)) : May(Head(t), c)
  <1>1. /\ t \in Seq(In(t)) /\ InTurn(t)
    BY DEF Queue
  <1>2. /\ InTurn(Tail(t)) /\ Tail(t) \in Seq(In(t))
        /\ \A i \in 1..Len(Tail(t)) : May(Head(t), Tail(t)[i])
    BY <1>1, InTurnTail
  <1>3. /\ Len(t) \in Nat /\ Len(t) # 0 /\ Head(t) = t[1] /\ Len(Tail(t)) = Len(t) - 1
        /\ \A i \in 1..Len(Tail(t)) : Tail(t)[i] = t[i + 1]
    BY <1>1, LenProperties, EmptySeq, HeadTailProperties
  <1>4. \A c \in In(Tail(t)) : \E i \in 1..Len(Tail(t)) : c = Tail(t)[i]
    BY DEF In
  <1>5. In(Tail(t)) \subseteq In(t)
    <2>1. ASSUME NEW i \in 1..Len(Tail(t)) PROVE Tail(t)[i] \in In(t)
      <3>1. i + 1 \in 1..Len(t)
        BY <1>3
      <3> QED BY <1>3, <3>1 DEF In
    <2> QED BY <1>4, <2>1
  <1>6. Head(t) \in In(t)
    <2>1. 1 \in 1..Len(t)
      BY <1>3
    <2> QED BY <1>3, <2>1 DEF In
  <1>7. ASSUME NEW i \in 1..Len(t)
        PROVE  t[i] \in {Head(t)} \union In(Tail(t))
    <2>1. CASE i = 1
      BY <1>3, <2>1
    <2>2. CASE i # 1
      <3>1. i - 1 \in 1..Len(Tail(t)) /\ (i - 1) + 1 = i
        BY <1>3, <2>2
      <3>2. Tail(t)[i - 1] = t[i]
        BY <1>3, <3>1
      <3>3. Tail(t)[i - 1] \in In(Tail(t))
        BY <3>1 DEF In
      <3> QED BY <3>2, <3>3
    <2> QED BY <2>1, <2>2
  <1>8. In(t) = {Head(t)} \union In(Tail(t))
    <2>1. \A c \in In(t) : \E i \in 1..Len(t) : c = t[i]
      BY DEF In
    <2> QED BY <1>5, <1>6, <1>7, <2>1
  <1>9. Tail(t) \in Seq(In(Tail(t)))
    <2>1. ASSUME NEW i \in 1..Len(Tail(t)) PROVE Tail(t)[i] \in In(Tail(t))
      BY DEF In
    <2>2. Len(Tail(t)) \in Nat
      BY <1>2, LenProperties
    <2>3. Tail(t) = [i \in 1..Len(Tail(t)) |-> Tail(t)[i]]
      <3>1. Tail(t) \in [1..Len(Tail(t)) -> In(t)]
        BY <1>2, LenProperties
      <3> QED BY <3>1
    <2>4. Tail(t) \in [1..Len(Tail(t)) -> In(Tail(t))]
      BY <2>1, <2>3
    <2> QED BY <2>2, <2>4, CountedSeq
  <1>10. \A c \in In(Tail(t)) : May(Head(t), c)
    BY <1>2, <1>4
  <1>11. Queue(Tail(t))
    BY <1>2, <1>5, <1>9 DEF Queue
  <1> QED BY <1>8, <1>10, <1>11

LEMMA QueueNone == Queue(<<>>) /\ In(<<>>) = {}
  <1>1. In(<<>>) = {}
    BY DEF In
  <1>2. InTurn(<<>>)
    BY DEF InTurn
  <1> QED BY <1>1, <1>2 DEF Queue

LEMMA SwapSound ==
  ASSUME NEW root \in {AtStore, AtPending}, NEW s \in Sources, NEW tree \in Trees, NEW c,
         Swaps(c, root, s, tree)
  PROVE  Sound(c)
  <1>1. /\ root.delete \in {"delete-store", "delete-pending"}
        /\ root.mkdir \in {"mkdir-store", "mkdir-pending"}
        /\ root.write \in {"write-store", "write-pending"}
    BY DEF AtStore, AtPending
  <1>2. \A n \in Names : tree[n] \in Versions \union {0}
    BY DEF Trees
  <1> QED BY <1>1, <1>2 DEF Swaps, Sound

\* The queues runs begin with.
LEMMA StartsQueue ==
  ASSUME Typed, Sane(state), NEW t, NEW verb, Starts(t, verb)
  PROVE  Queue(t)
  <1>1. CASE \E doc, fresh, held, heldNow : \E writes \in BOOLEAN :
                 PlanStarted(t, doc, fresh, held, heldNow, verb = "hook", writes)
    <2>0. PICK doc, fresh, held, heldNow : \E writes \in BOOLEAN :
                 PlanStarted(t, doc, fresh, held, heldNow, verb = "hook", writes)
      BY <1>1
    <2>1. PICK writes \in BOOLEAN :
                 PlanStarted(t, doc, fresh, held, heldNow, verb = "hook", writes)
      BY <2>0
    <2> DEFINE A == InstallSet(doc, fresh, held, heldNow, TreesOf(fresh))
               B == (IF verb = "hook" THEN Keepable(A) ELSE A)
                        \union IF writes THEN {StateChange(doc, off)} ELSE {}
    <2>2. Placed(t, B) /\ Planned(doc, fresh, held, heldNow)
      BY <2>1 DEF PlanStarted
    <2>3. In(t) = B /\ t \in Seq(B) /\ InTurn(t)
      <3> HIDE DEF B
      <3> QED BY <2>2, PlacedIn
    <2>4. \A c \in A : Sound(c)
      <3> SUFFICES ASSUME NEW c \in A PROVE Sound(c)
        OBVIOUS
      <3> DEFINE blocks == BlocksOf(doc, held, TreesOf(fresh))
      <3>1. \/ Brought(c, fresh) \/ SweptStore(c, doc)
            \/ Parked(c, heldNow) \/ SweptPending(c, doc)
            \/ Linked(c, doc) \/ Unlinked(c, blocks, doc)
            \/ RuleWritten(c, blocks) \/ RuleGone(c)
        BY InstallChange
      <3>2. fresh \subseteq Sources /\ heldNow \subseteq Sources
        BY <2>2 DEF Planned, Added
      <3>3. CASE Brought(c, fresh)
        BY <3>2, <3>3, SwapSound, UpstreamTree DEF Brought
      <3>4. CASE Parked(c, heldNow)
        BY <3>2, <3>4, SwapSound, UpstreamTree DEF Parked
      <3>5. CASE SweptStore(c, doc) \/ SweptPending(c, doc)
        BY <3>5 DEF SweptStore, SweptPending, Sound
      <3>6. CASE Linked(c, doc) \/ Unlinked(c, blocks, doc)
        BY <3>6 DEF Linked, Unlinked, Sound, Added
      <3>7. CASE RuleWritten(c, blocks)
        <4>1. DOMAIN blocks \subseteq Sources
          BY DEF BlocksOf, Blocks, Works, Readable, Added
        <4>2. ASSUME NEW s \in DOMAIN blocks PROVE blocks[s] \in Trees
          <5>1. blocks[s] = Selected(doc[s], TreesOf(fresh)[s])
            BY DEF BlocksOf, Blocks
          <5> QED BY <4>1, <5>1, TreesOfFacts, SelectedTree
        <4> QED BY <3>7, <4>1, <4>2 DEF RuleWritten, Sound
      <3>8. CASE RuleGone(c)
        BY <3>8, EmptyTree DEF RuleGone, Sound
      <3> QED BY <3>1, <3>3, <3>4, <3>5, <3>6, <3>7, <3>8
    <2>5. Sound(StateChange(doc, off))
      BY <2>2 DEF Planned, StateChange, Sound, Typed
    <2>6. \A c \in B : Sound(c)
      <3> HIDE DEF A
      <3> QED BY <2>4, <2>5 DEF Keepable
    <2> QED BY <2>3, <2>6 DEF Queue
  <1>2. CASE \E doc, names, s, tree : \E lands \in BOOLEAN :
                 CommitStarted(t, verb, doc, names, s, tree, lands)
    <2>0. PICK doc, names, s, tree : \E lands \in BOOLEAN :
                 CommitStarted(t, verb, doc, names, s, tree, lands)
      BY <1>2
    <2>1. PICK lands \in BOOLEAN : CommitStarted(t, verb, doc, names, s, tree, lands)
      BY <2>0
    <2> DEFINE A == SwapSet(AtStore, store, s, tree)
               B == (IF lands THEN A ELSE {}) \union {StateChange(doc, names)}
    <2>2. /\ Placed(t, B) /\ doc \in Docs /\ Sane(doc) /\ names \in SUBSET Names
          /\ s \in Sources /\ tree \in Trees
      BY <2>1 DEF CommitStarted
    <2>3. In(t) = B /\ t \in Seq(B) /\ InTurn(t)
      <3> HIDE DEF B
      <3> QED BY <2>2, PlacedIn
    <2>4. \A c \in A : Sound(c)
      BY <2>2, SwapChange, SwapSound
    <2>5. Sound(StateChange(doc, names))
      BY <2>2 DEF StateChange, Sound
    <2>6. \A c \in B : Sound(c)
      <3> HIDE DEF A
      <3> QED BY <2>4, <2>5
    <2> QED BY <2>3, <2>6 DEF Queue
  <1> QED BY <1>1, <1>2 DEF Starts, PlanStarts, CommitStarts

----------------------------------------------------------------------------
(* Steps                                                                   *)

\* A run ends, or is cut short.
Closes ==
    /\ run' = NoRun
    /\ UNCHANGED <<published, state, off, store, pending, rules, bodies>>
    /\ \/ /\ mishaps' = mishaps /\ run.todo = <<>> /\ owed' = owed
          /\ calm' = (run.verb \in Interactive)
       \/ mishaps' = mishaps + 1 /\ calm' = FALSE

\* Something happens between runs.
Drifts ==
    /\ run = NoRun /\ run' = NoRun
    /\ UNCHANGED <<off, rules, bodies, owed>> /\ calm' = FALSE
    /\ Typed'
    /\ \A s \in Sources :
          /\ state'[s].added = state[s].added /\ state'[s].review = state[s].review
          /\ state'[s].fetched = state[s].fetched /\ state'[s].pending = state[s].pending
          /\ state'[s].select = state[s].select
    /\ \/ mishaps' = mishaps /\ UNCHANGED <<store, pending>>
       \/ /\ mishaps' = mishaps + 1
          /\ \A s \in Sources : store'[s] \in {store[s], Gone}

LEMMA PublishDrifts ==
  ASSUME Typed, NEW s \in Sources, Publish(s)
  PROVE  Drifts
  <1>1. PICK i \in DOMAIN Revisions : published' = [published EXCEPT ![s] = i]
    BY DEF Publish
  <1>2. i \in 1..Len(Revisions)
    BY <1>1, SyncAssumption DEF SyncAssumption
  <1>3. published' \in [Sources -> 1..Len(Revisions)]
    BY <1>1, <1>2 DEF Typed
  <1>4. /\ UNCHANGED <<state, off, store, pending, rules, bodies, run, owed, mishaps>>
        /\ run = NoRun /\ calm' = FALSE
    BY DEF Publish, Idle
  <1>5. Typed'
    BY <1>3, <1>4 DEF Typed
  <1> QED BY <1>4, <1>5 DEF Drifts

LEMMA TimeDrifts ==
  ASSUME Typed, NEW s \in Sources, TimePasses(s)
  PROVE  Drifts
  <1>1. /\ UNCHANGED <<published, off, store, pending, rules, bodies, run, owed, mishaps>>
        /\ run = NoRun /\ state' = [state EXCEPT ![s].due = TRUE] /\ calm' = FALSE
    BY DEF TimePasses, Idle
  <1>2. ASSUME NEW r \in Sources
        PROVE  /\ state'[r] \in Entries /\ state'[r].added = state[r].added
               /\ state'[r].review = state[r].review /\ state'[r].select = state[r].select
               /\ state'[r].fetched = state[r].fetched /\ state'[r].pending = state[r].pending
    <2>1. state[r] \in Entries /\ state[s] \in Entries /\ s \in DOMAIN state
      BY DEF Typed, Docs
    <2>2. state'[r] = IF r = s THEN [state[s] EXCEPT !.due = TRUE] ELSE state[r]
      BY <1>1 DEF Typed, Docs
    <2>3. CASE r = s
      BY <2>1, <2>2, <2>3 DEF Entries
    <2>4. CASE r # s
      BY <2>1, <2>2, <2>4
    <2> QED BY <2>3, <2>4
  <1>3. state' \in Docs
    <2>1. state' = [r \in Sources |-> state'[r]]
      BY <1>1 DEF Typed, Docs
    <2> QED BY <1>2, <2>1 DEF Docs
  <1>4. Typed'
    BY <1>1, <1>3 DEF Typed
  <1> QED BY <1>1, <1>2, <1>4 DEF Drifts

LEMMA MeddleDrifts ==
  ASSUME Typed, NEW s \in Sources, Meddle(s)
  PROVE  Drifts
  <1>1. /\ UNCHANGED <<published, state, off, rules, bodies, run, owed>> /\ run = NoRun
        /\ mishaps' = mishaps + 1 /\ calm' = FALSE
    BY DEF Meddle, Idle
  <1>2. store' \in [Sources -> Dirs] /\ pending' \in [Sources -> Dirs]
    <2>1. Gone \in Dirs
      BY EmptyTree DEF Gone, Dirs
    <2>2. CASE store' = [store EXCEPT ![s] = Gone] /\ UNCHANGED pending
      BY <2>1, <2>2 DEF Typed
    <2>3. ASSUME NEW n \in Names,
                 pending' = [pending EXCEPT ![s].files[n] = 0] /\ UNCHANGED store
          PROVE  store' \in [Sources -> Dirs] /\ pending' \in [Sources -> Dirs]
      <3>1. pending[s] \in Dirs
        BY DEF Typed
      <3>2. [pending[s].files EXCEPT ![n] = 0] \in Trees
        BY <3>1 DEF Dirs, Trees
      <3>3. [pending[s] EXCEPT !.files = [pending[s].files EXCEPT ![n] = 0]] \in Dirs
        BY <3>1, <3>2 DEF Dirs
      <3>4. pending' = [pending EXCEPT ![s] =
                           [pending[s] EXCEPT !.files = [pending[s].files EXCEPT ![n] = 0]]]
        BY <2>3, <3>1 DEF Typed, Dirs
      <3> QED BY <2>3, <3>3, <3>4 DEF Typed
    <2>4. \/ store' = [store EXCEPT ![s] = Gone] /\ UNCHANGED pending
          \/ \E n \in Names : pending' = [pending EXCEPT ![s].files[n] = 0] /\ UNCHANGED store
      BY DEF Meddle, NamesIn
    <2> QED BY <2>2, <2>3, <2>4
  <1>3. Typed'
    BY <1>1, <1>2 DEF Typed
  <1>4. \A r \in Sources : store'[r] \in {store[r], Gone}
    BY DEF Meddle, Typed
  <1> QED BY <1>1, <1>3, <1>4 DEF Drifts

\* Whatever happens is one of four things.
LEMMA StepKinds ==
  ASSUME Basic, SyncNext
  PROVE  Begins \/ Apply \/ Closes \/ Drifts
  <1> USE DEF Basic
  <1>1. ASSUME NEW verb \in {"sync", "trailing"} \union (Verbs \intersect {"offline", "update", "hook"}),
               Sync(verb)
        PROVE  Begins
    BY <1>1, SyncBegins
  <1>2. ASSUME NEW s \in Sources,
               Add(s) \/ RemoveSource(s) \/ Review(s) \/ Accept(s) \/ Unreview(s)
        PROVE  Begins
    <2>1. CASE Add(s)
      BY <2>1, AddBegins
    <2>2. CASE RemoveSource(s)
      BY <2>2, WithoutSourceLessens, RemoveBegins DEF RemoveSource
    <2>3. CASE Review(s)
      BY <2>3, ReviewBegins
    <2>4. CASE Accept(s)
      BY <2>4, ApplyHeldBegins DEF Accept
    <2>5. CASE Unreview(s)
      BY <2>5, ApplyHeldBegins DEF Unreview
    <2> QED BY <1>2, <2>1, <2>2, <2>3, <2>4, <2>5
  <1>3. ASSUME NEW n \in Switched, Disable(n) \/ \E s \in Sources : RemoveMemory(s, n)
        PROVE  Begins
    <2>1. n \in Names
      BY SyncAssumption DEF SyncAssumption
    <2>2. CASE Disable(n)
      BY <2>1, <2>2, DisableBegins
    <2>3. ASSUME NEW s \in Sources, RemoveMemory(s, n)
          PROVE  Begins
      BY <2>3, WithoutMemoryLessens, RemoveBegins DEF RemoveMemory
    <2> QED BY <1>3, <2>2, <2>3
  <1>4. CASE Finish
    BY <1>4 DEF Finish, Closes, Interactive
  <1>5. CASE Crash
    BY <1>5 DEF Crash, Closes
  <1>6. ASSUME NEW s \in Sources, Publish(s) \/ TimePasses(s) \/ Meddle(s)
        PROVE  Drifts
    BY <1>6, PublishDrifts, TimeDrifts, MeddleDrifts
  <1> QED BY <1>1, <1>2, <1>3, <1>4, <1>5, <1>6 DEF SyncNext

\* What one change makes of a store copy or a parked revision.
DirStep(root, c, d) ==
    IF c.kind = root.delete THEN Gone
    ELSE IF c.kind = root.mkdir THEN [d EXCEPT !.there = TRUE]
    ELSE [d EXCEPT !.files = [d.files EXCEPT ![c.name] = c.version]]

KindsOf(root) == {root.delete, root.mkdir, root.write}

\* What one change makes of each variable.
Effect(c) ==
    /\ store' = IF c.kind \in KindsOf(AtStore)
                THEN [store EXCEPT ![c.source] = DirStep(AtStore, c, store[c.source])]
                ELSE store
    /\ pending' = IF c.kind \in KindsOf(AtPending)
                  THEN [pending EXCEPT ![c.source] = DirStep(AtPending, c, pending[c.source])]
                  ELSE pending
    /\ bodies' = IF c.kind = "link" THEN [bodies EXCEPT ![c.name] = c.source]
                 ELSE IF c.kind = "unlink" THEN [bodies EXCEPT ![c.name] = 0]
                 ELSE bodies
    /\ rules' = IF c.kind = "rules" THEN [rules EXCEPT ![c.source] = c.tree] ELSE rules
    /\ state' = IF c.kind = "state" THEN c.doc ELSE state
    /\ off' = IF c.kind = "state" THEN c.off ELSE off

LEMMA ApplyEffect ==
  ASSUME Basic, Apply
  PROVE  LET c == Head(run.todo)
         IN /\ Sound(c) /\ Effect(c) /\ run'.todo = Tail(run.todo) /\ run'.verb = run.verb
            /\ run' = [verb |-> run'.verb, todo |-> run'.todo]
            /\ UNCHANGED <<published, owed, calm, mishaps>> /\ Queue(run'.todo)
            /\ In(run.todo) = {c} \union In(run'.todo)
            /\ \A d \in In(run'.todo) : May(c, d)
  <1> DEFINE c == Head(run.todo)
             q == run.todo
  <1>1. /\ run.todo # <<>> /\ UNCHANGED <<published, owed, calm, mishaps>>
        /\ run' = [run EXCEPT !.todo = Tail(@)]
    BY DEF Apply
  <1>2. run'.todo = Tail(run.todo) /\ run'.verb = run.verb
    BY <1>1 DEF Basic
  <1>3. run' = [verb |-> run'.verb, todo |-> run'.todo]
    BY <1>1, <1>2 DEF Basic
  <1>4. /\ Queue(Tail(q)) /\ In(q) = {c} \union In(Tail(q))
        /\ \A d \in In(Tail(q)) : May(c, d)
    BY <1>1, QueueTail DEF Basic
  <1>5. Sound(c)
    BY <1>4 DEF Basic, Queue
  <1>6. Effect(c)
    <2> HIDE DEF c
    <2>1. /\ KindsOf(AtStore) = {"delete-store", "mkdir-store", "write-store"}
          /\ KindsOf(AtPending) = {"delete-pending", "mkdir-pending", "write-pending"}
      BY DEF KindsOf, AtStore, AtPending
    <2>2. CASE c.kind = "delete-store"
      BY <2>1, <2>2 DEF Apply, Effect, DirStep, AtStore, c
    <2>3. CASE c.kind = "mkdir-store"
      <3>1. /\ store' = [store EXCEPT ![c.source].there = TRUE]
            /\ UNCHANGED <<state, off, pending, rules, bodies>>
        BY <2>3 DEF Apply, c
      <3>2. DirStep(AtStore, c, store[c.source]) = [store[c.source] EXCEPT !.there = TRUE]
        BY <2>3 DEF DirStep, AtStore
      <3> QED BY <2>1, <2>3, <3>1, <3>2 DEF Effect
    <2>4. CASE c.kind = "write-store"
      <3>1. /\ store' = [store EXCEPT ![c.source].files[c.name] = c.version]
            /\ UNCHANGED <<state, off, pending, rules, bodies>>
        BY <2>4 DEF Apply, c
      <3>2. DirStep(AtStore, c, store[c.source]) =
               [store[c.source] EXCEPT !.files =
                   [store[c.source].files EXCEPT ![c.name] = c.version]]
        BY <2>4 DEF DirStep, AtStore
      <3> QED BY <2>1, <2>4, <3>1, <3>2 DEF Effect
    <2>5. CASE c.kind = "delete-pending"
      BY <2>1, <2>5 DEF Apply, Effect, DirStep, AtPending, c
    <2>6. CASE c.kind = "mkdir-pending"
      <3>1. /\ pending' = [pending EXCEPT ![c.source].there = TRUE]
            /\ UNCHANGED <<state, off, store, rules, bodies>>
        BY <2>6 DEF Apply, c
      <3>2. DirStep(AtPending, c, pending[c.source]) = [pending[c.source] EXCEPT !.there = TRUE]
        BY <2>6 DEF DirStep, AtPending
      <3> QED BY <2>1, <2>6, <3>1, <3>2 DEF Effect
    <2>7. CASE c.kind = "write-pending"
      <3>1. /\ pending' = [pending EXCEPT ![c.source].files[c.name] = c.version]
            /\ UNCHANGED <<state, off, store, rules, bodies>>
        BY <2>7 DEF Apply, c
      <3>2. DirStep(AtPending, c, pending[c.source]) =
               [pending[c.source] EXCEPT !.files =
                   [pending[c.source].files EXCEPT ![c.name] = c.version]]
        BY <2>7 DEF DirStep, AtPending
      <3> QED BY <2>1, <2>7, <3>1, <3>2 DEF Effect
    <2>8. CASE c.kind = "link"
      BY <2>1, <2>8 DEF Apply, Effect, c
    <2>9. CASE c.kind = "unlink"
      BY <2>1, <2>9 DEF Apply, Effect, c
    <2>10. CASE c.kind = "rules"
      BY <2>1, <2>10 DEF Apply, Effect, c
    <2>11. CASE c.kind = "state"
      BY <2>1, <2>11 DEF Apply, Effect, c
    <2> QED BY <1>5, <2>2, <2>3, <2>4, <2>5, <2>6, <2>7, <2>8, <2>9, <2>10, <2>11 DEF Sound
  <1> QED BY <1>1, <1>2, <1>3, <1>4, <1>5, <1>6

LEMMA DirStepDir ==
  ASSUME NEW root \in {AtStore, AtPending}, NEW c, Sound(c), c.kind \in KindsOf(root),
         NEW d \in Dirs
  PROVE  DirStep(root, c, d) \in Dirs /\ c.source \in Sources
  <1>1. /\ root.delete \in {"delete-store", "delete-pending"}
        /\ root.mkdir \in {"mkdir-store", "mkdir-pending"}
        /\ root.write \in {"write-store", "write-pending"}
    BY DEF AtStore, AtPending
  <1>2. c.source \in Sources
    BY <1>1 DEF Sound, KindsOf
  <1>3. CASE c.kind = root.delete
    <2>1. DirStep(root, c, d) = Gone
      BY <1>3 DEF DirStep
    <2>2. Gone \in Dirs
      BY EmptyTree DEF Gone, Dirs
    <2> QED BY <1>2, <2>1, <2>2
  <1>4. CASE c.kind = root.mkdir /\ c.kind # root.delete
    <2>1. DirStep(root, c, d) = [d EXCEPT !.there = TRUE]
      BY <1>4 DEF DirStep
    <2>2. [d EXCEPT !.there = TRUE] \in Dirs
      BY DEF Dirs
    <2> QED BY <1>2, <2>1, <2>2
  <1>5. CASE c.kind = root.write /\ c.kind \notin {root.delete, root.mkdir}
    <2>1. c.name \in Names /\ c.version \in Versions \union {0}
      BY <1>1, <1>5 DEF Sound
    <2>2. [d.files EXCEPT ![c.name] = c.version] \in Trees
      BY <2>1 DEF Dirs, Trees
    <2> QED BY <1>2, <1>5, <2>2 DEF DirStep, Dirs
  <1> QED BY <1>2, <1>3, <1>4, <1>5 DEF KindsOf

LEMMA ApplyBasic ==
  ASSUME Basic, Apply
  PROVE  Basic'
  <1> DEFINE c == Head(run.todo)
  <1>1. /\ Sound(c) /\ Effect(c) /\ run' = [verb |-> run'.verb, todo |-> run'.todo]
        /\ UNCHANGED <<published, mishaps>> /\ Queue(run'.todo)
    BY ApplyEffect
  <1> HIDE DEF c
  <1>2. store' \in [Sources -> Dirs] /\ pending' \in [Sources -> Dirs]
    <2>1. ASSUME c.kind \in KindsOf(AtStore)
          PROVE  c.source \in Sources /\ DirStep(AtStore, c, store[c.source]) \in Dirs
      <3>1. c.source \in Sources
        BY <1>1, <2>1, DirStepDir, EmptyTree DEF Sound, KindsOf, AtStore
      <3> QED BY <1>1, <2>1, <3>1, DirStepDir DEF Basic, Typed
    <2>2. ASSUME c.kind \in KindsOf(AtPending)
          PROVE  c.source \in Sources /\ DirStep(AtPending, c, pending[c.source]) \in Dirs
      <3>1. c.source \in Sources
        BY <1>1, <2>2 DEF Sound, KindsOf, AtPending
      <3> QED BY <1>1, <2>2, <3>1, DirStepDir DEF Basic, Typed
    <2>3. store \in [Sources -> Dirs] /\ pending \in [Sources -> Dirs]
      BY DEF Basic, Typed
    <2> QED BY <1>1, <2>1, <2>2, <2>3 DEF Effect
  <1>3. rules' \in [Sources -> Trees]
    <2>1. c.kind = "rules" => c.source \in Sources /\ c.tree \in Trees
      BY <1>1 DEF Sound
    <2> QED BY <1>1, <2>1 DEF Effect, Basic, Typed
  <1>4. bodies' \in [Names -> Sources \union {0}]
    <2>1. /\ c.kind = "link" => c.source \in Sources /\ c.name \in Names
          /\ c.kind = "unlink" => c.name \in Names
      BY <1>1 DEF Sound
    <2> QED BY <1>1, <2>1 DEF Effect, Basic, Typed
  <1>5. state' \in Docs /\ off' \in SUBSET Names /\ Sane(state')
    <2>1. c.kind = "state" => c.doc \in Docs /\ Sane(c.doc) /\ c.off \in SUBSET Names
      BY <1>1 DEF Sound
    <2> QED BY <1>1, <2>1 DEF Effect, Basic, Typed
  <1>6. Typed'
    BY <1>1, <1>2, <1>3, <1>4, <1>5 DEF Basic, Typed
  <1>7. Sane(state)'
    BY <1>5 DEF Sane
  <1>8. Queue(run.todo)'
    BY <1>1 DEF Queue, In, InTurn, May, Sound, Sane
  <1> QED BY <1>1, <1>6, <1>7, <1>8 DEF Basic

THEOREM BasicInvariance == SyncSpec => []Basic
  <1>1. SyncInit => Basic
    <2> SUFFICES ASSUME SyncInit PROVE Basic
      OBVIOUS
    <2>1. Len(Revisions) \in Nat /\ Len(Revisions) # 0
      BY SyncAssumption, LenProperties, EmptySeq DEF SyncAssumption
    <2>2. NoEntry \in Entries /\ Gone \in Dirs
      BY EmptyTree DEF NoEntry, Entries, Gone, Dirs
    <2>3. Typed
      BY <2>1, <2>2, EmptyTree DEF SyncInit, Typed, Docs
    <2>4. Sane(state)
      BY DEF SyncInit, Sane, NoEntry
    <2>5. run = [verb |-> run.verb, todo |-> run.todo] /\ run.todo = <<>>
      BY DEF SyncInit, NoRun
    <2>6. Queue(run.todo)
      BY <2>5, QueueNone
    <2>7. mishaps \in Nat
      BY DEF SyncInit
    <2> QED BY <2>3, <2>4, <2>5, <2>6, <2>7 DEF Basic
  <1>2. Basic /\ [SyncNext]_vars => Basic'
    <2> SUFFICES ASSUME Basic, [SyncNext]_vars PROVE Basic'
      OBVIOUS
    <2>1. CASE Begins
      <3>1. Queue(run'.todo)
        BY <2>1, StartsQueue DEF Begins, Basic
      <3>2. Queue(run.todo)'
        BY <3>1 DEF Queue, In, InTurn, May, Sound, Sane
      <3>3. Typed' /\ Sane(state)'
        BY <2>1 DEF Begins, Basic, Typed, Sane
      <3> QED BY <2>1, <3>2, <3>3 DEF Begins, Basic
    <2>2. CASE Apply
      BY <2>2, ApplyBasic
    <2>3. CASE Closes
      <3>1. Typed' /\ Sane(state)' /\ mishaps' \in Nat
        BY <2>3 DEF Closes, Basic, Typed, Sane
      <3>2. run' = [verb |-> run'.verb, todo |-> run'.todo] /\ run'.todo = <<>>
        BY <2>3 DEF Closes, NoRun
      <3>3. Queue(run'.todo)
        BY <3>2, QueueNone
      <3>4. Queue(run.todo)'
        BY <3>3 DEF Queue, In, InTurn, May, Sound, Sane
      <3> QED BY <3>1, <3>2, <3>4 DEF Basic
    <2>4. CASE Drifts
      <3>1. Typed' /\ mishaps' \in Nat
        BY <2>4 DEF Drifts, Basic
      <3>5. Sane(state)'
        BY <2>4 DEF Drifts, Basic, Sane
      <3>2. run' = [verb |-> run'.verb, todo |-> run'.todo] /\ run'.todo = <<>>
        BY <2>4 DEF Drifts, NoRun
      <3>3. Queue(run'.todo)
        BY <3>2, QueueNone
      <3>4. Queue(run.todo)'
        BY <3>3 DEF Queue, In, InTurn, May, Sound, Sane
      <3> QED BY <3>1, <3>2, <3>4, <3>5 DEF Basic
    <2>5. CASE UNCHANGED vars
      <3>1. UNCHANGED <<published, state, off, store, pending, rules, bodies, run, mishaps>>
        BY <2>5 DEF vars
      <3>2. Typed' /\ Sane(state)' /\ Queue(run.todo)'
        BY <3>1 DEF Basic, Typed, Sane, Queue, In, InTurn, May, Sound
      <3> QED BY <3>1, <3>2 DEF Basic
    <2> QED BY <2>1, <2>2, <2>3, <2>4, <2>5, StepKinds
  <1> QED BY <1>1, <1>2, PTL DEF SyncSpec

\* Every state file written reads back: what pendingIsHeld refuses is never there,
\* whatever upstreams publish and wherever runs are cut short.
THEOREM FileReadsBack == SyncSpec => []ReadsBack
  <1>1. Basic => ReadsBack
    BY DEF Basic, Sane, ReadsBack
  <1> QED BY <1>1, BasicInvariance, PTL

----------------------------------------------------------------------------
(* Lines and links                                                         *)

\* The changes of a plan, and of a commit.
PlanChanges(doc, fresh, held, heldNow, hook, writes) ==
    LET all == InstallSet(doc, fresh, held, heldNow, TreesOf(fresh))
    IN (IF hook THEN Keepable(all) ELSE all)
           \union IF writes THEN {StateChange(doc, off)} ELSE {}

CommitChanges(doc, names, s, tree, lands) ==
    (IF lands THEN SwapSet(AtStore, store, s, tree) ELSE {}) \union {StateChange(doc, names)}

LEMMA StartsIn ==
  ASSUME NEW t, NEW verb, Starts(t, verb)
  PROVE  \/ \E doc, fresh, held, heldNow : \E writes \in BOOLEAN :
                /\ verb # "add" /\ Planned(doc, fresh, held, heldNow)
                /\ verb = "hook" => Added(doc) = Added(state)
                /\ writes \/ doc = state
                /\ In(t) = PlanChanges(doc, fresh, held, heldNow, verb = "hook", writes)
         \/ \E doc, names, s, tree : \E lands \in BOOLEAN :
                /\ verb # "hook" /\ CommitStarted(t, verb, doc, names, s, tree, lands)
                /\ In(t) = CommitChanges(doc, names, s, tree, lands)
  <1>1. ASSUME NEW doc, NEW fresh, NEW held, NEW heldNow, NEW writes \in BOOLEAN,
               verb # "add", PlanStarted(t, doc, fresh, held, heldNow, verb = "hook", writes)
        PROVE  /\ verb # "add" /\ Planned(doc, fresh, held, heldNow)
               /\ verb = "hook" => Added(doc) = Added(state)
               /\ writes \/ doc = state
               /\ In(t) = PlanChanges(doc, fresh, held, heldNow, verb = "hook", writes)
    <2>1. Placed(t, PlanChanges(doc, fresh, held, heldNow, verb = "hook", writes))
      BY <1>1 DEF PlanStarted, PlanChanges
    <2>2. In(t) = PlanChanges(doc, fresh, held, heldNow, verb = "hook", writes)
      BY <2>1, PlacedIn
    <2> QED BY <1>1, <2>2 DEF PlanStarted
  <1>2. ASSUME NEW doc, NEW names, NEW s, NEW tree, NEW lands \in BOOLEAN,
               CommitStarted(t, verb, doc, names, s, tree, lands)
        PROVE  In(t) = CommitChanges(doc, names, s, tree, lands)
    <2>1. Placed(t, CommitChanges(doc, names, s, tree, lands))
      BY <1>2 DEF CommitStarted, CommitChanges
    <2> QED BY <2>1, PlacedIn
  <1>3. CASE \E doc, fresh, held, heldNow : \E writes \in BOOLEAN :
                verb # "add" /\ PlanStarted(t, doc, fresh, held, heldNow, verb = "hook", writes)
    <2>1. PICK doc, fresh, held, heldNow : \E writes \in BOOLEAN :
             verb # "add" /\ PlanStarted(t, doc, fresh, held, heldNow, verb = "hook", writes)
      BY <1>3, Zenon
    <2>2. PICK writes \in BOOLEAN :
             verb # "add" /\ PlanStarted(t, doc, fresh, held, heldNow, verb = "hook", writes)
      BY <2>1, Zenon
    <2>3. /\ verb # "add" /\ Planned(doc, fresh, held, heldNow)
          /\ verb = "hook" => Added(doc) = Added(state)
          /\ writes \/ doc = state
          /\ In(t) = PlanChanges(doc, fresh, held, heldNow, verb = "hook", writes)
      BY <1>1, <2>2
    <2> QED BY <2>3, Zenon
  <1>4. CASE \E doc, names, s, tree : \E lands \in BOOLEAN :
                /\ verb \notin {"hook"} \union Interactive
                /\ CommitStarted(t, verb, doc, names, s, tree, lands)
    <2>1. PICK doc, names, s, tree : \E lands \in BOOLEAN :
             /\ verb \notin {"hook"} \union Interactive
             /\ CommitStarted(t, verb, doc, names, s, tree, lands)
      BY <1>4, Zenon
    <2>2. PICK lands \in BOOLEAN :
             /\ verb # "hook" /\ CommitStarted(t, verb, doc, names, s, tree, lands)
      BY <2>1, Zenon
    <2>3. In(t) = CommitChanges(doc, names, s, tree, lands)
      BY <1>2, <2>2
    <2> QED BY <2>2, <2>3, Zenon
  <1> QED BY <1>3, <1>4 DEF Starts, PlanStarts, CommitStarts

LEMMA PlanChange ==
  ASSUME NEW doc, NEW fresh, NEW held, NEW heldNow, NEW hook \in BOOLEAN, NEW writes \in BOOLEAN,
         NEW c \in PlanChanges(doc, fresh, held, heldNow, hook, writes)
  PROVE  \/ writes /\ c = StateChange(doc, off)
         \/ /\ hook => c.category \notin {"removal", "orphan"}
            /\ \/ Brought(c, fresh) \/ SweptStore(c, doc)
               \/ Parked(c, heldNow) \/ SweptPending(c, doc)
               \/ Linked(c, doc) \/ Unlinked(c, BlocksOf(doc, held, TreesOf(fresh)), doc)
               \/ RuleWritten(c, BlocksOf(doc, held, TreesOf(fresh))) \/ RuleGone(c)
  <1> DEFINE A == InstallSet(doc, fresh, held, heldNow, TreesOf(fresh))
  <1>1. \/ writes /\ c = StateChange(doc, off)
        \/ c \in A /\ (hook => c.category \notin {"removal", "orphan"})
    BY DEF PlanChanges, Keepable
  <1>2. CASE c \in A /\ (hook => c.category \notin {"removal", "orphan"})
    BY <1>2, InstallChange
  <1> QED BY <1>1, <1>2

LEMMA CommitChange ==
  ASSUME NEW doc, NEW names, NEW s, NEW tree, NEW lands \in BOOLEAN,
         NEW c \in CommitChanges(doc, names, s, tree, lands)
  PROVE  c = StateChange(doc, names) \/ (lands /\ Swaps(c, AtStore, s, tree))
  <1>1. c = StateChange(doc, names) \/ (lands /\ c \in SwapSet(AtStore, store, s, tree))
    <2>1. CASE lands
      BY <2>1 DEF CommitChanges
    <2>2. CASE ~lands
      BY <2>2 DEF CommitChanges
    <2> QED BY <2>1, <2>2
  <1>2. CASE c \in SwapSet(AtStore, store, s, tree)
    <2>1. Swaps(c, AtStore, s, tree)
      BY <1>2, SwapChange
    <2> QED BY <1>1, <2>1
  <1> QED BY <1>1, <1>2

\* Every line a plan writes has its link, and every link it takes has no line.
LEMMA PlanLines ==
  ASSUME NEW doc, NEW fresh, NEW held, NEW heldNow, NEW hook \in BOOLEAN, NEW writes \in BOOLEAN
  PROVE  LET q      == PlanChanges(doc, fresh, held, heldNow, hook, writes)
             blocks == BlocksOf(doc, held, TreesOf(fresh))
         IN /\ DOMAIN blocks \subseteq Sources
            /\ \A s \in DOMAIN blocks : \A n \in NamesIn(blocks[s]) :
                  bodies[n] # s => \E l \in q : l.kind = "link" /\ l.name = n
            /\ ~hook => \A s \in DOMAIN blocks : rules[s] # blocks[s] =>
                  \E c \in q : c.kind = "rules" /\ c.source = s
            /\ ~hook => \A s \in Sources \ Added(doc) : rules[s] # Empty =>
                  \E c \in q : c.kind = "rules" /\ c.source = s
  <1> DEFINE q == PlanChanges(doc, fresh, held, heldNow, hook, writes)
             works == Works(doc, held, TreesOf(fresh))
             blocks == BlocksOf(doc, held, TreesOf(fresh))
             A == InstallSet(doc, fresh, held, heldNow, TreesOf(fresh))
  <1>1. DOMAIN blocks = works /\ works \subseteq Sources
    BY DEF Works, Readable, Added, BlocksOf, Blocks
  <1>2. /\ AllBodies(works, blocks, fresh, TreesOf(fresh)) \subseteq A
        /\ WrittenSet(blocks) \subseteq A /\ EmptiedRuleSet(blocks) \subseteq A
        /\ RuleSweepSet(doc) \subseteq A
    BY DEF InstallSet
  <1>3. \A c \in A : ~hook \/ c.category = "destination" => c \in q
    BY DEF PlanChanges, Keepable
  <1> HIDE DEF q, A
  <1>4. ASSUME NEW s \in DOMAIN blocks, NEW n \in NamesIn(blocks[s]), bodies[n] # s
        PROVE  \E l \in q : l.kind = "link" /\ l.name = n
    <2> DEFINE l == Change("destination", "link", s, n, 0)
    <2>1. l \in LinkSet(s, NamesIn(blocks[s]))
      BY <1>4 DEF LinkSet
    <2>2. l \in BodySet(s, fresh, TreesOf(fresh)[s], blocks[s])
      BY <2>1 DEF BodySet
    <2>3. l \in A
      BY <1>1, <1>2, <2>2 DEF AllBodies
    <2>4. l.kind = "link" /\ l.name = n /\ l.category = "destination"
      BY DEF Change
    <2> HIDE DEF l
    <2> QED BY <1>3, <2>3, <2>4
  <1>5. ASSUME ~hook, NEW s \in DOMAIN blocks, rules[s] # blocks[s]
        PROVE  \E c \in q : c.kind = "rules" /\ c.source = s
    <2>1. CASE blocks[s] = Empty
      <3> DEFINE c == RuleFile("removal", s, Empty)
      <3>1. c \in EmptiedRuleSet(blocks)
        BY <1>5, <2>1 DEF EmptiedRuleSet
      <3>2. c.kind = "rules" /\ c.source = s
        BY DEF RuleFile
      <3> HIDE DEF c, blocks
      <3> QED BY <1>2, <1>3, <1>5, <3>1, <3>2
    <2>2. CASE blocks[s] # Empty
      <3> DEFINE c == RuleFile("destination", s, blocks[s])
      <3>1. c \in WrittenSet(blocks)
        BY <1>5, <2>2 DEF WrittenSet
      <3>2. c.kind = "rules" /\ c.source = s
        BY DEF RuleFile
      <3> HIDE DEF c, blocks
      <3> QED BY <1>2, <1>3, <1>5, <3>1, <3>2
    <2> QED BY <2>1, <2>2
  <1>6. ASSUME ~hook, NEW s \in Sources \ Added(doc), rules[s] # Empty
        PROVE  \E c \in q : c.kind = "rules" /\ c.source = s
    <2> DEFINE c == RuleFile("removal", s, Empty)
    <2>1. c \in RuleSweepSet(doc)
      BY <1>6 DEF RuleSweepSet
    <2>2. c.kind = "rules" /\ c.source = s
      BY DEF RuleFile
    <2> HIDE DEF c
    <2> QED BY <1>2, <1>3, <1>6, <2>1, <2>2
  <1> QED BY <1>1, <1>4, <1>5, <1>6 DEF q

\* Each line queued has its body, or a link queued before it; a link queued to go
\* has no line, or the rule file that names it is queued before it.
LinesWait(q) ==
    \A c \in q : c.kind = "rules" => \A n \in NamesIn(c.tree) :
        bodies[n] # 0 \/ \E l \in q : l.kind = "link" /\ l.name = n

UnlinksWait(q) ==
    \A u \in q : u.kind = "unlink" =>
        /\ \A c \in q : c.kind = "rules" => c.tree[u.name] = 0
        /\ \A s \in Sources : rules[s][u.name] = 0
                                  \/ \E c \in q : c.kind = "rules" /\ c.source = s

LinesFollow == LinesLinked /\ LinesWait(In(run.todo)) /\ UnlinksWait(In(run.todo))

LEMMA StartsLines ==
  ASSUME NEW t, NEW verb, Starts(t, verb)
  PROVE  LinesWait(In(t)) /\ UnlinksWait(In(t))
  <1> DEFINE q == In(t)
  <1>1. ASSUME NEW doc, NEW fresh, NEW held, NEW heldNow, NEW writes \in BOOLEAN,
               q = PlanChanges(doc, fresh, held, heldNow, verb = "hook", writes)
        PROVE  LinesWait(q) /\ UnlinksWait(q)
    <2> DEFINE blocks == BlocksOf(doc, held, TreesOf(fresh))
    <2>0. PICK hook \in BOOLEAN : hook = (verb = "hook")
      OBVIOUS
    <2>8. hook <=> verb = "hook"
      BY <2>0
    <2>9. q = PlanChanges(doc, fresh, held, heldNow, hook, writes)
      BY <1>1, <2>0
    <2>1. ASSUME NEW c \in q, c.kind = "rules"
          PROVE  RuleWritten(c, blocks) \/ RuleGone(c)
      <3>1. c \in PlanChanges(doc, fresh, held, heldNow, hook, writes)
        BY <2>9
      <3> HIDE DEF q
      <3> QED BY <2>1, <3>1, PlanChange DEF StateChange, Brought, Parked, Swaps, SweptStore,
                 SweptPending, Linked, Unlinked, AtStore, AtPending
    <2>2. ASSUME NEW u \in q, u.kind = "unlink"
          PROVE  verb # "hook" /\ Unlinked(u, blocks, doc)
      <3>1. u \in PlanChanges(doc, fresh, held, heldNow, hook, writes)
        BY <2>9
      <3> HIDE DEF q, blocks
      <3>2. \/ writes /\ u = StateChange(doc, off)
            \/ /\ hook => u.category \notin {"removal", "orphan"}
               /\ \/ Brought(u, fresh) \/ SweptStore(u, doc)
                  \/ Parked(u, heldNow) \/ SweptPending(u, doc)
                  \/ Linked(u, doc) \/ Unlinked(u, blocks, doc)
                  \/ RuleWritten(u, blocks) \/ RuleGone(u)
        BY <3>1, PlanChange DEF blocks
      <3>3. Unlinked(u, blocks, doc) /\ ~hook
        BY <2>2, <3>2 DEF StateChange, Brought, Parked, Swaps, SweptStore, SweptPending,
           Linked, Unlinked, RuleWritten, RuleGone, AtStore, AtPending
      <3> QED BY <2>8, <3>3
    <2>3. /\ DOMAIN blocks \subseteq Sources
          /\ \A s \in DOMAIN blocks : \A n \in NamesIn(blocks[s]) :
                bodies[n] # s => \E l \in q : l.kind = "link" /\ l.name = n
          /\ verb # "hook" => \A s \in DOMAIN blocks : rules[s] # blocks[s] =>
                \E c \in q : c.kind = "rules" /\ c.source = s
          /\ verb # "hook" => \A s \in Sources \ Added(doc) : rules[s] # Empty =>
                \E c \in q : c.kind = "rules" /\ c.source = s
      <3> HIDE DEF q
      <3>1. /\ DOMAIN blocks \subseteq Sources
            /\ \A s \in DOMAIN blocks : \A n \in NamesIn(blocks[s]) :
                  bodies[n] # s => \E l \in q : l.kind = "link" /\ l.name = n
            /\ ~hook => \A s \in DOMAIN blocks : rules[s] # blocks[s] =>
                  \E c \in q : c.kind = "rules" /\ c.source = s
            /\ ~hook => \A s \in Sources \ Added(doc) : rules[s] # Empty =>
                  \E c \in q : c.kind = "rules" /\ c.source = s
        BY <2>9, PlanLines
      <3> QED BY <2>8, <3>1
    <2>4. NamesIn(Empty) = {} /\ \A n \in Names : Empty[n] = 0
      BY DEF NamesIn, Empty
    <2>5. 0 \notin Sources
      BY SyncAssumption DEF SyncAssumption
    <2> HIDE DEF q, blocks
    <2>6. LinesWait(q)
      <3> SUFFICES ASSUME NEW c \in q, c.kind = "rules", NEW n \in NamesIn(c.tree)
                   PROVE  bodies[n] # 0 \/ \E l \in q : l.kind = "link" /\ l.name = n
        BY DEF LinesWait
      <3>1. c.source \in DOMAIN blocks /\ c.tree = blocks[c.source]
        BY <2>1, <2>4 DEF RuleWritten, RuleGone
      <3> QED BY <2>3, <2>5, <3>1
    <2>7. UnlinksWait(q)
      <3> SUFFICES ASSUME NEW u \in q, u.kind = "unlink"
                   PROVE  /\ \A c \in q : c.kind = "rules" => c.tree[u.name] = 0
                          /\ \A s \in Sources : rules[s][u.name] = 0
                                 \/ \E c \in q : c.kind = "rules" /\ c.source = s
        BY DEF UnlinksWait
      <3>1. /\ verb # "hook" /\ u.name \in Names /\ DOMAIN blocks = Added(doc)
            /\ \A s \in DOMAIN blocks : u.name \notin NamesIn(blocks[s])
        BY <2>2 DEF Unlinked, Wanted, Sweepable
      <3>2. \A s \in DOMAIN blocks : blocks[s][u.name] = 0
        BY <3>1 DEF NamesIn
      <3>3. ASSUME NEW c \in q, c.kind = "rules"
            PROVE  c.tree[u.name] = 0
        BY <2>1, <2>4, <3>1, <3>2, <3>3 DEF RuleWritten, RuleGone
      <3>4. ASSUME NEW s \in Sources
            PROVE  \/ rules[s][u.name] = 0
                   \/ \E c \in q : c.kind = "rules" /\ c.source = s
        <4>1. CASE s \in DOMAIN blocks
          BY <2>3, <3>1, <3>2, <4>1
        <4>2. CASE s \notin DOMAIN blocks
          BY <2>3, <2>4, <3>1, <4>2
        <4> QED BY <4>1, <4>2
      <3> QED BY <3>3, <3>4
    <2> QED BY <2>6, <2>7
  <1>2. ASSUME NEW doc, NEW names, NEW s, NEW tree, NEW lands \in BOOLEAN,
               q = CommitChanges(doc, names, s, tree, lands)
        PROVE  LinesWait(q) /\ UnlinksWait(q)
    <2>1. \A c \in q : c.kind \notin {"rules", "unlink"}
      BY <1>2, CommitChange DEF StateChange, Swaps, AtStore
    <2> HIDE DEF q
    <2> QED BY <2>1 DEF LinesWait, UnlinksWait
  <1> HIDE DEF q
  <1>3. \/ \E doc, fresh, held, heldNow : \E writes \in BOOLEAN :
              q = PlanChanges(doc, fresh, held, heldNow, verb = "hook", writes)
        \/ \E doc, names, s, tree : \E lands \in BOOLEAN :
              q = CommitChanges(doc, names, s, tree, lands)
    <2>1. \/ \E doc, fresh, held, heldNow : \E writes \in BOOLEAN :
                /\ verb # "add" /\ Planned(doc, fresh, held, heldNow)
                /\ verb = "hook" => Added(doc) = Added(state)
                /\ writes \/ doc = state
                /\ q = PlanChanges(doc, fresh, held, heldNow, verb = "hook", writes)
          \/ \E doc, names, s, tree : \E lands \in BOOLEAN :
                /\ verb # "hook" /\ CommitStarted(t, verb, doc, names, s, tree, lands)
                /\ q = CommitChanges(doc, names, s, tree, lands)
      BY StartsIn DEF q
    <2> QED BY <2>1, Zenon
  <1>4. LinesWait(q) /\ UnlinksWait(q)
    BY <1>1, <1>2, <1>3, Zenon
  <1> QED BY <1>4 DEF q

LEMMA ApplyLines ==
  ASSUME Basic, LinesFollow, Apply
  PROVE  LinesFollow'
  <1> DEFINE c == Head(run.todo)
             q == In(run.todo)
             r == In(run'.todo)
  <1>1. /\ Sound(c) /\ Effect(c) /\ q = {c} \union r
        /\ \A d \in r : May(c, d)
    BY ApplyEffect
  <1>2. /\ LinesLinked /\ LinesWait(q) /\ UnlinksWait(q)
        /\ rules \in [Sources -> Trees] /\ bodies \in [Names -> Sources \union {0}]
    BY DEF LinesFollow, Basic, Typed
  <1>3. 0 \notin Sources
    BY SyncAssumption DEF SyncAssumption
  <1>4. \A d \in q : Sound(d)
    BY DEF Basic, Queue
  <1> HIDE DEF c, q, r
  <1>5. \A d \in r : /\ d.kind = "link" => c.kind \notin {"rules", "unlink"}
                     /\ d.kind = "rules" => c.kind # "unlink"
    BY <1>1 DEF May
  <1>6. /\ c.kind = "link" => /\ c.source \in Sources /\ c.name \in Names /\ rules' = rules
                              /\ bodies' = [bodies EXCEPT ![c.name] = c.source]
        /\ c.kind = "unlink" => /\ c.name \in Names /\ rules' = rules
                                /\ bodies' = [bodies EXCEPT ![c.name] = 0]
        /\ c.kind = "rules" => /\ c.source \in Sources /\ bodies' = bodies
                               /\ rules' = [rules EXCEPT ![c.source] = c.tree]
        /\ c.kind \notin {"link", "unlink", "rules"} => rules' = rules /\ bodies' = bodies
    BY <1>1 DEF Sound, Effect
  <1>7. \A n \in Names : c.kind # "unlink" /\ bodies[n] # 0 => bodies'[n] # 0
    BY <1>2, <1>3, <1>6
  <1>8. LinesLinked'
    <2> SUFFICES ASSUME NEW s \in Sources, NEW n \in Names, rules'[s][n] # 0
                 PROVE  bodies'[n] # 0
      BY DEF LinesLinked, NamesIn
    <2>1. rules[s][n] # 0 => bodies[n] # 0
      BY <1>2 DEF LinesLinked, NamesIn
    <2>2. CASE c.kind = "rules"
      <3>1. CASE s = c.source
        <4>1. n \in NamesIn(c.tree)
          BY <1>2, <1>6, <2>2, <3>1 DEF NamesIn
        <4>2. bodies[n] # 0 \/ \E l \in q : l.kind = "link" /\ l.name = n
          BY <1>1, <1>2, <2>2, <4>1 DEF LinesWait
        <4> QED BY <1>1, <1>5, <1>6, <2>2, <4>2
      <3> QED BY <1>2, <1>6, <2>1, <2>2, <3>1
    <2>3. CASE c.kind = "unlink"
      <3>1. CASE n = c.name
        <4>1. rules[s][n] = 0 \/ \E d \in q : d.kind = "rules" /\ d.source = s
          BY <1>1, <1>2, <2>3, <3>1 DEF UnlinksWait
        <4> QED BY <1>1, <1>5, <1>6, <2>3, <4>1
      <3> QED BY <1>2, <1>6, <2>1, <2>3, <3>1
    <2>4. CASE c.kind \notin {"rules", "unlink"}
      <3>1. rules' = rules
        BY <1>6, <2>4
      <3> QED BY <1>7, <2>1, <2>4, <3>1
    <2> QED BY <2>2, <2>3, <2>4
  <1>9. \A d \in r : d.kind = "rules" => \A n \in NamesIn(d.tree) :
            bodies'[n] # 0 \/ \E l \in r : l.kind = "link" /\ l.name = n
    <2> SUFFICES ASSUME NEW d \in r, d.kind = "rules", NEW n \in NamesIn(d.tree)
                 PROVE  bodies'[n] # 0 \/ \E l \in r : l.kind = "link" /\ l.name = n
      OBVIOUS
    <2>1. n \in Names /\ c.kind # "unlink"
      BY <1>5 DEF NamesIn
    <2>2. bodies[n] # 0 \/ \E l \in q : l.kind = "link" /\ l.name = n
      BY <1>1, <1>2 DEF LinesWait
    <2>3. c.kind = "link" /\ c.name = n => bodies'[n] # 0
      BY <1>2, <1>3, <1>6
    <2> QED BY <1>1, <1>7, <2>1, <2>2, <2>3
  <1>10. \A u \in r : u.kind = "unlink" =>
            /\ \A d \in r : d.kind = "rules" => d.tree[u.name] = 0
            /\ \A s \in Sources : rules'[s][u.name] = 0
                                      \/ \E d \in r : d.kind = "rules" /\ d.source = s
    <2> SUFFICES ASSUME NEW u \in r, u.kind = "unlink"
                 PROVE  /\ \A d \in r : d.kind = "rules" => d.tree[u.name] = 0
                        /\ \A s \in Sources : rules'[s][u.name] = 0
                                      \/ \E d \in r : d.kind = "rules" /\ d.source = s
      OBVIOUS
    <2>1. /\ \A d \in q : d.kind = "rules" => d.tree[u.name] = 0
          /\ \A s \in Sources : rules[s][u.name] = 0
                                    \/ \E d \in q : d.kind = "rules" /\ d.source = s
      BY <1>1, <1>2 DEF UnlinksWait
    <2>2. ASSUME NEW s \in Sources
          PROVE  \/ rules'[s][u.name] = 0
                 \/ \E d \in r : d.kind = "rules" /\ d.source = s
      <3>1. CASE c.kind = "rules" /\ c.source = s
        BY <1>1, <1>2, <1>6, <2>1, <3>1
      <3>2. CASE ~(c.kind = "rules" /\ c.source = s)
        <4>1. rules'[s] = rules[s]
          BY <1>2, <1>6, <3>2
        <4> QED BY <1>1, <2>1, <3>2, <4>1
      <3> QED BY <3>1, <3>2
    <2> QED BY <1>1, <2>1, <2>2
  <1>11. LinesWait(In(run.todo))'
    BY <1>9 DEF LinesWait, In, NamesIn, r
  <1>12. UnlinksWait(In(run.todo))'
    BY <1>10 DEF UnlinksWait, In, r
  <1> QED BY <1>8, <1>11, <1>12 DEF LinesFollow

\* A rule line is never out without the body it points at: wherever runs are cut
\* short, and whatever sources are refused, unreadable or taken out.
THEOREM LineHasBody == SyncSpec => []LinesLinked
  <1>1. SyncInit => LinesFollow
    <2> SUFFICES ASSUME SyncInit PROVE LinesFollow
      OBVIOUS
    <2>1. run.todo = <<>>
      BY DEF SyncInit, NoRun
    <2>2. In(run.todo) = {}
      BY <2>1, QueueNone
    <2>3. LinesLinked
      BY DEF SyncInit, LinesLinked, NamesIn, Empty
    <2> QED BY <2>2, <2>3 DEF LinesFollow, LinesWait, UnlinksWait
  <1>2. Basic /\ LinesFollow /\ [SyncNext]_vars => LinesFollow'
    <2> SUFFICES ASSUME Basic, LinesFollow, [SyncNext]_vars PROVE LinesFollow'
      OBVIOUS
    <2>1. CASE Begins
      <3>1. LinesWait(In(run'.todo)) /\ UnlinksWait(In(run'.todo)) /\ LinesLinked
        BY <2>1, StartsLines DEF Begins, LinesFollow
      <3>2. rules' = rules /\ bodies' = bodies
        BY <2>1 DEF Begins
      <3>3. LinesLinked'
        BY <3>1, <3>2 DEF LinesLinked, NamesIn
      <3>4. LinesWait(In(run.todo))'
        BY <3>1, <3>2 DEF LinesWait, In, NamesIn
      <3>5. UnlinksWait(In(run.todo))'
        BY <3>1, <3>2 DEF UnlinksWait, In
      <3> QED BY <3>3, <3>4, <3>5 DEF LinesFollow
    <2>2. CASE Apply
      BY <2>2, ApplyLines
    <2>3. CASE Closes \/ Drifts
      <3>1. rules' = rules /\ bodies' = bodies /\ run' = NoRun
        BY <2>3 DEF Closes, Drifts
      <3>2. LinesLinked'
        BY <3>1 DEF LinesFollow, LinesLinked, NamesIn
      <3>3. run'.todo = <<>>
        BY <3>1 DEF NoRun
      <3>4. LinesWait(In(run.todo))' /\ UnlinksWait(In(run.todo))'
        BY <3>3 DEF LinesWait, UnlinksWait, In
      <3> QED BY <3>2, <3>4 DEF LinesFollow
    <2>4. CASE UNCHANGED vars
      <3>1. rules' = rules /\ bodies' = bodies /\ run' = run
        BY <2>4 DEF vars
      <3> QED BY <3>1 DEF LinesFollow, LinesLinked, LinesWait, UnlinksWait, In, NamesIn
    <2> QED BY <2>1, <2>2, <2>3, <2>4, StepKinds
  <1>3. LinesFollow => LinesLinked
    BY DEF LinesFollow
  <1> QED BY <1>1, <1>2, <1>3, BasicInvariance, PTL DEF SyncSpec

----------------------------------------------------------------------------
(* The session hook                                                        *)

\* A change a hook run may queue: none that takes a link or a rule file away or
\* touches the store copy of a source that is not installed.
HookSafe(c) ==
    /\ c.kind # "unlink"
    /\ c.kind = "rules" => c.tree # Empty
    /\ c.kind \in KindsOf(AtStore) => state[c.source].added

HookQueue == run.verb = "hook" => \A c \in In(run.todo) : HookSafe(c)

LEMMA StartsHook ==
  ASSUME NEW t, Starts(t, "hook")
  PROVE  \A c \in In(t) : HookSafe(c)
  <1>1. PICK doc, fresh, held, heldNow : \E writes \in BOOLEAN :
            /\ Planned(doc, fresh, held, heldNow) /\ Added(doc) = Added(state)
            /\ In(t) = PlanChanges(doc, fresh, held, heldNow, TRUE, writes)
    <2>1. PICK verb : verb = "hook"
      OBVIOUS
    <2>2. PICK hook \in BOOLEAN : hook = (verb = "hook")
      OBVIOUS
    <2>3. \E doc, fresh, held, heldNow : \E writes \in BOOLEAN :
            /\ Planned(doc, fresh, held, heldNow) /\ Added(doc) = Added(state)
            /\ In(t) = PlanChanges(doc, fresh, held, heldNow, hook, writes)
      BY <2>1, <2>2, StartsIn
    <2>4. hook = TRUE
      BY <2>1, <2>2
    <2> QED BY <2>3, <2>4
  <1>2. PICK writes \in BOOLEAN : In(t) = PlanChanges(doc, fresh, held, heldNow, TRUE, writes)
    BY <1>1
  <1>3. fresh \subseteq Added(state)
    BY <1>1 DEF Planned
  <1> SUFFICES ASSUME NEW c \in In(t) PROVE HookSafe(c)
    OBVIOUS
  <1> DEFINE blocks == BlocksOf(doc, held, TreesOf(fresh))
  <1>4. \/ c = StateChange(doc, off)
        \/ /\ c.category \notin {"removal", "orphan"}
           /\ \/ Brought(c, fresh) \/ SweptStore(c, doc)
              \/ Parked(c, heldNow) \/ SweptPending(c, doc)
              \/ Linked(c, doc) \/ Unlinked(c, blocks, doc)
              \/ RuleWritten(c, blocks) \/ RuleGone(c)
    BY <1>2, PlanChange
  <1> HIDE DEF blocks
  <1>5. KindsOf(AtStore) = {"delete-store", "mkdir-store", "write-store"}
    BY DEF KindsOf, AtStore
  <1>6. CASE Brought(c, fresh)
    BY <1>3, <1>5, <1>6 DEF Brought, Swaps, HookSafe, AtStore, Added
  <1>7. CASE Parked(c, heldNow)
    BY <1>5, <1>7 DEF Parked, Swaps, HookSafe, AtPending
  <1>8. CASE Linked(c, doc)
    BY <1>5, <1>8 DEF Linked, HookSafe
  <1>9. CASE RuleWritten(c, blocks)
    BY <1>5, <1>9 DEF RuleWritten, HookSafe
  <1>10. CASE c = StateChange(doc, off)
    BY <1>5, <1>10 DEF StateChange, HookSafe
  <1>11. ~(c.category \notin {"removal", "orphan"} /\
             (SweptStore(c, doc) \/ SweptPending(c, doc) \/ Unlinked(c, blocks, doc) \/ RuleGone(c)))
    BY DEF SweptStore, SweptPending, Unlinked, RuleGone
  <1> QED BY <1>4, <1>6, <1>7, <1>8, <1>9, <1>10, <1>11

\* The session hook leaves every rule file, body link and store copy in place: it
\* takes no link and no rule file away, and no store copy of a removed source.
THEOREM HookTakesNothing == SyncSpec => HookKeeps
  <1> DEFINE Keeps ==
          run.verb = "hook" /\ run' # NoRun =>
              /\ \A s \in Sources : rules[s] # Empty => rules'[s] # Empty
              /\ \A n \in Names : bodies[n] # 0 => bodies'[n] # 0
              /\ \A s \in Sources : ~state[s].added => store'[s] = store[s]
  <1>1. SyncInit => HookQueue
    BY DEF SyncInit, NoRun, HookQueue
  <1>2. Basic /\ HookQueue /\ [SyncNext]_vars => HookQueue'
    <2> SUFFICES ASSUME Basic, HookQueue, [SyncNext]_vars PROVE HookQueue'
      OBVIOUS
    <2>1. CASE Begins
      <3> SUFFICES ASSUME run'.verb = "hook" PROVE \A c \in In(run'.todo) : HookSafe(c)'
        BY DEF HookQueue, In
      <3>1. Starts(run'.todo, "hook") /\ state' = state
        BY <2>1 DEF Begins
      <3>2. \A c \in In(run'.todo) : HookSafe(c)
        BY <3>1, StartsHook
      <3> QED BY <3>1, <3>2 DEF HookSafe
    <2>2. CASE Apply
      <3> DEFINE c == Head(run.todo)
      <3>1. /\ Effect(c) /\ In(run.todo) = {c} \union In(run'.todo)
            /\ \A d \in In(run'.todo) : May(c, d)
            /\ run'.verb = run.verb
        BY <2>2, ApplyEffect
      <3> HIDE DEF c
      <3> SUFFICES ASSUME run'.verb = "hook", NEW d \in In(run'.todo) PROVE HookSafe(d)'
        BY DEF HookQueue, In
      <3>2. HookSafe(d)
        BY <3>1 DEF HookQueue
      <3>3. state' = state
        BY <3>1 DEF May, Effect
      <3> QED BY <3>2, <3>3 DEF HookSafe
    <2>3. CASE Closes \/ Drifts
      BY <2>3 DEF Closes, Drifts, NoRun, HookQueue
    <2>4. CASE UNCHANGED vars
      BY <2>4 DEF vars, HookQueue, HookSafe, In
    <2> QED BY <2>1, <2>2, <2>3, <2>4, StepKinds
  <1>3. Basic /\ HookQueue /\ [SyncNext]_vars => [Keeps]_vars
    <2> SUFFICES ASSUME Basic, HookQueue, SyncNext, run.verb = "hook", run' # NoRun
                 PROVE  Keeps
      OBVIOUS
    <2>1. CASE Apply
      <3> DEFINE c == Head(run.todo)
      <3>1. Sound(c) /\ Effect(c) /\ c \in In(run.todo)
        BY <2>1, ApplyEffect
      <3> HIDE DEF c
      <3>2. HookSafe(c)
        BY <3>1 DEF HookQueue
      <3>3. /\ rules \in [Sources -> Trees] /\ bodies \in [Names -> Sources \union {0}]
            /\ store \in [Sources -> Dirs] /\ 0 \notin Sources
        BY SyncAssumption DEF Basic, Typed, SyncAssumption
      <3>4. \A s \in Sources : rules[s] # Empty => rules'[s] # Empty
        BY <3>1, <3>2, <3>3 DEF HookSafe, Effect, Sound
      <3>5. \A n \in Names : bodies[n] # 0 => bodies'[n] # 0
        BY <3>1, <3>2, <3>3 DEF HookSafe, Effect, Sound
      <3>6. \A s \in Sources : ~state[s].added => store'[s] = store[s]
        BY <3>1, <3>2, <3>3 DEF HookSafe, Effect
      <3> QED BY <3>4, <3>5, <3>6
    <2>2. CASE Begins \/ Closes \/ Drifts
      BY <2>2 DEF Begins, Closes, Drifts, NoRun
    <2> QED BY <2>1, <2>2, StepKinds
  <1>4. SyncSpec => [][Keeps]_vars
    BY <1>1, <1>2, <1>3, BasicInvariance, PTL DEF SyncSpec
  <1> QED BY <1>4 DEF HookKeeps

----------------------------------------------------------------------------
(* Store copies and parked revisions                                       *)

Queued(q, kind, s) == \E c \in q : c.kind = kind /\ c.source = s

QueuedFor(q, kind, s, n) == \E c \in q : c.kind = kind /\ c.source = s /\ c.name = n

\* A directory has files only where it is there, or will be.
Formed(q, root, s, d) ==
    /\ Queued(q, root.write, s) => d.there \/ Queued(q, root.mkdir, s)
    /\ Queued(q, root.write, s) /\ Queued(q, root.delete, s) => Queued(q, root.mkdir, s)
    /\ d.files # Empty => d.there \/ Queued(q, root.mkdir, s)

\* Once the queue is done, a directory holds the tree and nothing else.
Filled(q, root, s, d, tree) ==
    /\ d.there \/ Queued(q, root.mkdir, s)
    /\ \A n \in Names : \/ d.files[n] = tree[n] \/ Queued(q, root.delete, s)
                        \/ QueuedFor(q, root.write, s, n)
    /\ \A c \in q : c.kind = root.write /\ c.source = s => c.version = tree[c.name]
    /\ Queued(q, root.delete, s) =>
          Queued(q, root.mkdir, s) /\ \A n \in NamesIn(tree) : QueuedFor(q, root.write, s, n)

LEMMA RootKinds ==
  ASSUME NEW root \in {AtStore, AtPending}
  PROVE  /\ root.delete # root.mkdir /\ root.delete # root.write /\ root.mkdir # root.write
         /\ \A a, b : May(a, b) /\ b.kind = root.delete /\ a.kind \in {root.mkdir, root.write}
                          => a.source # b.source
  BY DEF AtStore, AtPending, May

\* Both carry over to the rest of a queue and the directory its first change leaves.
LEMMA DirFilled ==
  ASSUME NEW root \in {AtStore, AtPending}, NEW s, NEW c, NEW r, \A x \in r : May(c, x),
         Sound(c), NEW d \in Dirs, NEW e,
         e = IF c.kind \in KindsOf(root) /\ c.source = s THEN DirStep(root, c, d) ELSE d,
         Formed({c} \union r, root, s, d)
  PROVE  /\ Formed(r, root, s, e)
         /\ \A tree : Filled({c} \union r, root, s, d, tree) => Filled(r, root, s, e, tree)
  <1> DEFINE q == {c} \union r
  <1>1. /\ root.delete # root.mkdir /\ root.delete # root.write /\ root.mkdir # root.write
        /\ \A x \in r : x.kind = root.delete /\ c.kind \in {root.mkdir, root.write}
                            => c.source # x.source
    BY RootKinds
  <1>2. ASSUME NEW kind, ~(c.kind = kind /\ c.source = s)
        PROVE  Queued(q, kind, s) <=> Queued(r, kind, s)
    BY <1>2 DEF Queued
  <1>3. ASSUME NEW kind, NEW n, ~(c.kind = kind /\ c.source = s /\ c.name = n)
        PROVE  QueuedFor(q, kind, s, n) <=> QueuedFor(r, kind, s, n)
    BY <1>3 DEF QueuedFor
  <1>4. \A kind : Queued(r, kind, s) => Queued(q, kind, s)
    BY DEF Queued
  <1>5. c.kind \in {root.mkdir, root.write} /\ c.source = s => ~Queued(r, root.delete, s)
    BY <1>1 DEF Queued
  <1>6. Formed(q, root, s, d)
    OBVIOUS
  <1>7. \A n \in Names : Empty[n] = 0
    BY DEF Empty
  <1>8. Queued(q, c.kind, c.source)
    BY DEF Queued
  <1>9. r \subseteq q
    OBVIOUS
  <1> HIDE DEF q
  <1>10. CASE c.kind = root.delete /\ c.source = s
    <2>1. e = Gone
      BY <1>10 DEF KindsOf, DirStep
    <2>2. Formed(r, root, s, e)
      BY <1>1, <1>2, <1>4, <1>6, <1>8, <1>10, <2>1 DEF Formed, Gone
    <2>3. ASSUME NEW tree, Filled(q, root, s, d, tree)
          PROVE  Filled(r, root, s, e, tree)
      <3>1. /\ Queued(r, root.mkdir, s)
            /\ \A n \in NamesIn(tree) : QueuedFor(r, root.write, s, n)
        BY <1>1, <1>2, <1>3, <1>8, <1>10, <2>3 DEF Filled
      <3>2. \A n \in Names : e.files[n] = tree[n] \/ QueuedFor(r, root.write, s, n)
        BY <1>7, <2>1, <3>1 DEF Gone, NamesIn
      <3>3. \A x \in r : x.kind = root.write /\ x.source = s => x.version = tree[x.name]
        BY <1>9, <2>3 DEF Filled
      <3> QED BY <3>1, <3>2, <3>3 DEF Filled
    <2> QED BY <2>2, <2>3 DEF q
  <1>11. CASE c.kind = root.mkdir /\ c.source = s
    <2>1. e.there /\ e.files = d.files
      BY <1>1, <1>11 DEF KindsOf, DirStep, Dirs
    <2>2. Formed(r, root, s, e)
      BY <1>5, <1>11, <2>1 DEF Formed
    <2>3. ASSUME NEW tree, Filled(q, root, s, d, tree)
          PROVE  Filled(r, root, s, e, tree)
      <3>1. \A n \in Names : \/ e.files[n] = tree[n] \/ Queued(r, root.delete, s)
                             \/ QueuedFor(r, root.write, s, n)
        BY <1>1, <1>2, <1>3, <1>11, <2>1, <2>3 DEF Filled
      <3>2. \A x \in r : x.kind = root.write /\ x.source = s => x.version = tree[x.name]
        BY <1>9, <2>3 DEF Filled
      <3> QED BY <1>5, <1>11, <2>1, <3>1, <3>2 DEF Filled
    <2> QED BY <2>2, <2>3 DEF q
  <1>12. CASE c.kind = root.write /\ c.source = s
    <2>0. c.name \in Names
      BY <1>12 DEF Sound, AtStore, AtPending
    <2>1. /\ e.there = d.there /\ e.files[c.name] = c.version
          /\ \A n \in Names : n # c.name => e.files[n] = d.files[n]
      BY <1>1, <1>12, <2>0 DEF KindsOf, DirStep, Dirs, Trees
    <2>2. Formed(r, root, s, e)
      BY <1>1, <1>2, <1>4, <1>5, <1>6, <1>8, <1>12, <2>1 DEF Formed
    <2>3. ASSUME NEW tree, Filled(q, root, s, d, tree)
          PROVE  Filled(r, root, s, e, tree)
      <3>1. e.there \/ Queued(r, root.mkdir, s)
        BY <1>1, <1>2, <1>12, <2>1, <2>3 DEF Filled
      <3>2. ASSUME NEW n \in Names
            PROVE  \/ e.files[n] = tree[n] \/ Queued(r, root.delete, s)
                   \/ QueuedFor(r, root.write, s, n)
        <4>1. CASE n = c.name
          <5>1. c.version = tree[c.name]
            BY <1>12, <2>3 DEF Filled, q
          <5> QED BY <2>1, <4>1, <5>1
        <4>2. CASE n # c.name
          BY <1>1, <1>2, <1>3, <1>12, <2>1, <2>3, <4>2 DEF Filled
        <4> QED BY <4>1, <4>2
      <3>3. \A x \in r : x.kind = root.write /\ x.source = s => x.version = tree[x.name]
        BY <1>9, <2>3 DEF Filled
      <3> QED BY <1>5, <1>12, <3>1, <3>2, <3>3 DEF Filled
    <2> QED BY <2>2, <2>3 DEF q
  <1>13. CASE ~(c.kind \in KindsOf(root) /\ c.source = s)
    <2>1. e = d
      BY <1>13
    <2>2. \A kind \in KindsOf(root) : Queued(q, kind, s) <=> Queued(r, kind, s)
      BY <1>2, <1>13
    <2>3. \A kind \in KindsOf(root) : \A n :
             QueuedFor(q, kind, s, n) <=> QueuedFor(r, kind, s, n)
      BY <1>3, <1>13
    <2>4. root.delete \in KindsOf(root) /\ root.mkdir \in KindsOf(root) /\ root.write \in KindsOf(root)
      BY DEF KindsOf
    <2>5. Formed(r, root, s, e)
      BY <1>6, <2>1, <2>2, <2>4 DEF Formed
    <2>6. ASSUME NEW tree, Filled(q, root, s, d, tree)
          PROVE  Filled(r, root, s, e, tree)
      BY <1>9, <2>1, <2>2, <2>3, <2>4, <2>6 DEF Filled
    <2> QED BY <2>5, <2>6 DEF q
  <1> QED BY <1>10, <1>11, <1>12, <1>13 DEF KindsOf

\* A swap queued whole fills its directory.
LEMMA SwapFills ==
  ASSUME NEW root \in {AtStore, AtPending}, NEW dir, NEW s, NEW tree, NEW q,
         SwapSet(root, dir, s, tree) \subseteq q,
         \A c \in q : c.kind \in KindsOf(root) /\ c.source = s => Swaps(c, root, s, tree),
         dir[s].files # Empty => dir[s].there
  PROVE  Formed(q, root, s, dir[s]) /\ Filled(q, root, s, dir[s], tree)
  <1>0. root.delete # root.mkdir /\ root.delete # root.write /\ root.mkdir # root.write
    BY RootKinds
  <1>1. Queued(q, root.mkdir, s)
    <2> DEFINE c == Change("store", root.mkdir, s, 0, 0)
    <2>1. c \in SwapSet(root, dir, s, tree)
      BY DEF SwapSet
    <2>2. c.kind = root.mkdir /\ c.source = s
      BY DEF Change
    <2> HIDE DEF c
    <2> QED BY <2>1, <2>2 DEF Queued
  <1>2. dir[s].there => Queued(q, root.delete, s)
    <2> SUFFICES ASSUME dir[s].there PROVE Queued(q, root.delete, s)
      OBVIOUS
    <2> DEFINE c == Change("store", root.delete, s, 0, 0)
    <2>1. c \in SwapSet(root, dir, s, tree)
      BY DEF SwapSet
    <2>2. c.kind = root.delete /\ c.source = s
      BY DEF Change
    <2> HIDE DEF c
    <2> QED BY <2>1, <2>2 DEF Queued
  <1>3. \A n \in NamesIn(tree) : QueuedFor(q, root.write, s, n)
    <2> SUFFICES ASSUME NEW n \in NamesIn(tree) PROVE QueuedFor(q, root.write, s, n)
      OBVIOUS
    <2> DEFINE c == Change("store", root.write, s, n, tree[n])
    <2>1. c \in SwapSet(root, dir, s, tree)
      BY DEF SwapSet
    <2>2. c.kind = root.write /\ c.source = s /\ c.name = n
      BY DEF Change
    <2> HIDE DEF c
    <2> QED BY <2>1, <2>2 DEF QueuedFor
  <1>4. \A c \in q : c.kind = root.write /\ c.source = s => c.version = tree[c.name]
    <2>1. root.write \in KindsOf(root)
      BY DEF KindsOf
    <2> QED BY <1>0, <2>1 DEF Swaps
  <1>5. ASSUME NEW n \in Names
        PROVE  \/ dir[s].files[n] = tree[n] \/ Queued(q, root.delete, s)
               \/ QueuedFor(q, root.write, s, n)
    <2>1. Empty[n] = 0
      BY DEF Empty
    <2> QED BY <1>2, <1>3, <2>1 DEF NamesIn
  <1>6. Formed(q, root, s, dir[s])
    BY <1>1 DEF Formed
  <1>7. Filled(q, root, s, dir[s], tree)
    BY <1>1, <1>3, <1>4, <1>5 DEF Filled
  <1> QED BY <1>6, <1>7

\* So does a queue that leaves a full directory alone, or an empty one.
LEMMA LeftFormed ==
  ASSUME NEW root, NEW s, NEW d, NEW q, \A c \in q : ~(c.kind = root.write /\ c.source = s),
         d.files # Empty => d.there
  PROVE  Formed(q, root, s, d)
  BY DEF Formed, Queued

LEMMA LeftFilled ==
  ASSUME NEW root, NEW s, NEW d, NEW q, NEW tree,
         \A c \in q : ~(c.kind \in KindsOf(root) /\ c.source = s),
         Filled({}, root, s, d, tree)
  PROVE  Filled(q, root, s, d, tree)
  BY DEF Filled, Queued, QueuedFor, KindsOf

\* What the state file a run is heading for promises of the disk.
Settles(q, doc) ==
    \A s \in Sources :
        /\ doc[s].added => Filled(q, AtStore, s, store[s], doc[s].fetched)
        /\ doc[s].pending # Empty => Filled(q, AtPending, s, pending[s], doc[s].pending)

AllFormed(q) ==
    \A s \in Sources : Formed(q, AtStore, s, store[s]) /\ Formed(q, AtPending, s, pending[s])

\* Where nothing went wrong, the queue brings the disk to the state file it ends in.
OnCourse(q) ==
    /\ AllFormed(q)
    /\ \A c \in q : c.kind = "state" => Settles(q, c.doc)
    /\ (\A c \in q : c.kind # "state") => Settles(q, state)

StoreFollows == mishaps = 0 => OnCourse(In(run.todo))

LEMMA ApplyFollows ==
  ASSUME Basic, StoreFollows, Apply
  PROVE  StoreFollows'
  <1> DEFINE c == Head(run.todo)
             q == In(run.todo)
             r == In(run'.todo)
  <1>1. /\ Sound(c) /\ Effect(c) /\ q = {c} \union r /\ mishaps' = mishaps
        /\ \A x \in r : May(c, x)
    BY ApplyEffect
  <1> HIDE DEF c, r
  <1> SUFFICES ASSUME mishaps = 0 PROVE OnCourse(In(run.todo))'
    BY <1>1 DEF StoreFollows
  <1>2. AllFormed(q) /\ (\A x \in q : x.kind = "state" => Settles(q, x.doc))
        /\ ((\A x \in q : x.kind # "state") => Settles(q, state))
    BY DEF StoreFollows, OnCourse
  <1> HIDE DEF q
  <1>3. store \in [Sources -> Dirs] /\ pending \in [Sources -> Dirs]
    BY DEF Basic, Typed
  <1>4. ASSUME NEW s \in Sources
        PROVE  /\ store'[s] = IF c.kind \in KindsOf(AtStore) /\ c.source = s
                              THEN DirStep(AtStore, c, store[s]) ELSE store[s]
               /\ pending'[s] = IF c.kind \in KindsOf(AtPending) /\ c.source = s
                                THEN DirStep(AtPending, c, pending[s]) ELSE pending[s]
    BY <1>1, <1>3 DEF Effect
  <1>5. ASSUME NEW s \in Sources
        PROVE  /\ Formed(r, AtStore, s, store'[s])
               /\ \A tree : Filled(q, AtStore, s, store[s], tree) =>
                                Filled(r, AtStore, s, store'[s], tree)
    <2>1. Formed({c} \union r, AtStore, s, store[s]) /\ store[s] \in Dirs
      BY <1>1, <1>2, <1>3 DEF AllFormed
    <2>2. AtStore \in {AtStore, AtPending}
      OBVIOUS
    <2> QED BY <1>1, <1>4, <2>1, <2>2, DirFilled
  <1>6. ASSUME NEW s \in Sources
        PROVE  /\ Formed(r, AtPending, s, pending'[s])
               /\ \A tree : Filled(q, AtPending, s, pending[s], tree) =>
                                Filled(r, AtPending, s, pending'[s], tree)
    <2>1. Formed({c} \union r, AtPending, s, pending[s]) /\ pending[s] \in Dirs
      BY <1>1, <1>2, <1>3 DEF AllFormed
    <2>2. AtPending \in {AtStore, AtPending}
      OBVIOUS
    <2> QED BY <1>1, <1>4, <2>1, <2>2, DirFilled
  <1> DEFINE Done(doc) ==
          \A s \in Sources :
              /\ doc[s].added => Filled(r, AtStore, s, store'[s], doc[s].fetched)
              /\ doc[s].pending # Empty => Filled(r, AtPending, s, pending'[s], doc[s].pending)
  <1>7. \A doc : Settles(q, doc) => Done(doc)
    BY <1>5, <1>6 DEF Settles
  <1>8. \A x \in r : x.kind = "state" => Done(x.doc)
    BY <1>1, <1>2, <1>7
  <1>9. ASSUME \A x \in r : x.kind # "state"
        PROVE  Done(state')
    <2>1. CASE c.kind = "state"
      <3>1. Settles(q, c.doc) /\ state' = c.doc
        BY <1>1, <1>2, <2>1 DEF Effect
      <3> HIDE DEF Done
      <3> QED BY <1>7, <3>1
    <2>2. CASE c.kind # "state"
      <3>1. Settles(q, state) /\ state' = state
        BY <1>1, <1>2, <1>9, <2>2 DEF Effect
      <3> HIDE DEF Done
      <3> QED BY <1>7, <3>1
    <2> QED BY <2>1, <2>2
  <1>10. AllFormed(In(run.todo))'
    BY <1>5, <1>6 DEF AllFormed, Formed, Queued, In, r
  <1> QED BY <1>8, <1>9, <1>10 DEF OnCourse, Settles, Filled, Queued, QueuedFor, In, r

\* A plan holds the swap of every source it brings in or parks.
LEMMA PlanSwaps ==
  ASSUME NEW doc, NEW fresh, NEW held, NEW heldNow, Planned(doc, fresh, held, heldNow),
         NEW hook \in BOOLEAN, NEW writes \in BOOLEAN
  PROVE  LET q == PlanChanges(doc, fresh, held, heldNow, hook, writes)
         IN /\ \A s \in fresh : SwapSet(AtStore, store, s, Upstream(s)) \subseteq q
            /\ \A s \in heldNow : SwapSet(AtPending, pending, s, Upstream(s)) \subseteq q
  <1> DEFINE q == PlanChanges(doc, fresh, held, heldNow, hook, writes)
             trees == TreesOf(fresh)
             works == Works(doc, held, trees)
             blocks == BlocksOf(doc, held, trees)
             A == InstallSet(doc, fresh, held, heldNow, trees)
  <1>1. \A c \in A : c.category = "store" => c \in q
    BY DEF PlanChanges, Keepable
  <1>2. AllBodies(works, blocks, fresh, trees) \subseteq A /\ AllParked(heldNow) \subseteq A
    BY DEF InstallSet
  <1> HIDE DEF q, A
  <1>3. ASSUME NEW s \in fresh
        PROVE  SwapSet(AtStore, store, s, Upstream(s)) \subseteq q
    <2>1. s \in Added(doc) /\ s \notin held /\ s \in Sources
      BY DEF Planned, Added
    <2>2. trees[s] = Upstream(s)
      BY <2>1 DEF TreesOf
    <2>3. Upstream(s) # Empty
      BY <2>1 DEF Planned, Sane, Added
    <2>4. s \in works
      BY <2>1, <2>2, <2>3 DEF Works, Readable
    <2> SUFFICES ASSUME NEW c \in SwapSet(AtStore, store, s, Upstream(s)) PROVE c \in q
      OBVIOUS
    <2>5. c \in BodySet(s, fresh, trees[s], blocks[s])
      BY <2>2 DEF BodySet
    <2>6. c \in A
      <3> HIDE DEF works, blocks, trees
      <3> QED BY <1>2, <2>4, <2>5 DEF AllBodies
    <2>7. c.category = "store"
      BY SwapSetKinds
    <2> QED BY <1>1, <2>6, <2>7
  <1>4. ASSUME NEW s \in heldNow
        PROVE  SwapSet(AtPending, pending, s, Upstream(s)) \subseteq q
    <2> SUFFICES ASSUME NEW c \in SwapSet(AtPending, pending, s, Upstream(s)) PROVE c \in q
      OBVIOUS
    <2>1. c \in A
      BY <1>2 DEF AllParked
    <2>2. c.category = "store"
      BY SwapSetKinds
    <2> QED BY <1>1, <2>1, <2>2
  <1> QED BY <1>3, <1>4 DEF q

\* The queues runs begin with bring a disk in order to the state file they end in.
LEMMA PlanFollows ==
  ASSUME Typed, OnCourse({}), NEW doc, NEW fresh, NEW held, NEW heldNow,
         Planned(doc, fresh, held, heldNow), NEW hook \in BOOLEAN, NEW writes \in BOOLEAN,
         writes \/ doc = state
  PROVE  OnCourse(PlanChanges(doc, fresh, held, heldNow, hook, writes))
  <1> DEFINE q == PlanChanges(doc, fresh, held, heldNow, hook, writes)
             blocks == BlocksOf(doc, held, TreesOf(fresh))
  <1>0. /\ KindsOf(AtStore) = {"delete-store", "mkdir-store", "write-store"}
        /\ KindsOf(AtPending) = {"delete-pending", "mkdir-pending", "write-pending"}
        /\ AtStore.write = "write-store" /\ AtPending.write = "write-pending"
        /\ AtStore \in {AtStore, AtPending} /\ AtPending \in {AtStore, AtPending}
    BY DEF KindsOf, AtStore, AtPending
  <1>1. ASSUME NEW s \in Sources
        PROVE  /\ store[s].files # Empty => store[s].there
               /\ pending[s].files # Empty => pending[s].there
               /\ state[s].added => Filled({}, AtStore, s, store[s], state[s].fetched)
               /\ state[s].pending # Empty => Filled({}, AtPending, s, pending[s], state[s].pending)
    BY DEF OnCourse, AllFormed, Formed, Queued, Settles
  <1>2. ASSUME NEW c \in q
        PROVE  \/ writes /\ c = StateChange(doc, off)
               \/ Brought(c, fresh) \/ SweptStore(c, doc)
               \/ Parked(c, heldNow) \/ SweptPending(c, doc)
               \/ c.kind \in {"link", "unlink", "rules"}
    BY PlanChange DEF Linked, Unlinked, RuleWritten, RuleGone
  <1>3. /\ \A s \in fresh : SwapSet(AtStore, store, s, Upstream(s)) \subseteq q
        /\ \A s \in heldNow : SwapSet(AtPending, pending, s, Upstream(s)) \subseteq q
    BY PlanSwaps
  <1>4. /\ fresh \subseteq Added(doc) /\ heldNow \subseteq Added(doc)
        /\ Added(doc) \subseteq Added(state) /\ Added(state) \subseteq Sources
        /\ Added(doc) \subseteq Sources
        /\ \A s \in Added(doc) :
              doc[s].fetched = IF s \in fresh THEN Upstream(s) ELSE state[s].fetched
        /\ \A s \in heldNow : doc[s].pending = Upstream(s) /\ Upstream(s) # Empty
        /\ \A s \in Sources \ heldNow : doc[s].pending \in {Empty, state[s].pending}
    BY DEF Planned, Added
  <1>5. writes => StateChange(doc, off) \in q
    BY DEF PlanChanges
  <1> HIDE DEF q
  <1>6. ASSUME NEW c \in q, c.kind \in KindsOf(AtStore)
        PROVE  \/ c.source \in fresh /\ Swaps(c, AtStore, c.source, Upstream(c.source))
               \/ c.source \notin Added(doc) /\ c.kind = "delete-store"
    BY <1>0, <1>2, <1>6 DEF StateChange, Brought, SweptStore, Parked, Swaps, SweptPending,
       AtPending
  <1>7. ASSUME NEW c \in q, c.kind \in KindsOf(AtPending)
        PROVE  \/ c.source \in heldNow /\ Swaps(c, AtPending, c.source, Upstream(c.source))
               \/ doc[c.source].pending = Empty /\ c.kind = "delete-pending"
    BY <1>0, <1>2, <1>7 DEF StateChange, Brought, SweptStore, Parked, Swaps, SweptPending,
       AtStore
  <1>8. ASSUME NEW s \in Sources
        PROVE  /\ Formed(q, AtStore, s, store[s])
               /\ doc[s].added => Filled(q, AtStore, s, store[s], doc[s].fetched)
    <2>1. CASE s \in fresh
      <3>1. \A c \in q : c.kind \in KindsOf(AtStore) /\ c.source = s =>
                             Swaps(c, AtStore, s, Upstream(s))
        BY <1>4, <1>6, <2>1
      <3>2. Formed(q, AtStore, s, store[s]) /\ Filled(q, AtStore, s, store[s], Upstream(s))
        BY <1>0, <1>1, <1>3, <2>1, <3>1, SwapFills
      <3> QED BY <1>4, <2>1, <3>2
    <2>2. CASE s \notin fresh
      <3>1. \A c \in q : ~(c.kind = AtStore.write /\ c.source = s)
        BY <1>0, <1>6, <2>2
      <3>2. Formed(q, AtStore, s, store[s])
        BY <1>1, <3>1, LeftFormed
      <3>3. ASSUME doc[s].added
            PROVE  Filled(q, AtStore, s, store[s], doc[s].fetched)
        <4>1. s \in Added(doc) /\ s \in Added(state)
          BY <1>4, <3>3 DEF Added
        <4>2. \A c \in q : ~(c.kind \in KindsOf(AtStore) /\ c.source = s)
          BY <1>6, <2>2, <4>1
        <4>3. doc[s].fetched = state[s].fetched /\ state[s].added
          BY <1>4, <2>2, <4>1 DEF Added
        <4> QED BY <1>1, <4>2, <4>3, LeftFilled
      <3> QED BY <3>2, <3>3
    <2> QED BY <2>1, <2>2
  <1>9. ASSUME NEW s \in Sources
        PROVE  /\ Formed(q, AtPending, s, pending[s])
               /\ doc[s].pending # Empty => Filled(q, AtPending, s, pending[s], doc[s].pending)
    <2>1. CASE s \in heldNow
      <3>1. \A c \in q : c.kind \in KindsOf(AtPending) /\ c.source = s =>
                             Swaps(c, AtPending, s, Upstream(s))
        BY <1>4, <1>7, <2>1
      <3>2. Formed(q, AtPending, s, pending[s]) /\ Filled(q, AtPending, s, pending[s], Upstream(s))
        BY <1>0, <1>1, <1>3, <2>1, <3>1, SwapFills
      <3> QED BY <1>4, <2>1, <3>2
    <2>2. CASE s \notin heldNow
      <3>1. \A c \in q : ~(c.kind = AtPending.write /\ c.source = s)
        BY <1>0, <1>7, <2>2
      <3>2. Formed(q, AtPending, s, pending[s])
        BY <1>1, <3>1, LeftFormed
      <3>3. ASSUME doc[s].pending # Empty
            PROVE  Filled(q, AtPending, s, pending[s], doc[s].pending)
        <4>1. \A c \in q : ~(c.kind \in KindsOf(AtPending) /\ c.source = s)
          BY <1>7, <2>2, <3>3
        <4>2. doc[s].pending = state[s].pending
          BY <1>4, <2>2, <3>3
        <4> QED BY <1>1, <3>3, <4>1, <4>2, LeftFilled
      <3> QED BY <3>2, <3>3
    <2> QED BY <2>1, <2>2
  <1>10. AllFormed(q) /\ Settles(q, doc)
    BY <1>8, <1>9 DEF AllFormed, Settles
  <1>11. \A c \in q : c.kind = "state" => c.doc = doc
    BY <1>2 DEF StateChange, Brought, SweptStore, Parked, Swaps, SweptPending, AtStore, AtPending
  <1>12. (\A c \in q : c.kind # "state") => doc = state
    BY <1>5 DEF StateChange
  <1>13. OnCourse(q)
    BY <1>10, <1>11, <1>12 DEF OnCourse
  <1> QED BY <1>13 DEF q

LEMMA CommitFollows ==
  ASSUME Typed, OnCourse({}), NEW t, NEW verb, NEW doc, NEW names, NEW s, NEW tree,
         NEW lands \in BOOLEAN, CommitStarted(t, verb, doc, names, s, tree, lands)
  PROVE  OnCourse(CommitChanges(doc, names, s, tree, lands))
  <1> DEFINE q == CommitChanges(doc, names, s, tree, lands)
  <1>0. /\ KindsOf(AtStore) = {"delete-store", "mkdir-store", "write-store"}
        /\ KindsOf(AtPending) = {"delete-pending", "mkdir-pending", "write-pending"}
        /\ AtStore.write = "write-store" /\ AtPending.write = "write-pending"
        /\ AtStore \in {AtStore, AtPending} /\ AtPending \in {AtStore, AtPending}
    BY DEF KindsOf, AtStore, AtPending
  <1>1. ASSUME NEW r \in Sources
        PROVE  /\ store[r].files # Empty => store[r].there
               /\ pending[r].files # Empty => pending[r].there
               /\ state[r].added => Filled({}, AtStore, r, store[r], state[r].fetched)
               /\ state[r].pending # Empty => Filled({}, AtPending, r, pending[r], state[r].pending)
    BY DEF OnCourse, AllFormed, Formed, Queued, Settles
  <1>2. \A c \in q : c = StateChange(doc, names) \/ (lands /\ Swaps(c, AtStore, s, tree))
    BY CommitChange
  <1>3. lands => SwapSet(AtStore, store, s, tree) \subseteq q
    BY DEF CommitChanges
  <1>4. StateChange(doc, names) \in q
    BY DEF CommitChanges
  <1>5. /\ lands => doc[s].fetched = tree
        /\ \A r \in Sources : doc[r].added /\ ~(lands /\ r = s) =>
                                  state[r].added /\ doc[r].fetched = state[r].fetched
        /\ \A r \in Sources : doc[r].pending \in {Empty, state[r].pending}
    BY DEF CommitStarted
  <1> HIDE DEF q
  <1>6. \A c \in q : c.kind \in KindsOf(AtStore) =>
                         lands /\ c.source = s /\ Swaps(c, AtStore, s, tree)
    BY <1>0, <1>2 DEF StateChange, Swaps
  <1>7. \A c \in q : c.kind \notin KindsOf(AtPending)
    BY <1>0, <1>2 DEF StateChange, Swaps, AtStore
  <1>8. ASSUME NEW r \in Sources
        PROVE  /\ Formed(q, AtStore, r, store[r])
               /\ doc[r].added => Filled(q, AtStore, r, store[r], doc[r].fetched)
    <2>1. CASE lands /\ r = s
      <3>1. Formed(q, AtStore, r, store[r]) /\ Filled(q, AtStore, r, store[r], tree)
        BY <1>0, <1>1, <1>3, <1>6, <2>1, SwapFills
      <3> QED BY <1>5, <2>1, <3>1
    <2>2. CASE ~(lands /\ r = s)
      <3>1. \A c \in q : ~(c.kind \in KindsOf(AtStore) /\ c.source = r)
        BY <1>6, <2>2
      <3>2. Formed(q, AtStore, r, store[r])
        BY <1>0, <1>1, <3>1, LeftFormed
      <3>3. ASSUME doc[r].added
            PROVE  Filled(q, AtStore, r, store[r], doc[r].fetched)
        BY <1>1, <1>5, <2>2, <3>1, <3>3, LeftFilled
      <3> QED BY <3>2, <3>3
    <2> QED BY <2>1, <2>2
  <1>9. ASSUME NEW r \in Sources
        PROVE  /\ Formed(q, AtPending, r, pending[r])
               /\ doc[r].pending # Empty => Filled(q, AtPending, r, pending[r], doc[r].pending)
    <2>1. Formed(q, AtPending, r, pending[r])
      BY <1>0, <1>1, <1>7, LeftFormed
    <2>2. ASSUME doc[r].pending # Empty
          PROVE  Filled(q, AtPending, r, pending[r], doc[r].pending)
      <3>1. doc[r].pending = state[r].pending
        BY <1>5, <2>2
      <3> QED BY <1>1, <1>7, <2>2, <3>1, LeftFilled
    <2> QED BY <2>1, <2>2
  <1>10. AllFormed(q) /\ Settles(q, doc)
    BY <1>8, <1>9 DEF AllFormed, Settles
  <1>11. \A c \in q : c.kind = "state" => c.doc = doc
    BY <1>2 DEF StateChange, Swaps, AtStore
  <1>12. ~(\A c \in q : c.kind # "state")
    BY <1>4 DEF StateChange
  <1>13. OnCourse(q)
    BY <1>10, <1>11, <1>12 DEF OnCourse
  <1> QED BY <1>13 DEF q

LEMMA StartsFollow ==
  ASSUME Typed, OnCourse({}), NEW t, NEW verb, Starts(t, verb)
  PROVE  OnCourse(In(t))
  <1>1. ASSUME NEW doc, NEW fresh, NEW held, NEW heldNow, NEW writes \in BOOLEAN,
               Planned(doc, fresh, held, heldNow), writes \/ doc = state,
               In(t) = PlanChanges(doc, fresh, held, heldNow, verb = "hook", writes)
        PROVE  OnCourse(In(t))
    <2>1. PICK hook \in BOOLEAN : hook = (verb = "hook")
      OBVIOUS
    <2>2. OnCourse(PlanChanges(doc, fresh, held, heldNow, hook, writes))
      BY <1>1, PlanFollows
    <2> QED BY <1>1, <2>1, <2>2
  <1>2. ASSUME NEW doc, NEW names, NEW s, NEW tree, NEW lands \in BOOLEAN,
               CommitStarted(t, verb, doc, names, s, tree, lands),
               In(t) = CommitChanges(doc, names, s, tree, lands)
        PROVE  OnCourse(In(t))
    BY <1>2, CommitFollows
  <1>3. \/ \E doc, fresh, held, heldNow : \E writes \in BOOLEAN :
              /\ verb # "add" /\ Planned(doc, fresh, held, heldNow)
              /\ verb = "hook" => Added(doc) = Added(state)
              /\ writes \/ doc = state
              /\ In(t) = PlanChanges(doc, fresh, held, heldNow, verb = "hook", writes)
        \/ \E doc, names, s, tree : \E lands \in BOOLEAN :
              /\ verb # "hook" /\ CommitStarted(t, verb, doc, names, s, tree, lands)
              /\ In(t) = CommitChanges(doc, names, s, tree, lands)
    BY StartsIn
  <1> QED BY <1>1, <1>2, <1>3, Zenon

LEMMA FollowsInvariance == SyncSpec => []StoreFollows
  <1>1. SyncInit => StoreFollows
    <2> SUFFICES ASSUME SyncInit PROVE OnCourse(In(run.todo))
      BY DEF StoreFollows
    <2>1. run.todo = <<>>
      BY DEF SyncInit, NoRun
    <2>2. In(run.todo) = {}
      BY <2>1, QueueNone
    <2>3. AllFormed({})
      BY DEF SyncInit, AllFormed, Formed, Queued, Gone
    <2>4. Settles({}, state)
      BY DEF SyncInit, Settles, NoEntry
    <2> QED BY <2>2, <2>3, <2>4 DEF OnCourse
  <1>2. Basic /\ StoreFollows /\ [SyncNext]_vars => StoreFollows'
    <2> SUFFICES ASSUME Basic, StoreFollows, [SyncNext]_vars PROVE StoreFollows'
      OBVIOUS
    <2>1. CASE Begins
      <3> SUFFICES ASSUME mishaps' = 0 PROVE OnCourse(In(run.todo))'
        BY DEF StoreFollows
      <3>1. /\ Starts(run'.todo, run'.verb) /\ run.todo = <<>> /\ mishaps = 0
            /\ UNCHANGED <<state, store, pending>>
        BY <2>1 DEF Begins, NoRun
      <3>2. OnCourse({})
        BY <3>1, QueueNone DEF StoreFollows
      <3>3. OnCourse(In(run'.todo))
        BY <3>1, <3>2, StartsFollow DEF Basic
      <3> QED BY <3>1, <3>3 DEF OnCourse, AllFormed, Formed, Settles, Filled, Queued, QueuedFor, In
    <2>2. CASE Apply
      BY <2>2, ApplyFollows
    <2>3. CASE Closes \/ Drifts
      <3> SUFFICES ASSUME mishaps' = 0 PROVE OnCourse(In(run.todo))'
        BY DEF StoreFollows
      <3>1. /\ run.todo = <<>> /\ run'.todo = <<>> /\ mishaps = 0
            /\ UNCHANGED <<store, pending>>
            /\ \A s \in Sources :
                  /\ state'[s].added = state[s].added /\ state'[s].fetched = state[s].fetched
                  /\ state'[s].pending = state[s].pending
        BY <2>3 DEF Closes, Drifts, NoRun, Basic
      <3>2. OnCourse({})
        BY <3>1, QueueNone DEF StoreFollows
      <3>3. In(run'.todo) = {}
        BY <3>1, QueueNone
      <3>4. AllFormed({})' /\ Settles({}, state)'
        BY <3>1, <3>2 DEF OnCourse, AllFormed, Formed, Settles, Filled, Queued, QueuedFor
      <3>5. OnCourse({})'
        BY <3>4 DEF OnCourse
      <3> QED BY <3>3, <3>5
    <2>4. CASE UNCHANGED vars
      BY <2>4 DEF vars, StoreFollows, OnCourse, AllFormed, Formed, Settles, Filled, Queued,
         QueuedFor, In
    <2> QED BY <2>1, <2>2, <2>3, <2>4, StepKinds
  <1> QED BY <1>1, <1>2, BasicInvariance, PTL DEF SyncSpec

\* Between runs, and where nothing went wrong, the store copy of every installed
\* source is its record, and every held revision is parked whole.
StoreAgrees ==
    mishaps = 0 /\ Idle => \A s \in Sources :
        /\ state[s].added => store[s] = Holding(state[s].fetched)
        /\ state[s].pending # Empty => pending[s] = Holding(state[s].pending)

\* Whatever runs came before, however many sources and whichever of them were
\* refused, refreshed, parked, accepted or taken out, store and record agree.
THEOREM StoreMatchesRecord == SyncSpec => []StoreAgrees
  <1>1. Basic /\ StoreFollows => StoreAgrees
    <2> SUFFICES ASSUME Basic, StoreFollows, mishaps = 0, Idle, NEW s \in Sources
                 PROVE  /\ state[s].added => store[s] = Holding(state[s].fetched)
                        /\ state[s].pending # Empty => pending[s] = Holding(state[s].pending)
      BY DEF StoreAgrees
    <2>1. OnCourse({})
      <3>1. run.todo = <<>>
        BY DEF Idle, NoRun
      <3> QED BY <3>1, QueueNone DEF StoreFollows
    <2>2. /\ state[s].added => Filled({}, AtStore, s, store[s], state[s].fetched)
          /\ state[s].pending # Empty => Filled({}, AtPending, s, pending[s], state[s].pending)
      BY <2>1 DEF OnCourse, Settles
    <2>3. ASSUME NEW root, NEW d \in Dirs, NEW tree \in Trees, Filled({}, root, s, d, tree)
          PROVE  d = Holding(tree)
      <3>1. d.there /\ \A n \in Names : d.files[n] = tree[n]
        BY <2>3 DEF Filled, Queued, QueuedFor
      <3>2. d.files = tree
        BY <3>1 DEF Dirs, Trees
      <3>3. d = [there |-> d.there, files |-> d.files] /\ d.there \in BOOLEAN
        BY DEF Dirs
      <3>4. d.there = TRUE
        BY <3>1, <3>3
      <3> QED BY <3>2, <3>3, <3>4 DEF Holding
    <2>4. store[s] \in Dirs /\ pending[s] \in Dirs /\ state[s].fetched \in Trees
          /\ state[s].pending \in Trees
      BY DEF Basic, Typed, Docs, Entries
    <2> QED BY <2>2, <2>3, <2>4
  <1> QED BY <1>1, BasicInvariance, FollowsInvariance, PTL


----------------------------------------------------------------------------
(* Review                                                                  *)

\* What a queued change may make of a source under review: its lines show the
\* revision on record, and the record moves only to the revision held, if to any.
UnderReview(c, verb) ==
    /\ c.kind = "rules" /\ state[c.source].review =>
           \A n \in Names : c.tree[n] \in {0, state[c.source].fetched[n]}
    /\ c.kind = "state" /\ verb # "add" =>
           \A s \in Sources : state[s].review =>
               c.doc[s].fetched \in {state[s].fetched, state[s].pending, Empty}

ReviewQueue == mishaps = 0 => \A c \in In(run.todo) : UnderReview(c, run.verb)

\* A plan made where store and record agree brings nothing into a reviewed source,
\* and takes its lines from the store copy on record.
LEMMA PlanReview ==
  ASSUME Typed, Sane(state),
         \A s \in Sources : state[s].added => store[s] = Holding(state[s].fetched),
         NEW doc, NEW fresh, NEW held, NEW heldNow, NEW hook \in BOOLEAN, NEW writes \in BOOLEAN,
         Planned(doc, fresh, held, heldNow), NEW verb,
         NEW c \in PlanChanges(doc, fresh, held, heldNow, hook, writes)
  PROVE  UnderReview(c, verb)
  <1> DEFINE trees == TreesOf(fresh)
             works == Works(doc, held, trees)
             blocks == BlocksOf(doc, held, trees)
  <1>1. \/ c = StateChange(doc, off)
        \/ c.kind \notin {"rules", "state"} \/ RuleWritten(c, blocks) \/ RuleGone(c)
    BY PlanChange DEF Brought, SweptStore, Parked, SweptPending, Swaps, Linked, Unlinked,
       AtStore, AtPending
  <1>2. ASSUME NEW s \in Sources, state[s].review
        PROVE  s \notin fresh /\ store[s] = Holding(state[s].fetched)
    <2>1. store[s] = Holding(state[s].fetched)
      BY <1>2 DEF Sane
    <2> QED BY <1>2, <2>1 DEF Planned, Holding
  <1>3. CASE c = StateChange(doc, off)
    <2>1. ASSUME NEW s \in Sources, state[s].review
          PROVE  doc[s].fetched \in {state[s].fetched, Empty}
      BY <1>2, <2>1 DEF Planned, Added
    <2> QED BY <1>3, <2>1 DEF UnderReview, StateChange
  <1>4. CASE RuleGone(c)
    BY <1>4 DEF RuleGone, UnderReview, Empty
  <1>5. CASE RuleWritten(c, blocks)
    <2>1. DOMAIN blocks = works /\ works \subseteq Sources
      BY DEF Works, Readable, Added, BlocksOf, Blocks
    <2>2. c.kind = "rules" /\ c.source \in works /\ c.tree = blocks[c.source]
      BY <1>5, <2>1 DEF RuleWritten
    <2>3. PICK s \in Sources : s = c.source
      BY <2>1, <2>2
    <2>4. blocks[s] = Selected(doc[s], trees[s])
      BY <2>2, <2>3 DEF BlocksOf, Blocks
    <2>5. ASSUME state[s].review, NEW n \in Names
          PROVE  c.tree[n] \in {0, state[s].fetched[n]}
      <3>1. trees[s] = state[s].fetched
        <4>1. trees[s] = IF s \in fresh THEN Upstream(s) ELSE store[s].files
          BY TreesOfFacts
        <4>2. s \notin fresh /\ store[s] = Holding(state[s].fetched)
          BY <1>2, <2>3, <2>5
        <4> QED BY <4>1, <4>2 DEF Holding
      <3>2. trees[s] \in Trees
        BY TreesOfFacts
      <3>3. Selected(doc[s], trees[s])[n] \in {0, trees[s][n]}
        BY <3>2, SelectedTree
      <3> QED BY <2>2, <2>3, <2>4, <3>1, <3>3
    <2> QED BY <2>2, <2>3, <2>5 DEF UnderReview
  <1>6. CASE c.kind \notin {"rules", "state"}
    BY <1>6 DEF UnderReview
  <1> QED BY <1>1, <1>3, <1>4, <1>5, <1>6

LEMMA StartsReview ==
  ASSUME Typed, Sane(state),
         \A s \in Sources : state[s].added => store[s] = Holding(state[s].fetched),
         NEW t, NEW verb, Starts(t, verb)
  PROVE  \A c \in In(t) : UnderReview(c, verb)
  <1>1. ASSUME NEW doc, NEW fresh, NEW held, NEW heldNow, NEW writes \in BOOLEAN,
               Planned(doc, fresh, held, heldNow),
               In(t) = PlanChanges(doc, fresh, held, heldNow, verb = "hook", writes)
        PROVE  \A c \in In(t) : UnderReview(c, verb)
    <2>1. PICK hook \in BOOLEAN : hook = (verb = "hook")
      OBVIOUS
    <2>2. \A c \in PlanChanges(doc, fresh, held, heldNow, hook, writes) : UnderReview(c, verb)
      BY <1>1, PlanReview
    <2> QED BY <1>1, <2>1, <2>2
  <1>2. ASSUME NEW doc, NEW names, NEW s, NEW tree, NEW lands \in BOOLEAN,
               CommitStarted(t, verb, doc, names, s, tree, lands),
               In(t) = CommitChanges(doc, names, s, tree, lands), NEW c \in In(t)
        PROVE  UnderReview(c, verb)
    <2>1. c = StateChange(doc, names) \/ c.kind \notin {"rules", "state"}
      BY <1>2, CommitChange DEF Swaps, AtStore
    <2>2. CASE c = StateChange(doc, names)
      BY <1>2, <2>2 DEF CommitStarted, UnderReview, StateChange
    <2> QED BY <2>1, <2>2 DEF UnderReview
  <1>3. \/ \E doc, fresh, held, heldNow : \E writes \in BOOLEAN :
              /\ verb # "add" /\ Planned(doc, fresh, held, heldNow)
              /\ verb = "hook" => Added(doc) = Added(state)
              /\ writes \/ doc = state
              /\ In(t) = PlanChanges(doc, fresh, held, heldNow, verb = "hook", writes)
        \/ \E doc, names, s, tree : \E lands \in BOOLEAN :
              /\ verb # "hook" /\ CommitStarted(t, verb, doc, names, s, tree, lands)
              /\ In(t) = CommitChanges(doc, names, s, tree, lands)
    BY StartsIn
  <1> QED BY <1>1, <1>2, <1>3, Zenon

\* A reviewed source's record and rule file move only to a revision a user
\* accepted or added: no sync, update or hook, however the fetches come out and
\* whatever was parked before, installs what is still to be reviewed.
THEOREM ReviewedMovesOnAccept == SyncSpec => ReviewGate
  <1> DEFINE Gated ==
          \A s \in Sources : state[s].review /\ mishaps = 0 =>
              /\ state'[s].fetched \in {state[s].fetched, state[s].pending, Empty}
                     \/ run.verb = "add"
              /\ \A n \in Names : rules'[s][n] \in {0, rules[s][n], state[s].fetched[n]}
  <1>1. SyncInit => ReviewQueue
    <2> SUFFICES ASSUME SyncInit PROVE ReviewQueue
      OBVIOUS
    <2>1. In(run.todo) = {}
      BY QueueNone DEF SyncInit, NoRun
    <2> QED BY <2>1 DEF ReviewQueue
  <1>2. Basic /\ StoreAgrees /\ ReviewQueue /\ [SyncNext]_vars => ReviewQueue'
    <2> SUFFICES ASSUME Basic, StoreAgrees, ReviewQueue, [SyncNext]_vars, mishaps' = 0,
                        NEW d \in In(run'.todo)
                 PROVE  UnderReview(d, run.verb)'
      BY DEF ReviewQueue, In
    <2>1. CASE Begins
      <3>1. /\ Starts(run'.todo, run'.verb) /\ run = NoRun /\ mishaps = 0
            /\ state' = state
        BY <2>1 DEF Begins
      <3>2. \A s \in Sources : state[s].added => store[s] = Holding(state[s].fetched)
        BY <3>1 DEF StoreAgrees, Idle
      <3>3. UnderReview(d, run'.verb)
        BY <3>1, <3>2, StartsReview DEF Basic
      <3> QED BY <3>1, <3>3 DEF UnderReview
    <2>2. CASE Apply
      <3> DEFINE c == Head(run.todo)
      <3>1. /\ Effect(c) /\ In(run.todo) = {c} \union In(run'.todo) /\ mishaps' = mishaps
            /\ \A x \in In(run'.todo) : May(c, x)
            /\ run'.verb = run.verb
        BY <2>2, ApplyEffect
      <3> HIDE DEF c
      <3>2. UnderReview(d, run.verb)
        BY <3>1 DEF ReviewQueue
      <3>3. state' = state
        BY <3>1 DEF May, Effect
      <3> QED BY <3>1, <3>2, <3>3 DEF UnderReview
    <2>3. CASE Closes \/ Drifts
      <3>1. In(run'.todo) = {}
        BY <2>3, QueueNone DEF Closes, Drifts, NoRun
      <3> QED BY <3>1
    <2>4. CASE UNCHANGED vars
      BY <2>4 DEF vars, ReviewQueue, UnderReview, In
    <2> QED BY <2>1, <2>2, <2>3, <2>4, StepKinds
  <1>3. Basic /\ ReviewQueue /\ [SyncNext]_vars => [Gated]_vars
    <2> SUFFICES ASSUME Basic, ReviewQueue, SyncNext, mishaps = 0,
                        NEW s \in Sources, state[s].review
                 PROVE  /\ state'[s].fetched \in {state[s].fetched, state[s].pending, Empty}
                               \/ run.verb = "add"
                        /\ \A n \in Names :
                              rules'[s][n] \in {0, rules[s][n], state[s].fetched[n]}
      OBVIOUS
    <2>1. CASE Apply
      <3> DEFINE c == Head(run.todo)
      <3>1. Sound(c) /\ Effect(c) /\ c \in In(run.todo)
        BY <2>1, ApplyEffect
      <3> HIDE DEF c
      <3>2. UnderReview(c, run.verb)
        BY <3>1 DEF ReviewQueue
      <3>3. rules \in [Sources -> Trees]
        BY DEF Basic, Typed
      <3>4. state'[s].fetched \in {state[s].fetched, state[s].pending, Empty}
                \/ run.verb = "add"
        BY <3>1, <3>2 DEF UnderReview, Effect
      <3>5. rules'[s] = IF c.kind = "rules" /\ c.source = s THEN c.tree ELSE rules[s]
        BY <3>1, <3>3 DEF Effect
      <3> QED BY <3>2, <3>4, <3>5 DEF UnderReview
    <2>2. CASE Begins \/ Closes \/ Drifts
      BY <2>2 DEF Begins, Closes, Drifts
    <2> QED BY <2>1, <2>2, StepKinds
  <1>4. SyncSpec => [][Gated]_vars
    BY <1>1, <1>2, <1>3, BasicInvariance, StoreMatchesRecord, PTL DEF SyncSpec
  <1> QED BY <1>4 DEF ReviewGate

----------------------------------------------------------------------------
(* The cap on a source's lines                                             *)

\* No rule file has more lines than the cap, and none on its way there.
WithinCap ==
    /\ \A s \in Sources : ~OverCap(NamesIn(rules[s]))
    /\ \A c \in In(run.todo) : c.kind = "rules" => ~OverCap(NamesIn(c.tree))

LEMMA EmptyFits == ~OverCap(NamesIn(Empty))
  <1>1. NamesIn(Empty) = {}
    BY DEF NamesIn, Empty
  <1>2. Cardinality({}) = 0
    BY FS_EmptySet
  <1>3. Cap \in Nat
    BY SyncAssumption DEF SyncAssumption
  <1> QED BY <1>1, <1>2, <1>3 DEF OverCap

LEMMA StartsCap ==
  ASSUME NEW t, NEW verb, Starts(t, verb), NEW c \in In(t), c.kind = "rules"
  PROVE  ~OverCap(NamesIn(c.tree))
  <1>1. ASSUME NEW doc, NEW fresh, NEW held, NEW heldNow, NEW writes \in BOOLEAN,
               Planned(doc, fresh, held, heldNow),
               In(t) = PlanChanges(doc, fresh, held, heldNow, verb = "hook", writes)
        PROVE  ~OverCap(NamesIn(c.tree))
    <2> DEFINE works == Works(doc, held, TreesOf(fresh))
               blocks == BlocksOf(doc, held, TreesOf(fresh))
    <2>1. PICK hook \in BOOLEAN : hook = (verb = "hook")
      OBVIOUS
    <2>2. c \in PlanChanges(doc, fresh, held, heldNow, hook, writes)
      BY <1>1, <2>1
    <2>3. RuleWritten(c, blocks) \/ RuleGone(c)
      BY <2>2, PlanChange DEF StateChange, Brought, SweptStore, Parked, SweptPending, Swaps,
         Linked, Unlinked, AtStore, AtPending
    <2>4. CASE RuleWritten(c, blocks)
      <3>1. c.source \in works /\ c.tree = Selected(doc[c.source], TreesOf(fresh)[c.source])
        BY <2>4 DEF RuleWritten, BlocksOf, Blocks, Works
      <3> QED BY <1>1, <3>1 DEF Planned
    <2>5. CASE RuleGone(c)
      BY <2>5, EmptyFits DEF RuleGone
    <2> QED BY <2>3, <2>4, <2>5
  <1>2. ASSUME NEW doc, NEW names, NEW s, NEW tree, NEW lands \in BOOLEAN,
               In(t) = CommitChanges(doc, names, s, tree, lands)
        PROVE  ~OverCap(NamesIn(c.tree))
    BY <1>2, CommitChange DEF StateChange, Swaps, AtStore
  <1>3. \/ \E doc, fresh, held, heldNow : \E writes \in BOOLEAN :
              /\ verb # "add" /\ Planned(doc, fresh, held, heldNow)
              /\ verb = "hook" => Added(doc) = Added(state)
              /\ writes \/ doc = state
              /\ In(t) = PlanChanges(doc, fresh, held, heldNow, verb = "hook", writes)
        \/ \E doc, names, s, tree : \E lands \in BOOLEAN :
              /\ verb # "hook" /\ CommitStarted(t, verb, doc, names, s, tree, lands)
              /\ In(t) = CommitChanges(doc, names, s, tree, lands)
    BY StartsIn
  <1> QED BY <1>1, <1>2, <1>3, Zenon

\* No rule file ever has more lines than the cap, whatever upstreams publish, users
\* switch on again, and crashes leave behind: what is over it is refused whole
\* (planSource), and what is refused keeps the lines it had.
THEOREM LinesWithinCap == SyncSpec => []WithinCap
  <1>1. SyncInit => WithinCap
    <2> SUFFICES ASSUME SyncInit PROVE WithinCap
      OBVIOUS
    <2>1. In(run.todo) = {}
      BY QueueNone DEF SyncInit, NoRun
    <2> QED BY <2>1, EmptyFits DEF WithinCap, SyncInit
  <1>2. Basic /\ WithinCap /\ [SyncNext]_vars => WithinCap'
    <2> SUFFICES ASSUME Basic, WithinCap, [SyncNext]_vars PROVE WithinCap'
      OBVIOUS
    <2> USE DEF OverCap, NamesIn
    <2>1. CASE Begins
      <3>1. \A c \in In(run'.todo) : c.kind = "rules" => ~OverCap(NamesIn(c.tree))
        BY <2>1, StartsCap DEF Begins
      <3>2. \A s \in Sources : ~OverCap(NamesIn(rules'[s]))
        BY <2>1 DEF Begins, WithinCap
      <3> QED BY <3>1, <3>2 DEF WithinCap, In
    <2>2. CASE Apply
      <3> DEFINE c == Head(run.todo)
      <3>1. Effect(c) /\ In(run.todo) = {c} \union In(run'.todo)
        BY <2>2, ApplyEffect
      <3> HIDE DEF c
      <3>2. \A d \in In(run'.todo) : d.kind = "rules" => ~OverCap(NamesIn(d.tree))
        BY <3>1 DEF WithinCap
      <3>3. ASSUME NEW s \in Sources PROVE ~OverCap(NamesIn(rules'[s]))
        <4>1. rules'[s] = rules[s] \/ (c.kind = "rules" /\ rules'[s] = c.tree)
          BY <3>1 DEF Effect, Basic, Typed
        <4> QED BY <3>1, <4>1 DEF WithinCap
      <3> QED BY <3>2, <3>3 DEF WithinCap, In
    <2>3. CASE Closes \/ Drifts
      <3>1. In(run'.todo) = {} /\ rules' = rules
        BY <2>3, QueueNone DEF Closes, Drifts, NoRun
      <3> QED BY <3>1 DEF WithinCap, In
    <2>4. CASE UNCHANGED vars
      <3>1. rules' = rules /\ run' = run
        BY <2>4 DEF vars
      <3>2. In(run'.todo) = In(run.todo)
        BY <3>1
      <3>3. \A c \in In(run'.todo) : c.kind = "rules" => ~OverCap(NamesIn(c.tree))
        BY <3>2 DEF WithinCap
      <3> QED BY <3>1, <3>3 DEF WithinCap, In
    <2> QED BY <2>1, <2>2, <2>3, <2>4, StepKinds
  <1> QED BY <1>1, <1>2, BasicInvariance, PTL DEF SyncSpec

----------------------------------------------------------------------------
(* Lines and records                                                       *)

\* What a tree shows of an entry, with these names switched off.
Shown(names, entry, tree) ==
    [n \in Names |-> IF n \in Owned(entry, tree) \ names THEN tree[n] ELSE 0]

\* What may stay in a rule file that should be empty: anything, after a hook run.
Lagging == IF calm \/ run.verb \in Interactive THEN {} ELSE {Empty}

\* Once the queue is done, the rule file has the lines of the tree.
LinesSettle(q, s, line, tree, lag) ==
    /\ \A c \in q : c.kind = "rules" /\ c.source = s => c.tree = tree
    /\ Queued(q, "rules", s) \/ line = tree \/ tree \in lag

LinesFor(q, doc, names, lines, lag) ==
    \A s \in Sources :
        LET tree == Shown(names, doc[s], doc[s].fetched)
        IN doc[s].added /\ ~OverCap(NamesIn(tree)) => LinesSettle(q, s, lines[s], tree, lag)

\* The queue brings the rule files in line with the state file it ends in.
InLine(q, doc, names, lines, lag) ==
    /\ \A c \in q : c.kind = "state" =>
           c.off = names /\ LinesFor(q, c.doc, names, lines, lag)
    /\ (\A c \in q : c.kind # "state") => LinesFor(q, doc, names, lines, lag)

LinesSettled == mishaps = 0 /\ ~owed => InLine(In(run.todo), state, off, rules, Lagging)

\* No two sources hold the same name, between runs.
Apart ==
    Idle => \A s \in Sources, t \in Sources :
                s # t => Retained(s, state) \intersect Retained(t, state) = {}

LEMMA RuleChange ==
  ASSUME NEW doc, NEW fresh, NEW held, NEW heldNow,
         NEW c \in InstallSet(doc, fresh, held, heldNow, TreesOf(fresh)), c.kind = "rules",
         c.source \in Works(doc, held, TreesOf(fresh))
  PROVE  c.tree = BlocksOf(doc, held, TreesOf(fresh))[c.source]
  <1> DEFINE trees == TreesOf(fresh)
             works == Works(doc, held, trees)
             blocks == BlocksOf(doc, held, trees)
  <1>1. works \subseteq Added(doc) /\ DOMAIN blocks = works
    BY DEF Works, Readable, Added, BlocksOf, Blocks
  <1>2. c \in WrittenSet(blocks) \/ c \in EmptiedRuleSet(blocks) \/ c \in RuleSweepSet(doc)
    <2>1. c \notin AllBodies(works, blocks, fresh, trees)
      <3>1. ASSUME NEW s \in works, c \in BodySet(s, fresh, trees[s], blocks[s])
            PROVE  FALSE
        BY <3>1, SwapChange DEF BodySet, LinkSet, Change, Swaps, AtStore
      <3> QED BY <3>1 DEF AllBodies
    <2>2. c \notin AllParked(heldNow)
      <3>1. ASSUME NEW s \in heldNow, c \in SwapSet(AtPending, pending, s, Upstream(s))
            PROVE  FALSE
        BY <3>1, SwapChange DEF Swaps, AtPending
      <3> QED BY <3>1 DEF AllParked
    <2>3. c \notin UnlinkSet(blocks, doc) /\ c \notin StoreSweepSet(doc)
              /\ c \notin PendingSweepSet(doc)
      BY DEF UnlinkSet, StoreSweepSet, PendingSweepSet, Change
    <2> QED BY <2>1, <2>2, <2>3 DEF InstallSet
  <1>3. CASE c \in WrittenSet(blocks)
    BY <1>3 DEF WrittenSet, RuleFile
  <1>4. CASE c \in EmptiedRuleSet(blocks)
    BY <1>4 DEF EmptiedRuleSet, RuleFile
  <1>5. CASE c \in RuleSweepSet(doc)
    <2>1. c.source \notin Added(doc)
      BY <1>5 DEF RuleSweepSet, RuleFile
    <2> QED BY <1>1, <2>1
  <1> QED BY <1>2, <1>3, <1>4, <1>5

\* A plan redraws the rule file of every source it brings in, where it differs; a
\* hook run leaves one that should be empty.
LEMMA PlanRedraws ==
  ASSUME NEW doc, NEW fresh, NEW held, NEW heldNow, NEW hook \in BOOLEAN, NEW writes \in BOOLEAN,
         NEW s \in Works(doc, held, TreesOf(fresh)), NEW lag, hook => Empty \in lag
  PROVE  LinesSettle(PlanChanges(doc, fresh, held, heldNow, hook, writes), s, rules[s],
                     Selected(doc[s], TreesOf(fresh)[s]), lag)
  <1> DEFINE q == PlanChanges(doc, fresh, held, heldNow, hook, writes)
             blocks == BlocksOf(doc, held, TreesOf(fresh))
             A == InstallSet(doc, fresh, held, heldNow, TreesOf(fresh))
  <1>1. s \in DOMAIN blocks /\ blocks[s] = Selected(doc[s], TreesOf(fresh)[s])
    BY DEF BlocksOf, Blocks
  <1>2. ASSUME NEW c \in q, c.kind = "rules", c.source = s
        PROVE  c.tree = blocks[s]
    <2>1. c \in A
      BY <1>2 DEF PlanChanges, Keepable, StateChange
    <2> HIDE DEF A, blocks
    <2> QED BY <1>2, <2>1, RuleChange DEF A, blocks
  <1>3. ~hook /\ rules[s] # blocks[s] => Queued(q, "rules", s)
    BY <1>1, PlanLines DEF Queued
  <1>4. ASSUME blocks[s] # Empty, rules[s] # blocks[s]
        PROVE  Queued(q, "rules", s)
    <2> DEFINE c == RuleFile("destination", s, blocks[s])
    <2>1. c \in WrittenSet(blocks)
      BY <1>1, <1>4 DEF WrittenSet
    <2>2. c \in A
      BY <2>1 DEF InstallSet
    <2>3. c.kind = "rules" /\ c.source = s /\ c.category = "destination"
      BY DEF RuleFile
    <2> HIDE DEF c, A
    <2>4. c \in q
      BY <2>2, <2>3 DEF PlanChanges, Keepable, A
    <2> QED BY <2>3, <2>4 DEF Queued
  <1> HIDE DEF q, blocks
  <1> QED BY <1>1, <1>2, <1>3, <1>4 DEF LinesSettle, q

\* Where no two sources hold the same name, what is held back is over the cap.
LEMMA HeldOverCap ==
  ASSUME Apart, Idle, NEW doc, NEW s \in Sources, doc[s].added,
         Added(doc) \subseteq Added(state), WasRefused(s, doc),
         doc[s].select \subseteq state[s].select, store[s].files # Empty => store[s].there
  PROVE  OverCap(NamesIn(Shown(off, doc[s], store[s].files)))
  <1>1. PICK last : /\ last[s].select = doc[s].select /\ Added(last) = Added(doc)
                    /\ Stood(s, last, state)
    BY DEF WasRefused
  <1> DEFINE tree == store[s].files
             lines == NamesIn(Selected(last[s], tree))
  <1>2. InstalledTree(s) = tree
    BY DEF InstalledTree
  <1>3. Selected(last[s], tree) = Shown(off, doc[s], tree)
    BY <1>1 DEF Selected, Shown, Owned
  <1>4. ASSUME NEW n \in lines, NEW works, NEW trees
        PROVE  OwnsName(s, n, works, trees, last, state)
    <2>1. n \in Owned(last[s], tree)
      BY <1>4 DEF NamesIn, Selected
    <2>2. n \in Retained(s, state)
      <3>1. n \in Owned(state[s], tree)
        BY <1>1, <2>1 DEF Owned
      <3>2. tree # Empty
        BY <2>1 DEF Owned, NamesIn, Empty
      <3>3. SelectedNames(s, state) = Owned(state[s], tree)
        BY <3>2 DEF SelectedNames
      <3> QED BY <3>1, <3>3 DEF Retained
    <2>3. \A t \in Sources : n \in Retained(t, state) => t = s
      BY <2>2 DEF Apart
    <2>4. s \in Added(last)
      BY <1>1 DEF Added
    <2>5. Holders(n, last, state) = {s}
      BY <2>2, <2>3, <2>4 DEF Holders, Added
    <2>6. s \in Nat
      BY SyncAssumption DEF SyncAssumption
    <2> QED BY <2>5, <2>6 DEF OwnsName
  <1>5. ~\E works \in SUBSET Added(last) : \E trees :
            Collides(s, lines, works, trees, last, state)
    BY <1>4 DEF Collides
  <1>6. OverCap(lines)
    BY <1>1, <1>2, <1>5 DEF Stood
  <1> QED BY <1>3, <1>6

LEMMA PlanInLine ==
  ASSUME Typed, Sane(state), Apart, Idle,
         \A s \in Sources : state[s].added => store[s] = Holding(state[s].fetched),
         NEW doc, NEW fresh, NEW held, NEW heldNow, NEW hook \in BOOLEAN, NEW writes \in BOOLEAN,
         Planned(doc, fresh, held, heldNow), writes \/ doc = state, NEW lag, hook => Empty \in lag
  PROVE  InLine(PlanChanges(doc, fresh, held, heldNow, hook, writes), state, off, rules, lag)
  <1> DEFINE q == PlanChanges(doc, fresh, held, heldNow, hook, writes)
  <1>1. LinesFor(q, doc, off, rules, lag)
    <2> SUFFICES ASSUME NEW s \in Sources, doc[s].added,
                        ~OverCap(NamesIn(Shown(off, doc[s], doc[s].fetched)))
                 PROVE  LinesSettle(q, s, rules[s], Shown(off, doc[s], doc[s].fetched), lag)
      BY DEF LinesFor
    <2>1. s \in Added(doc) /\ state[s].added
      BY DEF Added, Planned
    <2>2. TreesOf(fresh)[s] = doc[s].fetched
      <3>1. TreesOf(fresh)[s] = IF s \in fresh THEN Upstream(s) ELSE store[s].files
        BY TreesOfFacts
      <3>2. doc[s].fetched = IF s \in fresh THEN Upstream(s) ELSE state[s].fetched
        BY <2>1 DEF Planned
      <3>3. store[s] = Holding(state[s].fetched)
        BY <2>1
      <3>4. store[s].files = state[s].fetched
        BY <3>3 DEF Holding
      <3> QED BY <3>1, <3>2, <3>4
    <2>3. s \notin held
      <3> SUFFICES ASSUME s \in held PROVE FALSE
        OBVIOUS
      <3>1. s \notin fresh /\ WasRefused(s, doc) /\ doc[s].select \subseteq state[s].select
            /\ Added(doc) \subseteq Added(state)
        BY <2>1 DEF Planned
      <3>2. doc[s].fetched = state[s].fetched /\ store[s] = Holding(state[s].fetched)
        BY <2>1, <3>1 DEF Planned
      <3>3. store[s].there /\ store[s].files = doc[s].fetched
        BY <3>2 DEF Holding
      <3> QED BY <3>1, <3>3, HeldOverCap
    <2>4. doc[s].fetched # Empty
      BY DEF Planned, Sane
    <2>5. s \in Works(doc, held, TreesOf(fresh))
      BY <2>1, <2>2, <2>3, <2>4 DEF Works, Readable
    <2>6. LinesSettle(q, s, rules[s], Selected(doc[s], TreesOf(fresh)[s]), lag)
      BY <2>5, PlanRedraws
    <2> QED BY <2>2, <2>6 DEF Selected, Shown
  <1>2. ASSUME NEW c \in q, c.kind = "state"
        PROVE  c = StateChange(doc, off)
    BY <1>2, PlanChange DEF Brought, SweptStore, Parked, SweptPending, Swaps, Linked, Unlinked,
       RuleWritten, RuleGone, AtStore, AtPending
  <1>3. (\A c \in q : c.kind # "state") => doc = state
    <2>1. writes => StateChange(doc, off) \in q
      BY DEF PlanChanges
    <2>2. StateChange(doc, off).kind = "state"
      BY DEF StateChange
    <2> HIDE DEF q
    <2> QED BY <2>1, <2>2
  <1> HIDE DEF q
  <1>4. \A c \in q : c.kind = "state" => c.off = off /\ c.doc = doc
    BY <1>2 DEF StateChange
  <1>5. InLine(q, state, off, rules, lag)
    BY <1>1, <1>3, <1>4 DEF InLine
  <1> QED BY <1>5 DEF q

LEMMA StartsInLine ==
  ASSUME Typed, Sane(state), Apart, Idle,
         \A s \in Sources : state[s].added => store[s] = Holding(state[s].fetched),
         NEW t, NEW verb, PlanStarts(t, verb), NEW lag, verb = "hook" => Empty \in lag
  PROVE  InLine(In(t), state, off, rules, lag)
  <1>1. PICK doc, fresh, held, heldNow : \E writes \in BOOLEAN :
           PlanStarted(t, doc, fresh, held, heldNow, verb = "hook", writes)
    BY DEF PlanStarts
  <1>2. PICK writes \in BOOLEAN :
           PlanStarted(t, doc, fresh, held, heldNow, verb = "hook", writes)
    BY <1>1
  <1>3. PICK hook \in BOOLEAN : hook = (verb = "hook")
    OBVIOUS
  <1>4. /\ Planned(doc, fresh, held, heldNow) /\ (writes \/ doc = state)
        /\ Placed(t, PlanChanges(doc, fresh, held, heldNow, hook, writes))
    BY <1>2, <1>3 DEF PlanStarted, PlanChanges
  <1>5. In(t) = PlanChanges(doc, fresh, held, heldNow, hook, writes)
    BY <1>4, PlacedIn
  <1>6. hook => Empty \in lag
    BY <1>3
  <1>7. InLine(PlanChanges(doc, fresh, held, heldNow, hook, writes), state, off, rules, lag)
    BY <1>4, <1>6, PlanInLine
  <1> QED BY <1>5, <1>7

LEMMA DoneLine ==
  ASSUME NEW c, NEW q, NEW s, NEW line, NEW tree, NEW lag,
         LinesSettle({c} \union q, s, line, tree, lag)
  PROVE  LinesSettle(q, s, IF c.kind = "rules" /\ c.source = s THEN c.tree ELSE line, tree, lag)
  BY DEF LinesSettle, Queued

LEMMA ApplyInLine ==
  ASSUME Basic, Apply, NEW lag, InLine(In(run.todo), state, off, rules, lag)
  PROVE  InLine(In(run'.todo), state', off', rules', lag)
  <1> DEFINE c == Head(run.todo)
             q == In(run.todo)
             r == In(run'.todo)
  <1>1. Effect(c) /\ q = {c} \union r /\ \A d \in r : May(c, d)
    BY ApplyEffect
  <1>2. InLine(q, state, off, rules, lag)
    OBVIOUS
  <1> HIDE DEF c, q, r
  <1>3. ASSUME NEW s \in Sources
        PROVE  rules'[s] = IF c.kind = "rules" /\ c.source = s THEN c.tree ELSE rules[s]
    BY <1>1 DEF Effect, Basic, Typed
  <1>4. \A doc, names : LinesFor(q, doc, names, rules, lag) => LinesFor(r, doc, names, rules', lag)
    <2> SUFFICES ASSUME NEW doc, NEW names, LinesFor({c} \union r, doc, names, rules, lag),
                        NEW s \in Sources, doc[s].added,
                        ~OverCap(NamesIn(Shown(names, doc[s], doc[s].fetched)))
                 PROVE  LinesSettle(r, s, rules'[s], Shown(names, doc[s], doc[s].fetched), lag)
      BY <1>1 DEF LinesFor
    <2>1. LinesSettle({c} \union r, s, rules[s], Shown(names, doc[s], doc[s].fetched), lag)
      BY DEF LinesFor
    <2>2. LinesSettle(r, s, IF c.kind = "rules" /\ c.source = s THEN c.tree ELSE rules[s],
                      Shown(names, doc[s], doc[s].fetched), lag)
      BY <2>1, DoneLine
    <2> QED BY <1>3, <2>2
  <1>5. CASE c.kind = "state"
    <2>1. r = {}
      BY <1>1, <1>5 DEF May
    <2>2. state' = c.doc /\ off' = c.off
      BY <1>1, <1>5 DEF Effect
    <2>3. c.off = off /\ LinesFor(q, c.doc, off, rules, lag)
      BY <1>1, <1>2, <1>5 DEF InLine
    <2>4. LinesFor(r, state', off', rules', lag)
      BY <1>4, <2>2, <2>3
    <2> QED BY <2>1, <2>4 DEF InLine, r
  <1>6. CASE c.kind # "state"
    <2>1. state' = state /\ off' = off
      BY <1>1, <1>6 DEF Effect
    <2>2. \A d \in r : d.kind = "state" => d.off = off /\ LinesFor(r, d.doc, off, rules', lag)
      BY <1>1, <1>2, <1>4 DEF InLine
    <2>3. (\A d \in r : d.kind # "state") => LinesFor(r, state, off, rules', lag)
      BY <1>1, <1>2, <1>4, <1>6 DEF InLine
    <2>4. InLine(r, state', off', rules', lag)
      BY <2>1, <2>2, <2>3 DEF InLine
    <2> QED BY <2>4 DEF r
  <1> QED BY <1>5, <1>6

LEMMA SettledInvariance == SyncSpec /\ []Apart => []LinesSettled
  <1>1. SyncInit => LinesSettled
    <2> SUFFICES ASSUME SyncInit PROVE InLine(In(run.todo), state, off, rules, Lagging)
      BY DEF LinesSettled
    <2>1. In(run.todo) = {}
      BY QueueNone DEF SyncInit, NoRun
    <2>2. LinesFor(In(run.todo), state, off, rules, Lagging)
      BY DEF SyncInit, NoEntry, LinesFor
    <2> QED BY <2>1, <2>2 DEF InLine
  <1>2. Basic /\ StoreAgrees /\ Apart /\ LinesSettled /\ [SyncNext]_vars => LinesSettled'
    <2> SUFFICES ASSUME Basic, StoreAgrees, Apart, LinesSettled, [SyncNext]_vars,
                        mishaps' = 0, ~owed'
                 PROVE  InLine(In(run'.todo), state', off', rules', Lagging')
      BY DEF LinesSettled, In
    <2>1. CASE Begins
      <3>1. /\ run = NoRun /\ PlanStarts(run'.todo, run'.verb) /\ mishaps = 0 /\ calm' = FALSE
            /\ UNCHANGED <<state, off, rules>>
        BY <2>1 DEF Begins
      <3>2. Idle /\ \A s \in Sources : state[s].added => store[s] = Holding(state[s].fetched)
        BY <3>1 DEF StoreAgrees, Idle
      <3>3. run'.verb = "hook" => Empty \in Lagging'
        BY <3>1 DEF Lagging, Interactive
      <3>4. InLine(In(run'.todo), state, off, rules, Lagging')
        BY <3>1, <3>2, <3>3, StartsInLine DEF Basic
      <3> QED BY <3>1, <3>4
    <2>2. CASE Apply
      <3>1. /\ run'.verb = run.verb /\ UNCHANGED <<owed, calm, mishaps>>
        BY <2>2, ApplyEffect
      <3>2. Lagging' = Lagging
        BY <3>1 DEF Lagging
      <3>3. InLine(In(run.todo), state, off, rules, Lagging)
        BY <3>1 DEF LinesSettled
      <3> QED BY <2>2, <3>2, <3>3, ApplyInLine
    <2>3. CASE Closes \/ Drifts
      <3>1. /\ run.todo = <<>> /\ run'.todo = <<>> /\ mishaps = 0 /\ ~owed
            /\ off' = off /\ rules' = rules
            /\ \A s \in Sources :
                  /\ state'[s].added = state[s].added /\ state'[s].fetched = state[s].fetched
                  /\ state'[s].select = state[s].select
        BY <2>3 DEF Closes, Drifts, NoRun, Basic
      <3>2. Lagging \subseteq Lagging'
        <4>1. run'.verb \notin Interactive
          BY <2>3 DEF Closes, Drifts, NoRun, Interactive
        <4>2. calm' => run.verb \in Interactive
          <5>1. mishaps' # mishaps + 1
            BY <3>1
          <5>2. CASE Closes
            <6>1. calm' = (run.verb \in Interactive)
              BY <5>1, <5>2 DEF Closes
            <6> QED BY <6>1
          <5>3. CASE Drifts
            BY <5>3 DEF Drifts
          <5> QED BY <2>3, <5>2, <5>3
        <4> QED BY <4>1, <4>2 DEF Lagging
      <3>3. In(run.todo) = {} /\ In(run'.todo) = {}
        BY <3>1, QueueNone
      <3>4. LinesFor({}, state, off, rules, Lagging)
        BY <3>1, <3>3 DEF LinesSettled, InLine
      <3>5. \A s \in Sources : Shown(off, state'[s], state'[s].fetched) =
                                   Shown(off, state[s], state[s].fetched)
        BY <3>1 DEF Shown, Owned
      <3>6. LinesFor({}, state', off', rules', Lagging')
        BY <3>1, <3>2, <3>4, <3>5 DEF LinesFor, LinesSettle, Queued
      <3> QED BY <3>3, <3>6 DEF InLine
    <2>4. CASE UNCHANGED vars
      <3>1. UNCHANGED <<state, off, rules, run, calm, owed, mishaps>>
        BY <2>4 DEF vars
      <3>2. Lagging' = Lagging
        BY <3>1 DEF Lagging
      <3> QED BY <3>1, <3>2 DEF LinesSettled
    <2> QED BY <2>1, <2>2, <2>3, <2>4, StepKinds
  <1> QED BY <1>1, <1>2, BasicInvariance, StoreMatchesRecord, PTL DEF SyncSpec

\* As long as no two sources come to hold the same name, the record, the store copy
\* and the rule file of every source agree between commands, and a held revision is
\* parked whole, however many sources there are and whatever is published, reviewed,
\* selected or switched off.  Two that share a name may disagree until one is gone:
\* the one refused keeps its lines (planSource).
THEOREM ApartAgree == SyncSpec /\ []Apart => []Agreement
  <1>1. Basic /\ StoreAgrees /\ LinesSettled => Agreement
    <2> SUFFICES ASSUME Basic, StoreAgrees, LinesSettled, mishaps = 0, Idle, ~owed,
                        NEW s \in Added(state)
                 PROVE  /\ store[s] = Holding(state[s].fetched)
                        /\ Fits(state[s], state[s].fetched) =>
                               \/ rules[s] = Selected(state[s], state[s].fetched)
                               \/ ~calm /\ Selected(state[s], state[s].fetched) = Empty
                        /\ state[s].pending # Empty => pending[s] = Holding(state[s].pending)
      BY DEF Agreement
    <2>1. s \in Sources /\ state[s].added
      BY DEF Added
    <2>2. In(run.todo) = {}
      BY QueueNone DEF Idle, NoRun
    <2>3. LinesFor({}, state, off, rules, Lagging)
      BY <2>2 DEF LinesSettled, InLine
    <2>4. Shown(off, state[s], state[s].fetched) = Selected(state[s], state[s].fetched)
      BY DEF Shown, Selected
    <2>5. ASSUME Fits(state[s], state[s].fetched)
          PROVE  \/ rules[s] = Selected(state[s], state[s].fetched)
                 \/ ~calm /\ Selected(state[s], state[s].fetched) = Empty
      <3>1. LinesSettle({}, s, rules[s], Selected(state[s], state[s].fetched), Lagging)
        BY <2>1, <2>3, <2>4, <2>5 DEF LinesFor, Fits
      <3> QED BY <3>1 DEF LinesSettle, Queued, Lagging
    <2> QED BY <2>1, <2>5 DEF StoreAgrees
  <1> QED BY <1>1, BasicInvariance, StoreMatchesRecord, SettledInvariance, PTL

\* With one source nothing is left to assume.
THEOREM LoneSourceAgrees ==
  ASSUME NEW k, Sources = {k}
  PROVE  SyncSpec => []Agreement
  <1>1. Apart
    BY DEF Apart
  <1> QED BY <1>1, ApartAgree, PTL

----------------------------------------------------------------------------
(* What a run leaves for the next                                          *)

\* A store copy has files only where it is there, and a queue writes into none that
\* it has not made: also after crashes.
StoreFormed ==
    \A s \in Sources :
        /\ Formed(In(run.todo), AtStore, s, store[s])
        /\ store[s].files # Empty => store[s].there

LEMMA StartsFormed ==
  ASSUME \A s \in Sources : store[s].files # Empty => store[s].there,
         NEW t, NEW verb, Starts(t, verb), NEW s \in Sources
  PROVE  Formed(In(t), AtStore, s, store[s])
  <1>0. /\ KindsOf(AtStore) = {"delete-store", "mkdir-store", "write-store"}
        /\ AtStore.write = "write-store" /\ AtStore \in {AtStore, AtPending}
    BY DEF KindsOf, AtStore
  <1>1. ASSUME NEW r \in Sources, NEW tree, SwapSet(AtStore, store, r, tree) \subseteq In(t),
               \A c \in In(t) : c.kind \in KindsOf(AtStore) /\ c.source = s =>
                   r = s /\ Swaps(c, AtStore, s, tree)
        PROVE  Formed(In(t), AtStore, s, store[s])
    <2>1. CASE r = s
      BY <1>0, <1>1, <2>1, SwapFills
    <2>2. CASE r # s
      <3>1. \A c \in In(t) : ~(c.kind = AtStore.write /\ c.source = s)
        BY <1>0, <1>1, <2>2
      <3> QED BY <3>1, LeftFormed
    <2> QED BY <2>1, <2>2
  <1>2. ASSUME NEW doc, NEW fresh, NEW held, NEW heldNow, NEW hook \in BOOLEAN,
               NEW writes \in BOOLEAN, Planned(doc, fresh, held, heldNow),
               In(t) = PlanChanges(doc, fresh, held, heldNow, hook, writes)
        PROVE  Formed(In(t), AtStore, s, store[s])
    <2>1. ASSUME NEW c \in In(t), c.kind \in KindsOf(AtStore), c.source = s
          PROVE  \/ s \in fresh /\ Swaps(c, AtStore, s, Upstream(s))
                 \/ s \notin fresh /\ c.kind = "delete-store"
      <3>1. fresh \subseteq Added(doc)
        BY <1>2 DEF Planned
      <3> QED BY <1>0, <1>2, <2>1, <3>1, PlanChange DEF StateChange, Brought, SweptStore, Parked,
                 SweptPending, Swaps, Linked, Unlinked, RuleWritten, RuleGone, AtPending
    <2>2. CASE s \in fresh
      <3>1. SwapSet(AtStore, store, s, Upstream(s)) \subseteq In(t)
        BY <1>2, <2>2, PlanSwaps
      <3> QED BY <1>1, <2>1, <2>2, <3>1
    <2>3. CASE s \notin fresh
      <3>1. \A c \in In(t) : ~(c.kind = AtStore.write /\ c.source = s)
        BY <1>0, <2>1, <2>3
      <3> QED BY <3>1, LeftFormed
    <2> QED BY <2>2, <2>3
  <1>3. ASSUME NEW doc, NEW names, NEW r, NEW tree, NEW lands \in BOOLEAN,
               CommitStarted(t, verb, doc, names, r, tree, lands),
               In(t) = CommitChanges(doc, names, r, tree, lands)
        PROVE  Formed(In(t), AtStore, s, store[s])
    <2>1. \A c \in In(t) : c.kind \in KindsOf(AtStore) => lands /\ Swaps(c, AtStore, r, tree)
      BY <1>0, <1>3, CommitChange DEF StateChange
    <2>2. \A c \in In(t) : Swaps(c, AtStore, r, tree) => c.source = r
      BY DEF Swaps
    <2>3. CASE lands
      <3>1. SwapSet(AtStore, store, r, tree) \subseteq In(t) /\ r \in Sources
        BY <1>3, <2>3 DEF CommitChanges, CommitStarted
      <3> QED BY <1>1, <2>1, <2>2, <3>1
    <2>4. CASE ~lands
      <3>1. \A c \in In(t) : ~(c.kind = AtStore.write /\ c.source = s)
        BY <1>0, <2>1, <2>4
      <3> QED BY <3>1, LeftFormed
    <2> QED BY <2>3, <2>4
  <1>4. \/ \E doc, fresh, held, heldNow : \E writes \in BOOLEAN :
              /\ verb # "add" /\ Planned(doc, fresh, held, heldNow)
              /\ verb = "hook" => Added(doc) = Added(state)
              /\ writes \/ doc = state
              /\ In(t) = PlanChanges(doc, fresh, held, heldNow, verb = "hook", writes)
        \/ \E doc, names, r, tree : \E lands \in BOOLEAN :
              /\ verb # "hook" /\ CommitStarted(t, verb, doc, names, r, tree, lands)
              /\ In(t) = CommitChanges(doc, names, r, tree, lands)
    BY StartsIn
  <1>5. PICK hook \in BOOLEAN : hook = (verb = "hook")
    OBVIOUS
  <1> QED BY <1>2, <1>3, <1>4, <1>5, Zenon

LEMMA FormedInvariance == SyncSpec => []StoreFormed
  <1>1. SyncInit => StoreFormed
    <2> SUFFICES ASSUME SyncInit PROVE StoreFormed
      OBVIOUS
    <2>1. In(run.todo) = {}
      BY QueueNone DEF SyncInit, NoRun
    <2> QED BY <2>1 DEF SyncInit, StoreFormed, Formed, Queued, Gone
  <1>2. Basic /\ StoreFormed /\ [SyncNext]_vars => StoreFormed'
    <2> SUFFICES ASSUME Basic, StoreFormed, [SyncNext]_vars, NEW s \in Sources
                 PROVE  /\ Formed(In(run'.todo), AtStore, s, store'[s])
                        /\ store'[s].files # Empty => store'[s].there
      BY DEF StoreFormed, In
    <2>1. CASE Begins
      <3>1. Starts(run'.todo, run'.verb) /\ store' = store
        BY <2>1 DEF Begins
      <3>2. \A r \in Sources : store[r].files # Empty => store[r].there
        BY DEF StoreFormed
      <3> QED BY <3>1, <3>2, StartsFormed
    <2>2. CASE Apply
      <3> DEFINE c == Head(run.todo)
                 r == In(run'.todo)
      <3>1. /\ Sound(c) /\ Effect(c) /\ In(run.todo) = {c} \union r /\ \A d \in r : May(c, d)
        BY <2>2, ApplyEffect
      <3> HIDE DEF c, r
      <3>2. AtStore \in {AtStore, AtPending} /\ store[s] \in Dirs
        BY DEF Basic, Typed
      <3>3. store'[s] = IF c.kind \in KindsOf(AtStore) /\ c.source = s
                        THEN DirStep(AtStore, c, store[s]) ELSE store[s]
        BY <3>1 DEF Effect, Basic, Typed
      <3>4. Formed({c} \union r, AtStore, s, store[s])
        BY <3>1 DEF StoreFormed
      <3>5. Formed(r, AtStore, s, store'[s])
        BY <3>1, <3>2, <3>3, <3>4, DirFilled
      <3>6. store'[s].files # Empty => store'[s].there
        <4>1. store[s].files # Empty => store[s].there
          BY DEF StoreFormed
        <4>2. CASE c.kind = "write-store" /\ c.source = s
          <5>1. ~Queued({c} \union r, "mkdir-store", s)
            BY <3>1, <4>2 DEF Queued, May
          <5>2. Queued({c} \union r, "write-store", s)
            BY <4>2 DEF Queued
          <5>3. store[s].there
            BY <3>4, <5>1, <5>2 DEF Formed, AtStore
          <5> QED BY <3>2, <3>3, <4>2, <5>3 DEF KindsOf, AtStore, DirStep, Dirs
        <4>3. CASE c.kind = "mkdir-store" /\ c.source = s
          BY <3>2, <3>3, <4>3 DEF KindsOf, AtStore, DirStep, Dirs
        <4>4. CASE c.kind = "delete-store" /\ c.source = s
          BY <3>3, <4>4 DEF KindsOf, AtStore, DirStep, Gone
        <4>5. CASE ~(c.kind \in KindsOf(AtStore) /\ c.source = s)
          BY <3>3, <4>1, <4>5
        <4> QED BY <4>2, <4>3, <4>4, <4>5 DEF KindsOf, AtStore
      <3> QED BY <3>5, <3>6 DEF r
    <2>3. CASE Closes \/ Drifts
      <3>1. /\ run'.todo = <<>> /\ store'[s] \in {store[s], Gone}
        BY <2>3 DEF Closes, Drifts, NoRun
      <3>2. store'[s].files # Empty => store'[s].there
        BY <3>1 DEF StoreFormed, Gone
      <3> QED BY <3>1, <3>2, QueueNone DEF Formed, Queued
    <2>4. CASE UNCHANGED vars
      BY <2>4 DEF vars, StoreFormed
    <2> QED BY <2>1, <2>2, <2>3, <2>4, StepKinds
  <1> QED BY <1>1, <1>2, BasicInvariance, PTL DEF SyncSpec

----------------------------------------------------------------------------
(* Nothing left to do                                                      *)

\* The rule file of each source with a tree to show, within the cap.
LinesBy(names, doc, files) ==
    LET fits == {s \in Added(doc) :
                    files[s] # Empty /\ ~OverCap(NamesIn(Shown(names, doc[s], files[s])))}
    IN [s \in fits |-> Shown(names, doc[s], files[s])]

\* What a queue leaves of a disk that was like this: the state file doc, the store
\* copies files and the rule files lines, of installed sources and no others, the
\* holds on record, and links for those lines and no others.
StateEnds(q, doc, recorded, names) ==
    /\ \A c \in q : c.kind = "state" => c.doc = doc /\ c.off = names
    /\ (\A c \in q : c.kind # "state") => recorded = doc

CopiesEnd(q, doc, files, copies) ==
    \A s \in Added(doc) :
        \/ Filled(q, AtStore, s, copies[s], files[s])
        \/ /\ copies[s].files = files[s]
           /\ \A c \in q : ~(c.kind \in KindsOf(AtStore) /\ c.source = s)

LinesEnd(q, lines, drawn) ==
    \A s \in DOMAIN lines : LinesSettle(q, s, drawn[s], lines[s], {})

SweptEnd(q, doc, drawn, copies) ==
    \A s \in Sources \ Added(doc) :
        /\ LinesSettle(q, s, drawn[s], Empty, {})
        /\ ~Queued(q, "mkdir-store", s)
        /\ copies[s].there => Queued(q, "delete-store", s)

HoldsEnd(q, doc, parked) ==
    \A s \in Sources : doc[s].pending = Empty =>
        /\ ~Queued(q, "mkdir-pending", s)
        /\ parked[s].there => Queued(q, "delete-pending", s)

LinksEnd(q, lines, links) ==
    /\ \A c \in q :
          /\ c.kind = "link" => c.source \in DOMAIN lines /\ c.name \in NamesIn(lines[c.source])
          /\ c.kind = "unlink" => c.name \notin Wanted(lines)
    /\ \A n \in Wanted(lines) :
          \/ \E c \in q : c.kind = "link" /\ c.name = n
          \/ links[n] \in DOMAIN lines /\ n \in NamesIn(lines[links[n]])

UnlinksEnd(q, doc, lines, links) ==
    DOMAIN lines = Added(doc) => \A n \in Names \ Wanted(lines) :
        links[n] = 0 \/ \E c \in q : c.kind = "unlink" /\ c.name = n

Ending(q, doc, files, lines) ==
    /\ files \in [Sources -> Trees] /\ lines = LinesBy(off, doc, files)
    /\ StateEnds(q, doc, state, off)
    /\ CopiesEnd(q, doc, files, store)
    /\ LinesEnd(q, lines, rules)
    /\ SweptEnd(q, doc, rules, store)
    /\ HoldsEnd(q, doc, pending)
    /\ LinksEnd(q, lines, bodies)
    /\ UnlinksEnd(q, doc, lines, bodies)

\* An interactive run is on its way there, and where all is calm it has come there.
Calming ==
    /\ calm => run = NoRun
    /\ calm \/ run.verb \in Interactive =>
           \E doc, files, lines : Ending(In(run.todo), doc, files, lines)

LEMMA DoneState ==
  ASSUME NEW c, NEW r, \A d \in r : May(c, d), NEW doc, NEW recorded, NEW names,
         StateEnds({c} \union r, doc, recorded, names)
  PROVE  /\ StateEnds(r, doc, IF c.kind = "state" THEN c.doc ELSE recorded, names)
         /\ (IF c.kind = "state" THEN c.off ELSE names) = names
  BY DEF StateEnds

LEMMA DoneCopies ==
  ASSUME NEW c, NEW r, \A d \in r : May(c, d), Sound(c), NEW doc, NEW files,
         NEW copies \in [Sources -> Dirs], NEW after,
         \A s \in Sources : after[s] = IF c.kind \in KindsOf(AtStore) /\ c.source = s
                                       THEN DirStep(AtStore, c, copies[s]) ELSE copies[s],
         \A s \in Sources : Formed({c} \union r, AtStore, s, copies[s]),
         CopiesEnd({c} \union r, doc, files, copies)
  PROVE  CopiesEnd(r, doc, files, after)
  <1> SUFFICES ASSUME NEW s \in Added(doc)
               PROVE  \/ Filled(r, AtStore, s, after[s], files[s])
                      \/ /\ after[s].files = files[s]
                         /\ \A d \in r : ~(d.kind \in KindsOf(AtStore) /\ d.source = s)
    BY DEF CopiesEnd
  <1>1. s \in Sources /\ copies[s] \in Dirs /\ AtStore \in {AtStore, AtPending}
    BY DEF Added
  <1>2. after[s] = IF c.kind \in KindsOf(AtStore) /\ c.source = s
                   THEN DirStep(AtStore, c, copies[s]) ELSE copies[s]
    BY <1>1
  <1>3. CASE Filled({c} \union r, AtStore, s, copies[s], files[s])
    BY <1>1, <1>2, <1>3, DirFilled
  <1>4. CASE /\ copies[s].files = files[s]
             /\ \A d \in {c} \union r : ~(d.kind \in KindsOf(AtStore) /\ d.source = s)
    BY <1>2, <1>4
  <1> QED BY <1>3, <1>4 DEF CopiesEnd

LEMMA DoneLines ==
  ASSUME NEW c, NEW r, NEW lines, DOMAIN lines \subseteq Sources, NEW drawn, NEW after,
         \A s \in Sources : after[s] = IF c.kind = "rules" /\ c.source = s
                                       THEN c.tree ELSE drawn[s],
         LinesEnd({c} \union r, lines, drawn)
  PROVE  LinesEnd(r, lines, after)
  <1> SUFFICES ASSUME NEW s \in DOMAIN lines
               PROVE  LinesSettle(r, s, after[s], lines[s], {})
    BY DEF LinesEnd
  <1>1. LinesSettle({c} \union r, s, drawn[s], lines[s], {})
    BY DEF LinesEnd
  <1>2. s \in Sources
    OBVIOUS
  <1> QED BY <1>1, <1>2, DoneLine

LEMMA DoneSwept ==
  ASSUME NEW c, NEW r, NEW doc, NEW drawn, NEW copies \in [Sources -> Dirs], NEW after, NEW left,
         \A s \in Sources : after[s] = IF c.kind = "rules" /\ c.source = s
                                       THEN c.tree ELSE drawn[s],
         \A s \in Sources : left[s] = IF c.kind \in KindsOf(AtStore) /\ c.source = s
                                      THEN DirStep(AtStore, c, copies[s]) ELSE copies[s],
         SweptEnd({c} \union r, doc, drawn, copies)
  PROVE  SweptEnd(r, doc, after, left)
  <1> SUFFICES ASSUME NEW s \in Sources \ Added(doc)
               PROVE  /\ LinesSettle(r, s, after[s], Empty, {})
                      /\ ~Queued(r, "mkdir-store", s)
                      /\ left[s].there => Queued(r, "delete-store", s)
    BY DEF SweptEnd
  <1>1. /\ LinesSettle({c} \union r, s, drawn[s], Empty, {})
        /\ ~Queued({c} \union r, "mkdir-store", s)
        /\ copies[s].there => Queued({c} \union r, "delete-store", s)
    BY DEF SweptEnd
  <1>2. LinesSettle(r, s, after[s], Empty, {})
    BY <1>1, DoneLine
  <1>3. ~Queued(r, "mkdir-store", s) /\ ~(c.kind = "mkdir-store" /\ c.source = s)
    BY <1>1 DEF Queued
  <1>4. left[s].there => Queued(r, "delete-store", s)
    <2>1. CASE c.kind = "delete-store" /\ c.source = s
      BY <2>1 DEF DirStep, AtStore, KindsOf, Gone
    <2>2. CASE ~(c.kind = "delete-store" /\ c.source = s)
      <3>1. left[s].there = copies[s].there
        BY <1>3, <2>2 DEF DirStep, AtStore, KindsOf, Dirs
      <3> QED BY <1>1, <2>2, <3>1 DEF Queued
    <2> QED BY <2>1, <2>2
  <1> QED BY <1>2, <1>3, <1>4

LEMMA DoneHolds ==
  ASSUME NEW c, NEW r, NEW doc, NEW parked \in [Sources -> Dirs], NEW left,
         \A s \in Sources : left[s] = IF c.kind \in KindsOf(AtPending) /\ c.source = s
                                      THEN DirStep(AtPending, c, parked[s]) ELSE parked[s],
         HoldsEnd({c} \union r, doc, parked)
  PROVE  HoldsEnd(r, doc, left)
  <1> SUFFICES ASSUME NEW s \in Sources, doc[s].pending = Empty
               PROVE  /\ ~Queued(r, "mkdir-pending", s)
                      /\ left[s].there => Queued(r, "delete-pending", s)
    BY DEF HoldsEnd
  <1>1. /\ ~Queued({c} \union r, "mkdir-pending", s)
        /\ parked[s].there => Queued({c} \union r, "delete-pending", s)
    BY DEF HoldsEnd
  <1>2. ~Queued(r, "mkdir-pending", s) /\ ~(c.kind = "mkdir-pending" /\ c.source = s)
    BY <1>1 DEF Queued
  <1>3. CASE c.kind = "delete-pending" /\ c.source = s
    BY <1>2, <1>3 DEF DirStep, AtPending, KindsOf, Gone
  <1>4. CASE ~(c.kind = "delete-pending" /\ c.source = s)
    <2>1. left[s].there = parked[s].there
      BY <1>2, <1>4 DEF DirStep, AtPending, KindsOf, Dirs
    <2> QED BY <1>1, <1>2, <1>4, <2>1 DEF Queued
  <1> QED BY <1>3, <1>4

LEMMA DoneLinks ==
  ASSUME NEW c, NEW r, NEW doc, NEW lines, NEW links, NEW after,
         \A n \in Names : after[n] = IF c.kind = "link" /\ c.name = n THEN c.source
                                     ELSE IF c.kind = "unlink" /\ c.name = n THEN 0
                                     ELSE links[n],
         LinksEnd({c} \union r, lines, links), UnlinksEnd({c} \union r, doc, lines, links)
  PROVE  LinksEnd(r, lines, after) /\ UnlinksEnd(r, doc, lines, after)
  <1>1. Wanted(lines) \subseteq Names
    BY DEF Wanted, NamesIn
  <1>2. ASSUME NEW n \in Wanted(lines)
        PROVE  \/ \E d \in r : d.kind = "link" /\ d.name = n
               \/ after[n] \in DOMAIN lines /\ n \in NamesIn(lines[after[n]])
    <2>1. n \in Names
      BY <1>1
    <2>2. CASE c.kind = "link" /\ c.name = n
      BY <2>1, <2>2 DEF LinksEnd
    <2>3. CASE c.kind = "unlink" /\ c.name = n
      BY <2>3 DEF LinksEnd
    <2>4. CASE c.name # n \/ c.kind \notin {"link", "unlink"}
      <3>1. after[n] = links[n]
        BY <2>1, <2>4
      <3> QED BY <2>4, <3>1 DEF LinksEnd
    <2> QED BY <2>2, <2>3, <2>4
  <1>3. ASSUME DOMAIN lines = Added(doc), NEW n \in Names \ Wanted(lines)
        PROVE  after[n] = 0 \/ \E d \in r : d.kind = "unlink" /\ d.name = n
    <2>1. ~(c.kind = "link" /\ c.name = n)
      BY <1>3 DEF LinksEnd, Wanted
    <2>2. CASE c.kind = "unlink" /\ c.name = n
      BY <2>2
    <2>3. CASE ~(c.kind = "unlink" /\ c.name = n)
      <3>1. after[n] = links[n]
        BY <2>1, <2>3
      <3> QED BY <1>3, <2>3, <3>1 DEF UnlinksEnd
    <2> QED BY <2>2, <2>3
  <1>4. LinksEnd(r, lines, after)
    BY <1>2 DEF LinksEnd
  <1> QED BY <1>3, <1>4 DEF UnlinksEnd

LEMMA ApplyEnding ==
  ASSUME Basic, StoreFormed, Apply, NEW doc, NEW files, NEW lines,
         Ending(In(run.todo), doc, files, lines)
  PROVE  /\ files \in [Sources -> Trees] /\ lines = LinesBy(off', doc, files)
         /\ StateEnds(In(run'.todo), doc, state', off')
         /\ CopiesEnd(In(run'.todo), doc, files, store')
         /\ LinesEnd(In(run'.todo), lines, rules')
         /\ SweptEnd(In(run'.todo), doc, rules', store')
         /\ HoldsEnd(In(run'.todo), doc, pending')
         /\ LinksEnd(In(run'.todo), lines, bodies')
         /\ UnlinksEnd(In(run'.todo), doc, lines, bodies')
  <1> DEFINE c == Head(run.todo)
             r == In(run'.todo)
  <1>1. /\ Sound(c) /\ Effect(c) /\ In(run.todo) = {c} \union r /\ \A d \in r : May(c, d)
    BY ApplyEffect
  <1> HIDE DEF c, r
  <1>2. /\ files \in [Sources -> Trees] /\ lines = LinesBy(off, doc, files)
        /\ StateEnds({c} \union r, doc, state, off)
        /\ CopiesEnd({c} \union r, doc, files, store)
        /\ LinesEnd({c} \union r, lines, rules)
        /\ SweptEnd({c} \union r, doc, rules, store)
        /\ HoldsEnd({c} \union r, doc, pending)
        /\ LinksEnd({c} \union r, lines, bodies)
        /\ UnlinksEnd({c} \union r, doc, lines, bodies)
    BY <1>1 DEF Ending
  <1>3. store \in [Sources -> Dirs] /\ pending \in [Sources -> Dirs]
    BY DEF Basic, Typed
  <1>4. /\ state' = IF c.kind = "state" THEN c.doc ELSE state
        /\ off' = IF c.kind = "state" THEN c.off ELSE off
    BY <1>1 DEF Effect
  <1>5. \A s \in Sources : rules'[s] = IF c.kind = "rules" /\ c.source = s
                                        THEN c.tree ELSE rules[s]
    BY <1>1 DEF Effect, Basic, Typed
  <1>6. \A s \in Sources : store'[s] = IF c.kind \in KindsOf(AtStore) /\ c.source = s
                                        THEN DirStep(AtStore, c, store[s]) ELSE store[s]
    BY <1>1 DEF Effect, Basic, Typed
  <1>7. \A s \in Sources : pending'[s] = IF c.kind \in KindsOf(AtPending) /\ c.source = s
                                          THEN DirStep(AtPending, c, pending[s]) ELSE pending[s]
    BY <1>1 DEF Effect, Basic, Typed
  <1>8. \A n \in Names : bodies'[n] = IF c.kind = "link" /\ c.name = n THEN c.source
                                       ELSE IF c.kind = "unlink" /\ c.name = n THEN 0
                                       ELSE bodies[n]
    BY <1>1 DEF Effect, Basic, Typed
  <1>9. \A s \in Sources : Formed({c} \union r, AtStore, s, store[s])
    BY <1>1 DEF StoreFormed
  <1>10. DOMAIN lines \subseteq Sources
    BY <1>2 DEF LinesBy, Added
  <1>11. StateEnds(r, doc, state', off') /\ off' = off
    <2>1. /\ StateEnds(r, doc, IF c.kind = "state" THEN c.doc ELSE state, off)
          /\ (IF c.kind = "state" THEN c.off ELSE off) = off
      BY <1>1, <1>2, DoneState
    <2> QED BY <1>4, <2>1
  <1>12. CopiesEnd(r, doc, files, store')
    BY <1>1, <1>2, <1>3, <1>6, <1>9, DoneCopies
  <1>13. LinesEnd(r, lines, rules')
    BY <1>2, <1>5, <1>10, DoneLines
  <1>14. SweptEnd(r, doc, rules', store')
    BY <1>2, <1>3, <1>5, <1>6, DoneSwept
  <1>15. HoldsEnd(r, doc, pending')
    BY <1>2, <1>3, <1>7, DoneHolds
  <1>16. LinksEnd(r, lines, bodies') /\ UnlinksEnd(r, doc, lines, bodies')
    BY <1>2, <1>8, DoneLinks
  <1> QED BY <1>2, <1>11, <1>12, <1>13, <1>14, <1>15, <1>16 DEF r

\* An interactive plan ends with the store copies it installs from, and with the
\* rule file of each that it brings in, which where no two sources hold the same
\* name are all that are within the cap.
LEMMA PlanBringsIn ==
  ASSUME Typed, Apart, Idle, \A s \in Sources : store[s].files # Empty => store[s].there,
         NEW doc, NEW fresh, NEW held, NEW heldNow, Planned(doc, fresh, held, heldNow)
  PROVE  BlocksOf(doc, held, TreesOf(fresh)) = LinesBy(off, doc, TreesOf(fresh))
  <1> DEFINE trees == TreesOf(fresh)
             works == Works(doc, held, trees)
  <1>1. \A s \in Sources : Selected(doc[s], trees[s]) = Shown(off, doc[s], trees[s])
    BY DEF Selected, Shown
  <1>2. works = {s \in Added(doc) : trees[s] # Empty /\ s \notin held}
    BY DEF Works, Readable
  <1>3. ASSUME NEW s \in Added(doc), trees[s] # Empty
        PROVE  s \in held <=> OverCap(NamesIn(Shown(off, doc[s], trees[s])))
    <2>1. s \in Sources /\ doc[s].added
      BY DEF Added
    <2>2. CASE s \notin held
      <3>1. s \in works
        BY <1>2, <1>3, <2>2
      <3>2. ~OverCap(NamesIn(Selected(doc[s], trees[s])))
        BY <3>1 DEF Planned
      <3> QED BY <1>1, <2>1, <2>2, <3>2
    <2>3. CASE s \in held
      <3>1. /\ WasRefused(s, doc) /\ Added(doc) \subseteq Added(state)
            /\ s \notin fresh /\ doc[s].select \subseteq state[s].select
        BY <2>3 DEF Planned
      <3>2. trees[s] = store[s].files
        BY <2>1, <3>1, TreesOfFacts
      <3> QED BY <2>1, <2>3, <3>1, <3>2, HeldOverCap
    <2> QED BY <2>2, <2>3
  <1>4. works = {s \in Added(doc) :
                    trees[s] # Empty /\ ~OverCap(NamesIn(Shown(off, doc[s], trees[s])))}
    BY <1>2, <1>3
  <1>5. \A s \in works : s \in Sources
    BY <1>2 DEF Added
  <1>6. BlocksOf(doc, held, trees) = [s \in works |-> Selected(doc[s], trees[s])]
    BY DEF BlocksOf, Blocks
  <1>7. BlocksOf(doc, held, trees) = [s \in works |-> Shown(off, doc[s], trees[s])]
    BY <1>1, <1>5, <1>6
  <1> HIDE DEF works, trees
  <1>8. LinesBy(off, doc, trees) = [s \in works |-> Shown(off, doc[s], trees[s])]
    BY <1>4 DEF LinesBy
  <1> QED BY <1>7, <1>8 DEF trees

\* What a plan links goes to a rule line of the source.
LEMMA LinkChange ==
  ASSUME NEW doc, NEW fresh, NEW held, NEW heldNow,
         NEW c \in InstallSet(doc, fresh, held, heldNow, TreesOf(fresh)), c.kind = "link"
  PROVE  /\ c.source \in DOMAIN BlocksOf(doc, held, TreesOf(fresh))
         /\ c.name \in NamesIn(BlocksOf(doc, held, TreesOf(fresh))[c.source])
  <1> DEFINE trees == TreesOf(fresh)
             works == Works(doc, held, trees)
             blocks == BlocksOf(doc, held, trees)
  <1>1. DOMAIN blocks = works
    BY DEF BlocksOf, Blocks
  <1>2. c \in AllBodies(works, blocks, fresh, trees)
    <2>1. c \notin AllParked(heldNow)
      <3>1. ASSUME NEW s \in heldNow, c \in SwapSet(AtPending, pending, s, Upstream(s))
            PROVE  FALSE
        BY <3>1, SwapChange DEF Swaps, AtPending
      <3> QED BY <3>1 DEF AllParked
    <2>2. c \notin WrittenSet(blocks) /\ c \notin EmptiedRuleSet(blocks) /\ c \notin RuleSweepSet(doc)
      BY DEF WrittenSet, EmptiedRuleSet, RuleSweepSet, RuleFile
    <2>3. c \notin UnlinkSet(blocks, doc) /\ c \notin StoreSweepSet(doc)
              /\ c \notin PendingSweepSet(doc)
      BY DEF UnlinkSet, StoreSweepSet, PendingSweepSet, Change
    <2> QED BY <2>1, <2>2, <2>3 DEF InstallSet
  <1>3. PICK s \in works : c \in BodySet(s, fresh, trees[s], blocks[s])
    BY <1>2 DEF AllBodies
  <1>4. c \in LinkSet(s, NamesIn(blocks[s]))
    BY <1>3, SwapChange DEF BodySet, Swaps, AtStore
  <1>5. c.source = s /\ c.name \in NamesIn(blocks[s])
    BY <1>4 DEF LinkSet, Change
  <1> QED BY <1>1, <1>5

LEMMA PlanState ==
  ASSUME NEW doc, NEW fresh, NEW held, NEW heldNow, NEW hook \in BOOLEAN, NEW writes \in BOOLEAN,
         writes \/ doc = state
  PROVE  StateEnds(PlanChanges(doc, fresh, held, heldNow, hook, writes), doc, state, off)
  <1> DEFINE q == PlanChanges(doc, fresh, held, heldNow, hook, writes)
  <1>1. ASSUME NEW c \in q, c.kind = "state"
        PROVE  c = StateChange(doc, off)
    BY <1>1, PlanChange DEF Brought, SweptStore, Parked, SweptPending, Swaps, Linked, Unlinked,
       RuleWritten, RuleGone, AtStore, AtPending
  <1>2. writes => StateChange(doc, off) \in q
    BY DEF PlanChanges
  <1> HIDE DEF q
  <1>3. (\A c \in q : c.kind # "state") => state = doc
    BY <1>2 DEF StateChange
  <1>4. \A c \in q : c.kind = "state" => c.doc = doc /\ c.off = off
    BY <1>1 DEF StateChange
  <1> QED BY <1>3, <1>4 DEF StateEnds, q

LEMMA PlanCopies ==
  ASSUME Typed, \A s \in Sources : store[s].files # Empty => store[s].there,
         NEW doc, NEW fresh, NEW held, NEW heldNow, Planned(doc, fresh, held, heldNow),
         NEW hook \in BOOLEAN, NEW writes \in BOOLEAN
  PROVE  CopiesEnd(PlanChanges(doc, fresh, held, heldNow, hook, writes), doc, TreesOf(fresh), store)
  <1> DEFINE q == PlanChanges(doc, fresh, held, heldNow, hook, writes)
  <1> SUFFICES ASSUME NEW s \in Added(doc)
               PROVE  \/ Filled(q, AtStore, s, store[s], TreesOf(fresh)[s])
                      \/ /\ store[s].files = TreesOf(fresh)[s]
                         /\ \A c \in q : ~(c.kind \in KindsOf(AtStore) /\ c.source = s)
    BY DEF CopiesEnd
  <1>1. s \in Sources /\ AtStore \in {AtStore, AtPending}
    BY DEF Added
  <1>2. ASSUME NEW c \in q, c.kind \in KindsOf(AtStore), c.source = s
        PROVE  s \in fresh /\ Swaps(c, AtStore, s, Upstream(s))
    BY <1>2, PlanChange DEF StateChange, Brought, SweptStore, Parked, SweptPending, Swaps,
       Linked, Unlinked, RuleWritten, RuleGone, AtStore, AtPending, KindsOf
  <1>3. CASE s \in fresh
    <2>1. SwapSet(AtStore, store, s, Upstream(s)) \subseteq q
      BY <1>3, PlanSwaps
    <2>2. TreesOf(fresh)[s] = Upstream(s)
      BY <1>1, <1>3, TreesOfFacts
    <2> HIDE DEF q
    <2>3. Filled(q, AtStore, s, store[s], Upstream(s))
      BY <1>1, <1>2, <2>1, SwapFills
    <2> QED BY <2>2, <2>3
  <1>4. CASE s \notin fresh
    <2>1. TreesOf(fresh)[s] = store[s].files
      BY <1>1, <1>4, TreesOfFacts
    <2> HIDE DEF q
    <2> QED BY <1>2, <1>4, <2>1
  <1> QED BY <1>3, <1>4

LEMMA PlanLinesEnd ==
  ASSUME NEW doc, NEW fresh, NEW held, NEW heldNow, NEW hook \in BOOLEAN, ~hook,
         NEW writes \in BOOLEAN
  PROVE  LinesEnd(PlanChanges(doc, fresh, held, heldNow, hook, writes),
                  BlocksOf(doc, held, TreesOf(fresh)), rules)
  <1> DEFINE q == PlanChanges(doc, fresh, held, heldNow, hook, writes)
             blocks == BlocksOf(doc, held, TreesOf(fresh))
  <1> SUFFICES ASSUME NEW s \in DOMAIN blocks
               PROVE  LinesSettle(q, s, rules[s], blocks[s], {})
    BY DEF LinesEnd
  <1>1. /\ s \in Works(doc, held, TreesOf(fresh))
        /\ blocks[s] = Selected(doc[s], TreesOf(fresh)[s])
    BY DEF BlocksOf, Blocks
  <1>2. LinesSettle(q, s, rules[s], Selected(doc[s], TreesOf(fresh)[s]), {})
    BY <1>1, PlanRedraws
  <1> QED BY <1>1, <1>2

\* An interactive plan takes out all there is of sources that are gone.
LEMMA PlanSwept ==
  ASSUME NEW doc, NEW fresh, NEW held, NEW heldNow, Planned(doc, fresh, held, heldNow),
         NEW hook \in BOOLEAN, ~hook,
         NEW writes \in BOOLEAN
  PROVE  SweptEnd(PlanChanges(doc, fresh, held, heldNow, hook, writes), doc, rules, store)
  <1> DEFINE q == PlanChanges(doc, fresh, held, heldNow, hook, writes)
             blocks == BlocksOf(doc, held, TreesOf(fresh))
  <1> SUFFICES ASSUME NEW s \in Sources \ Added(doc)
               PROVE  /\ LinesSettle(q, s, rules[s], Empty, {})
                      /\ ~Queued(q, "mkdir-store", s)
                      /\ store[s].there => Queued(q, "delete-store", s)
    BY DEF SweptEnd
  <1>1. DOMAIN blocks \subseteq Added(doc) /\ fresh \subseteq Added(doc)
    BY DEF BlocksOf, Blocks, Works, Readable, Planned
  <1> HIDE DEF blocks
  <1>2. ASSUME NEW c \in q, c.kind = "rules", c.source = s
        PROVE  c.tree = Empty
    BY <1>1, <1>2, PlanChange DEF StateChange, Brought, SweptStore, Parked, SweptPending, Swaps,
       Linked, Unlinked, RuleWritten, RuleGone, AtStore, AtPending, blocks
  <1>3. rules[s] = Empty \/ Queued(q, "rules", s)
    BY PlanLines DEF Queued
  <1>4. ~Queued(q, "mkdir-store", s)
    <2> SUFFICES ASSUME NEW c \in q, c.kind = "mkdir-store", c.source = s
                 PROVE  FALSE
      BY DEF Queued
    <2> QED BY <1>1, PlanChange DEF StateChange, Brought, SweptStore, Parked, SweptPending, Swaps,
         Linked, Unlinked, RuleWritten, RuleGone, AtStore, AtPending
  <1>5. ASSUME store[s].there
        PROVE  Queued(q, "delete-store", s)
    <2> DEFINE c == Change("orphan", "delete-store", s, 0, 0)
    <2>1. c \in StoreSweepSet(doc)
      BY <1>5 DEF StoreSweepSet
    <2>2. c.kind = "delete-store" /\ c.source = s
      BY DEF Change
    <2> HIDE DEF c
    <2>3. c \in q
      BY <2>1 DEF PlanChanges, InstallSet
    <2> QED BY <2>2, <2>3 DEF Queued
  <1> HIDE DEF q
  <1> QED BY <1>2, <1>3, <1>4, <1>5 DEF LinesSettle

\* And the parked revision of every hold that is off the record.
LEMMA PlanHolds ==
  ASSUME NEW doc, NEW fresh, NEW held, NEW heldNow, Planned(doc, fresh, held, heldNow),
         NEW hook \in BOOLEAN, ~hook,
         NEW writes \in BOOLEAN
  PROVE  HoldsEnd(PlanChanges(doc, fresh, held, heldNow, hook, writes), doc, pending)
  <1> DEFINE q == PlanChanges(doc, fresh, held, heldNow, hook, writes)
  <1> SUFFICES ASSUME NEW s \in Sources, doc[s].pending = Empty
               PROVE  /\ ~Queued(q, "mkdir-pending", s)
                      /\ pending[s].there => Queued(q, "delete-pending", s)
    BY DEF HoldsEnd
  <1>1. s \notin heldNow
    BY DEF Planned
  <1>2. ~Queued(q, "mkdir-pending", s)
    <2> SUFFICES ASSUME NEW c \in q, c.kind = "mkdir-pending", c.source = s
                 PROVE  FALSE
      BY DEF Queued
    <2> QED BY <1>1, PlanChange DEF StateChange, Brought, SweptStore, Parked, SweptPending, Swaps,
         Linked, Unlinked, RuleWritten, RuleGone, AtStore, AtPending
  <1>3. ASSUME pending[s].there
        PROVE  Queued(q, "delete-pending", s)
    <2> DEFINE c == Change("orphan", "delete-pending", s, 0, 0)
    <2>1. c \in PendingSweepSet(doc)
      BY <1>3 DEF PendingSweepSet
    <2>2. c.kind = "delete-pending" /\ c.source = s
      BY DEF Change
    <2> HIDE DEF c
    <2>3. c \in q
      BY <2>1 DEF PlanChanges, InstallSet
    <2> QED BY <2>2, <2>3 DEF Queued
  <1> QED BY <1>2, <1>3

LEMMA PlanLinks ==
  ASSUME Typed, NEW doc, NEW fresh, NEW held, NEW heldNow, NEW hook \in BOOLEAN, ~hook,
         NEW writes \in BOOLEAN
  PROVE  LET q      == PlanChanges(doc, fresh, held, heldNow, hook, writes)
             blocks == BlocksOf(doc, held, TreesOf(fresh))
         IN LinksEnd(q, blocks, bodies) /\ UnlinksEnd(q, doc, blocks, bodies)
  <1> DEFINE q == PlanChanges(doc, fresh, held, heldNow, hook, writes)
             blocks == BlocksOf(doc, held, TreesOf(fresh))
  <1>1. ASSUME NEW c \in q, c.kind = "link"
        PROVE  c.source \in DOMAIN blocks /\ c.name \in NamesIn(blocks[c.source])
    <2>1. c \in InstallSet(doc, fresh, held, heldNow, TreesOf(fresh))
      BY <1>1 DEF PlanChanges, StateChange
    <2> QED BY <1>1, <2>1, LinkChange
  <1>2. ASSUME NEW c \in q, c.kind = "unlink"
        PROVE  c.name \notin Wanted(blocks)
    <2> HIDE DEF blocks
    <2> QED BY <1>2, PlanChange DEF StateChange, Brought, SweptStore, Parked, SweptPending, Swaps,
         Linked, Unlinked, RuleWritten, RuleGone, AtStore, AtPending, blocks
  <1>3. ASSUME NEW n \in Wanted(blocks)
        PROVE  \/ \E c \in q : c.kind = "link" /\ c.name = n
               \/ bodies[n] \in DOMAIN blocks /\ n \in NamesIn(blocks[bodies[n]])
    <2>1. PICK s \in DOMAIN blocks : n \in NamesIn(blocks[s])
      BY <1>3 DEF Wanted
    <2>2. bodies[n] # s => \E c \in q : c.kind = "link" /\ c.name = n
      BY <2>1, PlanLines
    <2> HIDE DEF q, blocks
    <2> QED BY <2>1, <2>2
  <1>4. ASSUME DOMAIN blocks = Added(doc), NEW n \in Names \ Wanted(blocks), bodies[n] # 0
        PROVE  \E c \in q : c.kind = "unlink" /\ c.name = n
    <2> DEFINE c == Change("removal", "unlink", 0, n, 0)
    <2>1. c \in UnlinkSet(blocks, doc)
      BY <1>4 DEF UnlinkSet, Sweepable
    <2>2. c.kind = "unlink" /\ c.name = n
      BY DEF Change
    <2> HIDE DEF c
    <2>3. c \in q
      BY <2>1 DEF PlanChanges, InstallSet
    <2> QED BY <2>2, <2>3
  <1> HIDE DEF q, blocks
  <1>5. LinksEnd(q, blocks, bodies)
    BY <1>1, <1>2, <1>3 DEF LinksEnd
  <1>6. UnlinksEnd(q, doc, blocks, bodies)
    BY <1>4 DEF UnlinksEnd
  <1> QED BY <1>5, <1>6 DEF q, blocks

LEMMA StartsEnding ==
  ASSUME Typed, Apart, Idle, \A s \in Sources : store[s].files # Empty => store[s].there,
         NEW t, NEW verb \in Interactive, PlanStarts(t, verb)
  PROVE  \E doc, files, lines : Ending(In(t), doc, files, lines)
  <1>1. PICK hook \in BOOLEAN : hook = (verb = "hook")
    OBVIOUS
  <1>2. ~hook
    BY <1>1 DEF Interactive
  <1>3. PICK doc, fresh, held, heldNow : \E writes \in BOOLEAN :
           PlanStarted(t, doc, fresh, held, heldNow, hook, writes)
    BY <1>1 DEF PlanStarts
  <1>4. PICK writes \in BOOLEAN : PlanStarted(t, doc, fresh, held, heldNow, hook, writes)
    BY <1>3
  <1> DEFINE files == TreesOf(fresh)
             lines == BlocksOf(doc, held, files)
             q == PlanChanges(doc, fresh, held, heldNow, hook, writes)
  <1>5. /\ Planned(doc, fresh, held, heldNow) /\ (writes \/ doc = state)
        /\ Placed(t, q)
    BY <1>4 DEF PlanStarted, PlanChanges
  <1>6. In(t) = q
    BY <1>5, PlacedIn
  <1>7. files \in [Sources -> Trees]
    <2>1. \A s \in Sources : files[s] \in Trees
      BY TreesOfFacts
    <2> QED BY <2>1 DEF TreesOf
  <1>8. lines = LinesBy(off, doc, files)
    BY <1>5, PlanBringsIn
  <1>9. StateEnds(q, doc, state, off) /\ CopiesEnd(q, doc, files, store)
    BY <1>5, PlanState, PlanCopies
  <1>10. /\ LinesEnd(q, lines, rules) /\ SweptEnd(q, doc, rules, store)
        /\ HoldsEnd(q, doc, pending)
    BY <1>5, <1>2, PlanLinesEnd, PlanSwept, PlanHolds
  <1>11. LinksEnd(q, lines, bodies) /\ UnlinksEnd(q, doc, lines, bodies)
    BY <1>2, PlanLinks
  <1> HIDE DEF q, lines, files
  <1>12. Ending(q, doc, files, lines)
    BY <1>7, <1>8, <1>9, <1>10, <1>11 DEF Ending
  <1> QED BY <1>6, <1>12

LEMMA CalmingInvariance == SyncSpec /\ []Apart => []Calming
  <1>1. SyncInit => Calming
    BY DEF SyncInit, Calming, NoRun, Interactive
  <1>2. Basic /\ StoreFormed /\ Apart /\ Calming /\ [SyncNext]_vars => Calming'
    <2> SUFFICES ASSUME Basic, StoreFormed, Apart, Calming, [SyncNext]_vars
                 PROVE  /\ calm' => run' = NoRun
                        /\ calm' \/ run'.verb \in Interactive =>
                               \E doc, files, lines : Ending(In(run.todo), doc, files, lines)'
      BY DEF Calming
    <2>1. CASE Begins
      <3>1. /\ Idle /\ Starts(run'.todo, run'.verb) /\ calm' = FALSE
            /\ UNCHANGED <<state, off, store, pending, rules, bodies>>
        BY <2>1 DEF Begins, Idle
      <3>2. ASSUME run'.verb \in Interactive
            PROVE  \E doc, files, lines : Ending(In(run.todo), doc, files, lines)'
        <4>1. PlanStarts(run'.todo, run'.verb)
          BY <3>1, <3>2 DEF Starts, CommitStarts
        <4>2. \A s \in Sources : store[s].files # Empty => store[s].there
          BY DEF StoreFormed
        <4>3. PICK doc, files, lines : Ending(In(run'.todo), doc, files, lines)
          BY <3>1, <3>2, <4>1, <4>2, StartsEnding DEF Basic
        <4>4. Ending(In(run.todo), doc, files, lines)'
          BY <3>1, <4>3 DEF Ending, In
        <4> QED BY <4>4
      <3> QED BY <3>1, <3>2
    <2>2. CASE Apply
      <3>1. run'.verb = run.verb /\ calm' = calm
        BY <2>2, ApplyEffect
      <3>2. ~calm
        BY <2>2 DEF Calming, Apply, NoRun
      <3>3. ASSUME run.verb \in Interactive
            PROVE  \E doc, files, lines : Ending(In(run.todo), doc, files, lines)'
        <4>1. PICK doc, files, lines : Ending(In(run.todo), doc, files, lines)
          BY <3>3 DEF Calming
        <4>2. Ending(In(run.todo), doc, files, lines)'
          BY <2>2, <4>1, ApplyEnding DEF Ending, In
        <4> QED BY <4>2
      <3> QED BY <3>1, <3>2, <3>3
    <2>3. CASE Closes
      <3>1. /\ run' = NoRun /\ run'.verb \notin Interactive
            /\ UNCHANGED <<state, off, store, pending, rules, bodies>>
        BY <2>3 DEF Closes, NoRun, Interactive
      <3>2. ASSUME calm'
            PROVE  \E doc, files, lines : Ending(In(run.todo), doc, files, lines)'
        <4>1. run.todo = <<>> /\ run.verb \in Interactive
          <5>1. CASE calm' = FALSE
            BY <3>2, <5>1
          <5>2. CASE run.todo = <<>> /\ calm' = (run.verb \in Interactive)
            BY <3>2, <5>2
          <5> QED BY <2>3, <5>1, <5>2 DEF Closes
        <4>2. PICK doc, files, lines : Ending(In(run.todo), doc, files, lines)
          BY <4>1 DEF Calming
        <4>3. run'.todo = run.todo
          BY <3>1, <4>1 DEF NoRun
        <4>4. Ending(In(run.todo), doc, files, lines)'
          BY <3>1, <4>2, <4>3 DEF Ending, In
        <4> QED BY <4>4
      <3> QED BY <3>1, <3>2
    <2>4. CASE Drifts
      BY <2>4 DEF Drifts, NoRun, Interactive
    <2>5. CASE UNCHANGED vars
      <3>1. UNCHANGED <<run, calm, state, off, store, pending, rules, bodies>>
        BY <2>5 DEF vars
      <3>2. ASSUME calm \/ run.verb \in Interactive
            PROVE  \E doc, files, lines : Ending(In(run.todo), doc, files, lines)'
        <4>1. PICK doc, files, lines : Ending(In(run.todo), doc, files, lines)
          BY <3>2 DEF Calming
        <4>2. Ending(In(run.todo), doc, files, lines)'
          BY <3>1, <4>1 DEF Ending, In
        <4> QED BY <4>2
      <3> QED BY <3>1, <3>2 DEF Calming
    <2> QED BY <2>1, <2>2, <2>3, <2>4, <2>5, StepKinds
  <1> QED BY <1>1, <1>2, BasicInvariance, FormedInvariance, PTL DEF SyncSpec

\* A sync that may not fetch plans what its attempts leave, over the state as it is.
LEMMA QuietPlan ==
  ASSUME Typed
  PROVE  LET last == Attempts({}, state, state)
         IN /\ SyncPlan("none", {}, FALSE) = Install(state, {}, last.held, {}, TreesOf({})) \o <<>>
            /\ last.fresh = {} /\ Refusing(last, state, state) = {}
  <1> DEFINE outcome == [s \in Sources |-> Outcome(s, "none", {})]
             brought == {s \in Sources : outcome[s] = "fresh"}
             after == [s \in Sources |-> Refreshed(s, outcome[s])]
             last == Attempts({}, state, state)
             doc == RollBack(brought \ last.fresh, after)
             heldNow == HeldRevisions(outcome)
  <1>1. \A s \in Sources : outcome[s] \in {"none", "not-due"}
    BY DEF Outcome, IsDue
  <1>2. brought = {} /\ heldNow = {}
    BY <1>1 DEF HeldRevisions
  <1>3. \A s \in Sources : after[s] = state[s]
    BY <1>1 DEF Refreshed
  <1>4. last \in Verdicts({}, state, state) /\ Refusing(last, state, state) = {}
    BY AttemptsKept, AttemptsSettle
  <1>5. last.fresh = {}
    BY <1>4 DEF Verdicts
  <1>6. doc = state
    <2>1. state = [s \in Sources |-> state[s]]
      BY DEF Typed, Docs
    <2>2. doc = [s \in Sources |-> after[s]]
      BY <1>2 DEF RollBack
    <2> HIDE DEF after, doc
    <2> QED BY <1>3, <2>1, <2>2
  <1>7. SyncPlan("none", {}, FALSE) =
            Build(Install(doc, last.fresh, last.held, heldNow, TreesOf(last.fresh)), FALSE)
                \o When(doc # state, StateWrite(doc, off))
    <2>1. SyncPlan("none", {}, FALSE) =
              Build(Install(doc, Attempts(brought, state, state).fresh,
                            Attempts(brought, state, state).held, heldNow,
                            TreesOf(Attempts(brought, state, state).fresh)), FALSE)
                  \o When(doc # state, StateWrite(doc, off))
      BY <1>2 DEF SyncPlan
    <2> HIDE DEF doc, heldNow, brought
    <2> QED BY <1>2, <2>1
  <1> HIDE DEF doc, heldNow, last
  <1>8. Build(Install(state, {}, last.held, {}, TreesOf({})), FALSE) =
            Install(state, {}, last.held, {}, TreesOf({}))
    BY DEF Build
  <1>9. When(doc # state, StateWrite(doc, off)) = <<>>
    BY <1>6 DEF When
  <1>10. SyncPlan("none", {}, FALSE) = Install(state, {}, last.held, {}, TreesOf({})) \o <<>>
    BY <1>2, <1>5, <1>6, <1>7, <1>8, <1>9
  <1> QED BY <1>4, <1>5, <1>10 DEF last

\* Where a queue has ended there, nothing is left to install.
LEMMA NothingLeft ==
  ASSUME Typed, StoreFormed, Apart, Idle, NEW doc, NEW files, NEW lines,
         Ending({}, doc, files, lines), NEW last, last.fresh = {},
         Refusing(last, state, state) = {}
  PROVE  InstallSet(state, {}, last.held, {}, TreesOf({})) = {}
  <1> DEFINE trees == TreesOf({})
             works == Works(state, last.held, trees)
             blocks == BlocksOf(state, last.held, trees)
  <1>1. doc = state
    BY DEF Ending, StateEnds
  <1>2. ASSUME NEW s \in Added(state)
        PROVE  store[s].files = files[s] /\ trees[s] = files[s] /\ s \in Sources
    <2>1. s \in Sources
      BY DEF Added
    <2>2. store[s].files \in Trees /\ files[s] \in Trees
      BY <2>1 DEF Typed, Dirs, Ending
    <2>3. Filled({}, AtStore, s, store[s], files[s]) \/ store[s].files = files[s]
      BY <1>1 DEF Ending, CopiesEnd
    <2>4. store[s].files = files[s]
      BY <2>2, <2>3 DEF Filled, Queued, QueuedFor, Trees
    <2> QED BY <2>1, <2>4, TreesOfFacts
  <1>3. lines = LinesBy(off, state, files)
    BY <1>1 DEF Ending
  <1>4. ASSUME NEW s \in works
        PROVE  s \in DOMAIN lines /\ blocks[s] = lines[s] /\ s \in Added(state)
    <2>1. s \in Added(state) /\ trees[s] # Empty
      BY DEF Works, Readable
    <2>2. ~OverCap(NamesIn(Selected(state[s], trees[s])))
      BY DEF Refusing, RefusedIn, Works
    <2>3. Selected(state[s], trees[s]) = Shown(off, state[s], files[s])
      BY <1>2, <2>1 DEF Selected, Shown
    <2>4. blocks[s] = Selected(state[s], trees[s])
      BY DEF BlocksOf, Blocks
    <2> HIDE DEF trees, works, blocks
    <2> QED BY <1>2, <1>3, <2>1, <2>2, <2>3, <2>4 DEF LinesBy
  <1>5. DOMAIN blocks = works /\ DOMAIN lines \subseteq Added(state)
    BY <1>3 DEF BlocksOf, Blocks, LinesBy
  <1>6. \A s \in DOMAIN lines : rules[s] = lines[s]
    BY DEF Ending, LinesEnd, LinesSettle, Queued
  <1>7. \A s \in Sources \ Added(state) : rules[s] = Empty /\ ~store[s].there
    BY <1>1 DEF Ending, SweptEnd, LinesSettle, Queued
  <1>8. \A s \in Sources : state[s].pending = Empty => ~pending[s].there
    BY <1>1 DEF Ending, HoldsEnd, Queued
  <1>9. ASSUME NEW s \in works, NEW n \in NamesIn(blocks[s])
        PROVE  bodies[n] = s
    <2>1. s \in DOMAIN lines /\ n \in NamesIn(lines[s])
      BY <1>4, <1>9
    <2>2. n \in Wanted(lines)
      BY <2>1 DEF Wanted
    <2>3. bodies[n] \in DOMAIN lines /\ n \in NamesIn(lines[bodies[n]])
      BY <2>2 DEF Ending, LinksEnd
    <2>4. ASSUME NEW t \in DOMAIN lines, n \in NamesIn(lines[t])
          PROVE  n \in Retained(t, state) /\ t \in Sources
      <3>1. t \in Added(state)
        BY <1>5
      <3>2. lines[t] = Shown(off, state[t], files[t])
        BY <1>3 DEF LinesBy
      <3>3. n \in Owned(state[t], store[t].files)
        BY <1>2, <2>4, <3>1, <3>2 DEF NamesIn, Shown
      <3>4. store[t].there
        BY <1>2, <3>1, <3>3 DEF Owned, NamesIn, Empty, StoreFormed
      <3> QED BY <1>2, <3>1, <3>3, <3>4 DEF Retained, SelectedNames
    <2> QED BY <2>1, <2>3, <2>4 DEF Apart
  <1> HIDE DEF works, blocks, trees
  <1>10. AllBodies(works, blocks, {}, trees) = {}
    BY <1>9 DEF AllBodies, BodySet, LinkSet
  <1>11. WrittenSet(blocks) = {} /\ EmptiedRuleSet(blocks) = {}
    BY <1>4, <1>5, <1>6 DEF WrittenSet, EmptiedRuleSet
  <1>12. RuleSweepSet(state) = {} /\ StoreSweepSet(state) = {}
    BY <1>7 DEF RuleSweepSet, StoreSweepSet
  <1>13. UnlinkSet(blocks, state) = {}
    <2> SUFFICES ASSUME Sweepable(works, state), NEW n \in Names \ Wanted(blocks)
                 PROVE  bodies[n] = 0
      BY <1>5 DEF UnlinkSet
    <2>1. works = Added(state) /\ DOMAIN lines = Added(state)
      BY <1>4, <1>5 DEF Sweepable
    <2>2. n \notin Wanted(lines)
      BY <1>4, <1>5, <2>1 DEF Wanted
    <2> QED BY <1>1, <2>1, <2>2 DEF Ending, UnlinksEnd
  <1>14. AllParked({}) = {}
    BY DEF AllParked
  <1>15. PendingSweepSet(state) = {}
    BY <1>8 DEF PendingSweepSet
  <1> QED BY <1>10, <1>11, <1>12, <1>13, <1>14, <1>15 DEF InstallSet, works, blocks, trees

\* As long as no two sources come to hold the same name, a sync that ends leaves the
\* next one nothing to do, wherever runs before it were cut short, and whatever of the
\* store went missing.
THEOREM SettledRuns == SyncSpec /\ []Apart => []Idempotent
  <1>1. Basic /\ StoreFormed /\ Apart /\ Calming => Idempotent
    <2> SUFFICES ASSUME Basic, StoreFormed, Apart, Calming, calm
                 PROVE  SyncPlan("none", {}, FALSE) = <<>>
      BY DEF Idempotent
    <2> DEFINE last == Attempts({}, state, state)
               t == Install(state, {}, last.held, {}, TreesOf({}))
    <2>1. Idle /\ In(run.todo) = {}
      BY QueueNone DEF Calming, Idle, NoRun
    <2>2. PICK doc, files, lines : Ending({}, doc, files, lines)
      BY <2>1 DEF Calming
    <2>3. /\ SyncPlan("none", {}, FALSE) = t \o <<>>
          /\ last.fresh = {} /\ Refusing(last, state, state) = {}
      BY QuietPlan DEF Basic
    <2> HIDE DEF last
    <2>4. InstallSet(state, {}, last.held, {}, TreesOf({})) = {}
      BY <2>1, <2>2, <2>3, NothingLeft DEF Basic
    <2>5. Placed(t, {})
      BY <2>4, InstallPlaced
    <2>6. t = <<>>
      BY <2>5 DEF Placed, Lists
    <2>7. t \o <<>> = t
      BY <2>6
    <2> QED BY <2>3, <2>6, <2>7
  <1> QED BY <1>1, BasicInvariance, FormedInvariance, CalmingInvariance, PTL

\* With one source nothing is left to assume: a sync after a sync writes nothing.
THEOREM LoneSourceSettles ==
  ASSUME NEW k, Sources = {k}
  PROVE  SyncSpec => []Idempotent
  <1>1. Apart
    BY DEF Apart
  <1> QED BY <1>1, SettledRuns, PTL

============================================================================
