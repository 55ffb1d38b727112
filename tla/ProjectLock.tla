---------------------------- MODULE ProjectLock ----------------------------
(* .agents/maxims.lock: the project's shared sources, committed with the     *)
(* project and rewritten by every machine that edits them                    *)
(* (src/commands/frame/project-lock-io.ts and the verbs that call it).       *)
(*                                                                           *)
(* Every machine keeps its own state.json and its own checkout; git carries  *)
(* the lock between the checkouts.  A verb rewrites the lock from the        *)
(* machine's state: the entries of the sources the machine records are       *)
(* projected anew, the others stay as the file has them.  The lock lands     *)
(* before the state does, and the process may be killed in between.  add and *)
(* install read the lock and the state, fetch and ask the user, and only     *)
(* then take the store's lock and commit.                                    *)
(*                                                                           *)
(* One project root; user-scope sources, hooks and the files a sync writes   *)
(* are other modules'.  An intent is what an entry records of a source       *)
(* (selection, renames, harnesses ...), and Provides gives the local names   *)
(* the source has under it.                                                  *)
EXTENDS Integers, FiniteSets

CONSTANTS
    Machines,   \* the teammates' machines, a checkout each
    Sources,    \* the identities of sources (sourceIdentity)
    Names,      \* local memory names
    Intents,    \* what an entry may record of a source
    Provides,   \* Provides[s][i]: the names source s has under intent i
    NoIntent,   \* the source is not there
    Idle,       \* no verb is between its two writes
    MaxVerbs,   \* bound: verbs committed over all machines
    MaxJobs,    \* bound: verbs of one machine that have not committed yet
    MaxBusy     \* bound: machines in the middle of a verb at once

ASSUME ProjectLockAssumption ==
    /\ NoIntent \notin Intents
    /\ Provides \in [Sources -> [Intents -> SUBSET Names]]
    /\ MaxVerbs \in Nat
    /\ MaxJobs \in Nat
    /\ MaxBusy \in Nat

VARIABLES
    state,    \* state[m]: the project's part of the machine's state.json
    work,     \* work[m]: the lock file in the machine's checkout
    remote,   \* the lock git last published
    jobs,     \* jobs[m]: the adds, installs and disables that have not committed yet
    landing,  \* landing[m]: the state a verb has still to write, its lock written
    settled,  \* settled[m]: the lock was rewritten, and nothing else touched it since
    verbs     \* how many verbs have committed

vars == <<state, work, remote, jobs, landing, settled, verbs>>

Entries == [Sources -> Intents \cup {NoIntent}]
NoEntries == [s \in Sources |-> NoIntent]

State == [intent: Entries, shared: SUBSET Sources, disabled: SUBSET Names]
FreshState == [intent |-> NoEntries, shared |-> {}, disabled |-> {}]

\* A lock with no source is a deleted file.
Lock == [entry: Entries, disabled: SUBSET Names]
AbsentLock == [entry |-> NoEntries, disabled |-> {}]

ASSUME IdleAssumption == Idle \notin State

Listed(entries) == {s \in Sources : entries[s] # NoIntent}
NamesOf(entries, S) == UNION {Provides[s][entries[s]] : s \in S \cap Listed(entries)}

\* The names two sources provide, switched on or off.
Doubled(entries) ==
    {n \in Names : \E s, t \in Listed(entries) :
                      s # t /\ n \in Provides[s][entries[s]] \cap Provides[t][entries[t]]}

\* Those of them a rule line would be written for by both.
Clashing(st) == Doubled(st.intent) \ st.disabled

----------------------------------------------------------------------------
(* The rewrite of the lock. *)

\* Seeded fault: only what the machine shares after the edit is its own.
OwnedShared(previous, next) ==
    [identities |-> next.shared, names |-> NamesOf(next.intent, next.shared)]

\* What this machine may edit in the lock: every source it records before or
\* after the edit, shared or not, and the names of the shared ones.
OwnedHere(previous, next) ==
    [identities |-> Listed(previous.intent) \cup Listed(next.intent),
     names |-> NamesOf(previous.intent, previous.shared) \cup NamesOf(next.intent, next.shared)]

\* Seeded fault: the names of private sources are the machine's too.
TakingAllNames(current, ours) ==
    [entry |-> [s \in Sources |-> IF s \in ours.identities THEN NoIntent ELSE current.entry[s]],
     disabled |-> {}]

TeammateEntries(current, ours) ==
    [entry |-> [s \in Sources |-> IF s \in ours.identities THEN NoIntent ELSE current.entry[s]],
     disabled |-> current.disabled \ ours.names]

SharedProjection(next) ==
    [entry |-> [s \in Sources |-> IF s \in next.shared THEN next.intent[s] ELSE NoIntent],
     disabled |-> next.disabled \cap NamesOf(next.intent, next.shared)]

Merged(theirs, share) ==
    [entry |-> [s \in Sources |-> IF share.entry[s] # NoIntent THEN share.entry[s]
                                                              ELSE theirs.entry[s]],
     disabled |-> theirs.disabled \cup share.disabled]

ProjectLockChange(current, previous, next) ==
    LET lock == Merged(TeammateEntries(current, OwnedHere(previous, next)),
                       SharedProjection(next))
    IN IF Listed(lock.entry) = {} THEN AbsentLock ELSE lock

----------------------------------------------------------------------------
(* What the verbs make of the state. *)

\* The names the manifest switches off join the machine's list.
DisableAtProject(current, names) == current.disabled \cup names

\* add and install record what they prepared over what is there.
FoldPrepared(current, prepared) ==
    [intent |-> [s \in Sources |-> IF prepared.entries[s] # NoIntent THEN prepared.entries[s]
                                                                     ELSE current.intent[s]],
     shared |-> (current.shared \ Listed(prepared.entries)) \cup prepared.shared,
     disabled |-> DisableAtProject(current, prepared.disabled)]

ListedInLock(lock, s) == s \in Listed(lock.entry)

\* A source the lock lists is added shared, asked for or not.
AddRequest(lock, s, i, share) ==
    [kind |-> "add",
     entries |-> [NoEntries EXCEPT ![s] = i],
     shared |-> IF share \/ ListedInLock(lock, s) THEN {s} ELSE {},
     disabled |-> {}]

\* Seeded fault: the manifest's disabled names are left to sync.
InstallEntriesOnly(lock) ==
    [kind |-> "install",
     entries |-> lock.entry,
     shared |-> Listed(lock.entry),
     disabled |-> {}]

\* install replays every entry of the lock, each of them shared.
InstallRequest(lock) ==
    [kind |-> "install",
     entries |-> lock.entry,
     shared |-> Listed(lock.entry),
     disabled |-> lock.disabled]

\* disable resolves the name it was given before it takes the lock.
DisableRequest(name) ==
    [kind |-> "disable", entries |-> NoEntries, shared |-> {}, disabled |-> {name}]

Jobs == [kind: {"add", "install", "disable"}, entries: Entries,
         shared: SUBSET Sources, disabled: SUBSET Names]

WithShared(st, s, shared) ==
    [st EXCEPT !.shared = IF shared THEN @ \cup {s} ELSE @ \ {s}]

WithIntent(st, s, i) == [st EXCEPT !.intent[s] = i]

WithoutSource(st, s) == [WithIntent(st, s, NoIntent) EXCEPT !.shared = @ \ {s}]

----------------------------------------------------------------------------
\* The variables have their types, shared sources are recorded ones, and a lock
\* without a source is no file.
LockTypeOK ==
    /\ state \in [Machines -> State]
    /\ \A m \in Machines : state[m].shared \subseteq Listed(state[m].intent)
    /\ work \in [Machines -> Lock]
    /\ remote \in Lock
    /\ \A lock \in {remote} \cup {work[m] : m \in Machines} :
          Listed(lock.entry) = {} => lock = AbsentLock
    /\ jobs \in [Machines -> SUBSET Jobs]
    /\ \A m \in Machines : \A request \in jobs[m] : request.shared \subseteq Listed(request.entries)
    /\ landing \in [Machines -> State \cup {Idle}]
    /\ settled \in [Machines -> BOOLEAN]
    /\ verbs \in Nat

Init ==
    /\ state = [m \in Machines |-> FreshState]
    /\ work = [m \in Machines |-> AbsentLock]
    /\ remote = AbsentLock
    /\ jobs = [m \in Machines |-> {}]
    /\ landing = [m \in Machines |-> Idle]
    /\ settled = [m \in Machines |-> FALSE]
    /\ verbs = 0

\* The bounds: the verbs of two machines meet in the lock git carries alone.
MayRun(m) ==
    /\ verbs < MaxVerbs
    /\ Cardinality({x \in Machines \ {m} : jobs[x] # {} \/ landing[x] # Idle}) < MaxBusy

\* A verb holds the store's lock from its reading of the state to its write.
HoldsStoreLock(m) ==
    /\ landing[m] = Idle
    /\ MayRun(m)
    /\ verbs' = verbs + 1

\* updateIntent applies the lock rewrite first; Land writes the state.
UpdateIntent(m, next) ==
    /\ HoldsStoreLock(m)
    /\ work' = [work EXCEPT ![m] = ProjectLockChange(@, state[m], next)]
    /\ landing' = [landing EXCEPT ![m] = next]
    /\ settled' = [settled EXCEPT ![m] = TRUE]
    /\ UNCHANGED <<state, remote>>

\* The processes of one machine prepare side by side, as many as can still commit
\* within the bounds.
Prepare(m, prepared) ==
    /\ Cardinality(jobs[m]) < MaxJobs
    /\ verbs + Cardinality(jobs[m]) < MaxVerbs
    /\ MayRun(m)
    /\ jobs' = [jobs EXCEPT ![m] = @ \cup {prepared}]
    /\ UNCHANGED <<state, work, remote, landing, settled, verbs>>

\* resolveIncoming: what s is to provide, switched off or not, none of the others
\* provides.  A name s has already stays its own if s was installed first: the
\* order of installation is left out, and either may have been.
Resolves(entries, s, i, others) ==
    \A t \in Listed(entries) \cap others :
        Provides[s][i] \cap Provides[t][entries[t]] \subseteq NamesOf(entries, {s})

\* The names are validated against the state as it is before the lock is taken.
PrepareAdd(m) ==
    \E s \in Sources, i \in Intents, share \in BOOLEAN :
        /\ Resolves(state[m].intent, s, i, Sources \ {s})
        /\ Prepare(m, AddRequest(work[m], s, i, share))

\* assertDistinctNames: no two entries of a batch provide one name.
DistinctNames(batch) == Doubled(batch.entries) = {}

PrepareInstall(m) ==
    LET request == InstallRequest(work[m])
        batch   == Listed(request.entries)
    IN /\ work[m] # AbsentLock
       /\ \A s \in batch : Resolves(state[m].intent, s, request.entries[s], Sources \ batch)
       /\ DistinctNames(request)
       /\ Prepare(m, request)

PrepareDisable(m) ==
    \E n \in NamesOf(state[m].intent, Sources) : Prepare(m, DisableRequest(n))

\* Seeded fault: the commit trusts the validation before the prompts.
AdmitValidated(next) == TRUE

\* The sync a verb would make is planned before anything is written: a name of two
\* sources refuses it, unless it is switched off and so no candidate.  What rule
\* files and links still name may refuse more than that, see GiveUp.
AdmitIntent(next) == Clashing(next) = {}

Done(m, request) == jobs' = [jobs EXCEPT ![m] = @ \ {request}]

CommitAdd(m) ==
    \E request \in jobs[m] :
        LET next == FoldPrepared(state[m], request) IN
        /\ request.kind = "add"
        /\ AdmitIntent(next)
        /\ UpdateIntent(m, next)
        /\ Done(m, request)

\* The manifest is install's input, so install leaves it alone.
CommitInstall(m) ==
    \E request \in jobs[m] :
        LET next == FoldPrepared(state[m], request) IN
        /\ request.kind = "install"
        /\ HoldsStoreLock(m)
        /\ AdmitIntent(next)
        /\ landing' = [landing EXCEPT ![m] = next]
        /\ settled' = [settled EXCEPT ![m] = FALSE]
        /\ Done(m, request)
        /\ UNCHANGED <<state, work, remote>>

\* A name already switched off rewrites nothing.
CommitDisable(m) ==
    \E request \in jobs[m] :
        LET next == FoldPrepared(state[m], request) IN
        /\ request.kind = "disable"
        /\ next # state[m]
        /\ UpdateIntent(m, next)
        /\ Done(m, request)

\* Refused at the commit, declined at a prompt, failed to fetch, or killed before.
GiveUp(m) ==
    /\ \E request \in jobs[m] : Done(m, request)
    /\ UNCHANGED <<state, work, remote, landing, settled, verbs>>

\* No plan is judged: a name of two sources may be switched on.
Enable(m) ==
    \E n \in state[m].disabled \cap NamesOf(state[m].intent, Sources) :
        /\ UpdateIntent(m, [state[m] EXCEPT !.disabled = @ \ {n}])
        /\ UNCHANGED jobs

Share(m) ==
    \E s \in Listed(state[m].intent), shared \in BOOLEAN :
        /\ UpdateIntent(m, WithShared(state[m], s, shared))
        /\ UNCHANGED jobs

\* link: the names stay, and the plan is judged.
Link(m) ==
    \E s \in Listed(state[m].intent), i \in Intents :
        LET next == WithIntent(state[m], s, i) IN
        /\ i # state[m].intent[s]
        /\ Provides[s][i] = NamesOf(state[m].intent, {s})
        /\ AdmitIntent(next)
        /\ UpdateIntent(m, next)
        /\ UNCHANGED jobs

\* unlink, and remove of one memory or one harness: no plan is judged.
Trim(m) ==
    \E s \in Listed(state[m].intent), i \in Intents :
        /\ i # state[m].intent[s]
        /\ Provides[s][i] \subseteq NamesOf(state[m].intent, {s})
        /\ UpdateIntent(m, WithIntent(state[m], s, i))
        /\ UNCHANGED jobs

\* update --rename: judged like an add, under the lock.
Rename(m) ==
    \E s \in Listed(state[m].intent), i \in Intents :
        /\ i # state[m].intent[s]
        /\ Cardinality(Provides[s][i]) = Cardinality(NamesOf(state[m].intent, {s}))
        /\ Resolves(state[m].intent, s, i, Sources \ {s})
        /\ UpdateIntent(m, WithIntent(state[m], s, i))
        /\ UNCHANGED jobs

RemoveSource(m) ==
    \E s \in Listed(state[m].intent) :
        /\ UpdateIntent(m, WithoutSource(state[m], s))
        /\ UNCHANGED jobs

Land(m) ==
    /\ landing[m] # Idle
    /\ state' = [state EXCEPT ![m] = landing[m]]
    /\ landing' = [landing EXCEPT ![m] = Idle]
    /\ UNCHANGED <<work, remote, jobs, settled, verbs>>

Kill(m) ==
    /\ landing[m] # Idle
    /\ landing' = [landing EXCEPT ![m] = Idle]
    /\ settled' = [settled EXCEPT ![m] = FALSE]
    /\ UNCHANGED <<state, work, remote, jobs, verbs>>

----------------------------------------------------------------------------
(* git, outside maxims: a checkout is published, and a pull takes every entry *)
(* and every disabled name from one side of the merge or the other.           *)

Push(m) ==
    /\ remote # work[m]
    /\ verbs < MaxVerbs
    /\ remote' = work[m]
    /\ UNCHANGED <<state, work, jobs, landing, settled, verbs>>

MergeOf(mine, theirs) ==
    {lock \in {[entry |-> [s \in Sources |-> IF s \in S THEN theirs.entry[s] ELSE mine.entry[s]],
                disabled |-> (mine.disabled \cap theirs.disabled) \cup D] :
                 S \in SUBSET {s \in Sources : mine.entry[s] # theirs.entry[s]},
                 D \in SUBSET ((mine.disabled \cup theirs.disabled)
                                 \ (mine.disabled \cap theirs.disabled))} :
        Listed(lock.entry) = {} => lock = AbsentLock}

Pull(m) ==
    /\ remote # work[m]
    /\ verbs < MaxVerbs
    /\ \E lock \in MergeOf(work[m], remote) : work' = [work EXCEPT ![m] = lock]
    /\ settled' = [settled EXCEPT ![m] = FALSE]
    /\ UNCHANGED <<state, remote, jobs, landing, verbs>>

Next ==
    \E m \in Machines :
        \/ PrepareAdd(m) \/ PrepareInstall(m) \/ PrepareDisable(m)
        \/ CommitAdd(m) \/ CommitInstall(m) \/ CommitDisable(m) \/ GiveUp(m)
        \/ Enable(m) \/ Share(m) \/ Link(m) \/ Trim(m) \/ Rename(m) \/ RemoveSource(m)
        \/ Land(m) \/ Kill(m) \/ Push(m) \/ Pull(m)

Spec == Init /\ [][Next]_vars

----------------------------------------------------------------------------
(* Properties. *)

\* A name that is on comes to have two sources in no step of a machine but one
\* that switches it on: add and install judge their names long before they take
\* the store's lock, other verbs of the machine commit in between, and disable
\* takes a name out of what the commit judges (add/validate.ts, add/commit.ts).
NoNewClash ==
    [][\A m \in Machines : Clashing(state'[m]) \subseteq Doubled(state[m].intent)]_vars

\* What a lock says of the sources a state records is what the state says.
Agrees(lock, st) ==
    /\ \A s \in Listed(st.intent) : lock.entry[s] = SharedProjection(st).entry[s]
    /\ lock.disabled \cap NamesOf(st.intent, st.shared) = SharedProjection(st).disabled

\* Between a rewrite of the lock and the next pull, install or crash, the lock
\* says of every source the machine records what its state says: listed exactly
\* when shared, with the recorded intent, and with the disabled names of the
\* shared sources (docs/share.md: "the two never disagree").
Projection ==
    \A m \in Machines : settled[m] /\ landing[m] = Idle => Agrees(work[m], state[m])

\* Whatever lock the team's edits, merges and crashes leave, a fresh clone that
\* can install it holds a state whose own rewrite is that very lock: the
\* replay loses nothing, and the clone's first edit brings no change of its own.
Replayed ==
    \A lock \in {remote} \cup {work[m] : m \in Machines} :
        LET clone == FoldPrepared(FreshState, InstallRequest(lock)) IN
        Doubled(lock.entry) = {} => ProjectLockChange(lock, clone, clone) = lock

\* A rewrite leaves the entry of a source the machine records neither before
\* nor after it, and the disabled state of a name none of its shared sources
\* provides (teammateEntries).  A lock left without a source is deleted whole.
TeamStays(m) ==
    LET ours == OwnedHere(state[m], landing'[m]) IN
    landing[m] = Idle /\ landing'[m] # Idle =>
        /\ \A s \in Sources \ ours.identities : work'[m].entry[s] = work[m].entry[s]
        /\ work'[m] # AbsentLock =>
              \A n \in Names \ ours.names : n \in work'[m].disabled <=> n \in work[m].disabled
TeamKept == [][\A m \in Machines : TeamStays(m)]_vars

=============================================================================
