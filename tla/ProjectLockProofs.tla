------------------------- MODULE ProjectLockProofs -------------------------
(* Proofs about the project lock, for any number of machines, sources and    *)
(* names: the type invariant, that no verb but enable lets two sources own a *)
(* name that is on, that the lock projects the state, and what a rewrite     *)
(* leaves to the team.                                                       *)
EXTENDS ProjectLock, TLAPS

\* A state a verb may write.
Sound(st) ==
    /\ st \in State
    /\ st.shared \subseteq Listed(st.intent)

\* What a verb may write over a state: of the names that are on, only those two
\* sources provided before have two.
Follows(st, next) == Sound(next) /\ Clashing(next) \subseteq Doubled(st.intent)

\* The inductive invariant: what a verb has still to write follows the state it
\* was computed from and agrees with the lock written before it, and a pending
\* disable brings no source.
IInv ==
    /\ LockTypeOK
    /\ \A m \in Machines :
          /\ landing[m] # Idle => Follows(state[m], landing[m])
          /\ \A request \in jobs[m] : request.kind = "disable" => request.entries = NoEntries
          /\ settled[m] => Agrees(work[m], IF landing[m] = Idle THEN state[m] ELSE landing[m])

----------------------------------------------------------------------------
(* The rewrite. *)

LEMMA NamesTyped ==
    ASSUME NEW entries \in Entries, NEW S \in SUBSET Sources
    PROVE  NamesOf(entries, S) \subseteq Names
  BY ProjectLockAssumption DEF NamesOf, Listed, Entries, ProjectLockAssumption

LEMMA RewriteTyped ==
    ASSUME NEW current \in Lock, NEW previous \in State, NEW next \in State
    PROVE  LET lock == ProjectLockChange(current, previous, next)
           IN lock \in Lock /\ (Listed(lock.entry) = {} => lock = AbsentLock)
  <1> DEFINE lock == Merged(TeammateEntries(current, OwnedHere(previous, next)),
                            SharedProjection(next))
  <1>1. lock \in Lock
    BY DEF Merged, TeammateEntries, OwnedHere, SharedProjection, Lock, State, Entries
  <1>2. AbsentLock \in Lock
    BY DEF AbsentLock, NoEntries, Lock, Entries
  <1> QED BY <1>1, <1>2 DEF ProjectLockChange

LEMMA RewriteAgrees ==
    ASSUME NEW current \in Lock, NEW previous \in State, NEW next \in State,
           next.shared \subseteq Listed(next.intent)
    PROVE  Agrees(ProjectLockChange(current, previous, next), next)
  <1> DEFINE ours == OwnedHere(previous, next)
             theirs == TeammateEntries(current, ours)
             share == SharedProjection(next)
             lock == Merged(theirs, share)
  <1>1. \A s \in Listed(next.intent) : lock.entry[s] = share.entry[s]
    BY DEF Listed, OwnedHere, TeammateEntries, SharedProjection, Merged, State, Entries
  <1>2. lock.disabled \cap NamesOf(next.intent, next.shared) = share.disabled
    BY DEF OwnedHere, TeammateEntries, SharedProjection, Merged
  <1>3. CASE Listed(lock.entry) # {}
    BY <1>1, <1>2, <1>3 DEF ProjectLockChange, Agrees
  <1>4. CASE Listed(lock.entry) = {}
    <2>1. next.shared = {}
      BY <1>1, <1>4 DEF Listed, SharedProjection, State, Entries
    <2>2. NamesOf(next.intent, next.shared) = {}
      BY <2>1 DEF NamesOf
    <2>3. \A s \in Listed(next.intent) : share.entry[s] = NoIntent
      BY <2>1 DEF SharedProjection, Listed
    <2> QED BY <1>4, <2>2, <2>3 DEF ProjectLockChange, Agrees, AbsentLock, NoEntries, Listed,
                                    SharedProjection
  <1> QED BY <1>3, <1>4

LEMMA RewriteKeeps ==
    ASSUME NEW current \in Lock, NEW previous \in State, NEW next \in State,
           next.shared \subseteq Listed(next.intent)
    PROVE  LET lock == ProjectLockChange(current, previous, next)
               ours == OwnedHere(previous, next)
           IN /\ \A s \in Sources \ ours.identities : lock.entry[s] = current.entry[s]
              /\ lock # AbsentLock =>
                    \A n \in Names \ ours.names : n \in lock.disabled <=> n \in current.disabled
  <1> DEFINE ours == OwnedHere(previous, next)
             lock == Merged(TeammateEntries(current, ours), SharedProjection(next))
  <1>1. \A s \in Sources \ ours.identities : lock.entry[s] = current.entry[s]
    BY DEF OwnedHere, TeammateEntries, SharedProjection, Merged, Listed
  <1>2. \A n \in Names \ ours.names : n \in lock.disabled <=> n \in current.disabled
    BY DEF OwnedHere, TeammateEntries, SharedProjection, Merged
  <1>3. Listed(lock.entry) = {} => \A s \in Sources : lock.entry[s] = AbsentLock.entry[s]
    BY DEF Listed, AbsentLock, NoEntries
  <1> QED BY <1>1, <1>2, <1>3 DEF ProjectLockChange

----------------------------------------------------------------------------
(* What the verbs make of a sound state is sound, and follows it. *)

\* The names of two sources do not become more when the sources do not, each of
\* them keeps the names it has, and what a source gets no other has.
LEMMA DoubledShrinks ==
    ASSUME NEW entries \in Entries, NEW later \in Entries, NEW s \in Sources,
           \A t \in Sources \ {s} : later[t] \in {entries[t], NoIntent},
           later[s] = NoIntent \/ s \in Listed(entries),
           later[s] # NoIntent =>
               Resolves(entries, s, later[s], Sources \ {s})
    PROVE  Doubled(later) \subseteq Doubled(entries)
  <1> SUFFICES ASSUME NEW n \in Names, NEW t \in Listed(later), NEW u \in Listed(later), t # u,
                      n \in Provides[t][later[t]], n \in Provides[u][later[u]]
               PROVE  n \in Doubled(entries)
    BY DEF Doubled
  <1>1. t \in Listed(entries) /\ u \in Listed(entries)
    BY DEF Listed
  <1>2. \A x \in Listed(later) \ {s} : later[x] = entries[x]
    BY DEF Listed
  <1>3. ASSUME NEW x \in Listed(later), x # s, n \in Provides[x][later[x]],
               s \in Listed(later), n \in Provides[s][later[s]]
        PROVE  n \in Provides[s][entries[s]]
    <2>1. x \in Listed(entries) \cap (Sources \ {s}) /\ later[x] = entries[x] /\ later[s] # NoIntent
      BY <1>2, <1>3 DEF Listed
    <2>2. n \in NamesOf(entries, {s})
      BY <1>3, <2>1 DEF Resolves
    <2> QED BY <2>2 DEF NamesOf
  <1>4. n \in Provides[t][entries[t]] /\ n \in Provides[u][entries[u]]
    BY <1>2, <1>3
  <1> QED BY <1>1, <1>4 DEF Doubled

LEMMA FoldSound ==
    ASSUME NEW st, Sound(st), NEW prepared \in Jobs,
           prepared.shared \subseteq Listed(prepared.entries)
    PROVE  LET next == FoldPrepared(st, prepared)
           IN /\ Sound(next)
              /\ AdmitIntent(next) => Follows(st, next)
              /\ prepared.entries = NoEntries => Follows(st, next)
  <1> DEFINE next == FoldPrepared(st, prepared)
  <1>1. Sound(next)
    BY DEF Sound, FoldPrepared, DisableAtProject, Jobs, State, Entries, Listed
  <1>2. prepared.entries = NoEntries => next.intent = st.intent
    BY DEF Sound, FoldPrepared, Jobs, State, Entries, NoEntries
  <1> QED BY <1>1, <1>2 DEF Follows, AdmitIntent, Clashing

LEMMA ShareFollows ==
    ASSUME NEW st, Sound(st), NEW s \in Listed(st.intent), NEW shared \in BOOLEAN
    PROVE  Follows(st, WithShared(st, s, shared))
  BY DEF Follows, Clashing, Sound, WithShared, State, Listed

LEMMA EditSound ==
    ASSUME NEW st, Sound(st), NEW s \in Listed(st.intent), NEW i \in Intents
    PROVE  Sound(WithIntent(st, s, i))
  BY ProjectLockAssumption DEF Sound, WithIntent, State, Entries, Listed, ProjectLockAssumption

\* An edit of one source that takes no name another has.
LEMMA EditFollows ==
    ASSUME NEW st, Sound(st), NEW s \in Listed(st.intent), NEW i \in Intents,
           Resolves(st.intent, s, i, Sources \ {s})
    PROVE  Follows(st, WithIntent(st, s, i))
  <1> DEFINE next == WithIntent(st, s, i)
  <1>1. Sound(next)
    BY EditSound
  <1>2. next.intent = [st.intent EXCEPT ![s] = i] /\ st.intent \in Entries /\ s \in Sources
    BY DEF Sound, WithIntent, State, Listed
  <1>3. Doubled(next.intent) \subseteq Doubled(st.intent)
    <2>1. next.intent \in Entries /\ next.intent[s] = i
      BY <1>1, <1>2 DEF Sound, State, Entries
    <2>2. \A t \in Sources \ {s} : next.intent[t] \in {st.intent[t], NoIntent}
      BY <1>2 DEF Entries
    <2> HIDE DEF next
    <2>3. Resolves(st.intent, s, next.intent[s], Sources \ {s})
      BY <2>1
    <2> QED BY <1>2, <2>1, <2>2, <2>3, DoubledShrinks
  <1> QED BY <1>1, <1>3 DEF Follows, Clashing

LEMMA RemovalFollows ==
    ASSUME NEW st, Sound(st), NEW s \in Listed(st.intent)
    PROVE  Follows(st, WithoutSource(st, s))
  <1> DEFINE next == WithoutSource(st, s)
  <1>1. next \in State
    BY DEF Sound, WithoutSource, WithIntent, State, Entries
  <1>2. /\ Listed(next.intent) = Listed(st.intent) \ {s}
        /\ \A t \in Listed(next.intent) : next.intent[t] = st.intent[t]
        /\ next.shared = st.shared \ {s}
    BY DEF Sound, WithoutSource, WithIntent, State, Entries, Listed
  <1>3. Doubled(next.intent) \subseteq Doubled(st.intent)
    BY <1>2 DEF Doubled
  <1> QED BY <1>1, <1>2, <1>3 DEF Sound, Follows, Clashing

\* What enable switches on had its sources before.
LEMMA EnableFollows ==
    ASSUME NEW st, Sound(st), NEW n
    PROVE  Follows(st, [st EXCEPT !.disabled = @ \ {n}])
  BY DEF Follows, Clashing, Sound, State, Listed

----------------------------------------------------------------------------
(* The invariant. *)

LEMMA InitInv == Init => IInv
  <1> SUFFICES ASSUME Init PROVE IInv
    OBVIOUS
  <1> USE DEF Init
  <1>1. NoEntries \in Entries /\ Listed(NoEntries) = {}
    BY DEF NoEntries, Entries, Listed
  <1>2. AbsentLock \in Lock /\ FreshState \in State
    BY <1>1 DEF AbsentLock, Lock, FreshState, State
  <1>3. LockTypeOK
    BY <1>1, <1>2 DEF LockTypeOK, FreshState, AbsentLock
  <1> QED BY <1>3 DEF IInv

\* A verb that rewrites the lock for a state to come that follows the one there,
\* and leaves no new request.
LEMMA UpdateInv ==
    ASSUME IInv, NEW m \in Machines, NEW next, Follows(state[m], next), UpdateIntent(m, next),
           jobs' \in [Machines -> SUBSET Jobs], \A x \in Machines : jobs'[x] \subseteq jobs[x]
    PROVE  IInv'
  <1> USE DEF UpdateIntent, HoldsStoreLock
  <1> DEFINE lock == ProjectLockChange(work[m], state[m], next)
  <1>1. lock \in Lock /\ (Listed(lock.entry) = {} => lock = AbsentLock)
    BY RewriteTyped DEF IInv, LockTypeOK, Follows, Sound
  <1>2. Agrees(lock, next)
    BY RewriteAgrees DEF IInv, LockTypeOK, Follows, Sound
  <1>3. next # Idle /\ next \in State
    BY IdleAssumption DEF Follows, Sound
  <1>5. \A x \in Machines : \A request \in jobs'[x] :
           /\ request.shared \subseteq Listed(request.entries)
           /\ request.kind = "disable" => request.entries = NoEntries
    BY DEF IInv, LockTypeOK
  <1>6. LockTypeOK'
    <2> HIDE DEF lock
    <2>1. work' = [work EXCEPT ![m] = lock]
      BY DEF lock
    <2>2. /\ work' \in [Machines -> Lock] /\ landing' \in [Machines -> State \cup {Idle}]
          /\ settled' \in [Machines -> BOOLEAN] /\ verbs' \in Nat
      BY <1>1, <1>3, <2>1 DEF IInv, LockTypeOK
    <2>3. \A x \in Machines : Listed(work'[x].entry) = {} => work'[x] = AbsentLock
      BY <1>1, <2>1 DEF IInv, LockTypeOK
    <2>4. state' = state /\ remote' = remote
      OBVIOUS
    <2>5. \A l \in {remote'} \cup {work'[x] : x \in Machines} :
             Listed(l.entry) = {} => l = AbsentLock
      BY <2>3, <2>4 DEF IInv, LockTypeOK
    <2> QED BY <1>5, <2>2, <2>4, <2>5 DEF IInv, LockTypeOK
  <1>8. ASSUME NEW x \in Machines
        PROVE  /\ landing'[x] # Idle => Follows(state'[x], landing'[x])
               /\ settled'[x] =>
                     Agrees(work'[x], IF landing'[x] = Idle THEN state'[x] ELSE landing'[x])
    <2>1. CASE x = m
      BY <1>2, <1>3, <2>1 DEF IInv, LockTypeOK
    <2>2. CASE x # m
      BY <2>2 DEF IInv, LockTypeOK
    <2> QED BY <2>1, <2>2
  <1> QED BY <1>5, <1>6, <1>8 DEF IInv

\* Steps that leave the states and the locks alone.
LEMMA JobInv ==
    ASSUME IInv, NEW m \in Machines, NEW request \in Jobs,
           request.shared \subseteq Listed(request.entries),
           request.kind = "disable" => request.entries = NoEntries,
           jobs' = [jobs EXCEPT ![m] = @ \cup {request}],
           UNCHANGED <<state, work, remote, landing, settled, verbs>>
    PROVE  IInv'
  <1>1. /\ jobs' \in [Machines -> SUBSET Jobs]
        /\ \A x \in Machines : \A r \in jobs'[x] : r \in jobs[x] \/ r = request
    BY DEF IInv, LockTypeOK
  <1> QED BY <1>1 DEF IInv, LockTypeOK

LEMMA StateSound ==
    ASSUME IInv, NEW m \in Machines
    PROVE  /\ Sound(state[m])
           /\ \A request \in jobs[m] :
                 request \in Jobs /\ request.shared \subseteq Listed(request.entries)
  BY DEF IInv, LockTypeOK, Sound

LEMMA DoneTyped ==
    ASSUME IInv, NEW m \in Machines, NEW request, Done(m, request) \/ jobs' = jobs
    PROVE  jobs' \in [Machines -> SUBSET Jobs] /\ \A x \in Machines : jobs'[x] \subseteq jobs[x]
  BY DEF IInv, LockTypeOK, Done

LEMMA PrepareInv ==
    ASSUME IInv, NEW m \in Machines, PrepareAdd(m) \/ PrepareInstall(m) \/ PrepareDisable(m) \/ GiveUp(m)
    PROVE  IInv'
  <1> USE DEF Prepare
  <1>1. CASE PrepareAdd(m)
    <2>1. PICK s \in Sources, i \in Intents, share \in BOOLEAN :
             Prepare(m, AddRequest(work[m], s, i, share))
      BY <1>1 DEF PrepareAdd
    <2>2. /\ AddRequest(work[m], s, i, share) \in Jobs
          /\ AddRequest(work[m], s, i, share).shared
                \subseteq Listed(AddRequest(work[m], s, i, share).entries)
          /\ AddRequest(work[m], s, i, share).kind # "disable"
      BY ProjectLockAssumption
      DEF AddRequest, ListedInLock, Jobs, NoEntries, Entries, Listed, ProjectLockAssumption
    <2> QED BY <2>1, <2>2, JobInv
  <1>2. CASE PrepareInstall(m)
    <2>1. /\ InstallRequest(work[m]) \in Jobs
          /\ InstallRequest(work[m]).shared \subseteq Listed(InstallRequest(work[m]).entries)
          /\ InstallRequest(work[m]).kind # "disable"
      BY DEF IInv, LockTypeOK, Lock, InstallRequest, Jobs, Listed
    <2> QED BY <1>2, <2>1, JobInv DEF PrepareInstall
  <1>3. CASE PrepareDisable(m)
    <2>1. PICK n \in NamesOf(state[m].intent, Sources) : Prepare(m, DisableRequest(n))
      BY <1>3 DEF PrepareDisable
    <2>2. n \in Names
      BY NamesTyped, StateSound DEF Sound, State
    <2>3. DisableRequest(n) \in Jobs /\ DisableRequest(n).shared = {}
            /\ DisableRequest(n).entries = NoEntries
      BY <2>2 DEF DisableRequest, Jobs, NoEntries, Entries
    <2> QED BY <2>1, <2>3, JobInv
  <1>4. CASE GiveUp(m)
    <2>1. jobs' \in [Machines -> SUBSET Jobs] /\ \A x \in Machines : jobs'[x] \subseteq jobs[x]
      BY <1>4, DoneTyped DEF GiveUp
    <2> QED BY <1>4, <2>1 DEF GiveUp, IInv, LockTypeOK
  <1> QED BY <1>1, <1>2, <1>3, <1>4

\* Every verb that rewrites the lock does so for a state that follows the one there.
LEMMA Rewrites ==
    ASSUME IInv, NEW m \in Machines,
           \/ CommitAdd(m) \/ CommitDisable(m)
           \/ Enable(m) \/ Share(m) \/ Link(m) \/ Trim(m) \/ Rename(m) \/ RemoveSource(m)
    PROVE  \E next : /\ Follows(state[m], next) /\ UpdateIntent(m, next)
                     /\ jobs' \in [Machines -> SUBSET Jobs]
                     /\ \A x \in Machines : jobs'[x] \subseteq jobs[x]
  <1>0. Sound(state[m])
    BY StateSound
  <1>1. CASE CommitAdd(m)
    <2>1. PICK request \in jobs[m] :
             /\ AdmitIntent(FoldPrepared(state[m], request))
             /\ UpdateIntent(m, FoldPrepared(state[m], request))
             /\ Done(m, request)
      BY <1>1 DEF CommitAdd
    <2> QED BY <1>0, <2>1, FoldSound, StateSound, DoneTyped
  <1>2. CASE CommitDisable(m)
    <2>1. PICK request \in jobs[m] :
             /\ request.kind = "disable"
             /\ UpdateIntent(m, FoldPrepared(state[m], request))
             /\ Done(m, request)
      BY <1>2 DEF CommitDisable
    <2>2. request.entries = NoEntries
      BY <2>1 DEF IInv
    <2> QED BY <1>0, <2>1, <2>2, FoldSound, StateSound, DoneTyped
  <1>3. CASE Enable(m)
    BY <1>0, <1>3, EnableFollows, DoneTyped DEF Enable
  <1>4. CASE Share(m)
    BY <1>0, <1>4, ShareFollows, DoneTyped DEF Share
  <1>5. CASE Link(m) \/ Trim(m) \/ Rename(m)
    <2>1. PICK s \in Listed(state[m].intent), i \in Intents :
             /\ \/ Provides[s][i] \subseteq NamesOf(state[m].intent, {s})
                \/ Resolves(state[m].intent, s, i, Sources \ {s})
             /\ UpdateIntent(m, WithIntent(state[m], s, i))
             /\ UNCHANGED jobs
      BY <1>5 DEF Link, Trim, Rename
    <2>2. Resolves(state[m].intent, s, i, Sources \ {s})
      BY <2>1 DEF Resolves
    <2> QED BY <1>0, <2>1, <2>2, EditFollows, DoneTyped
  <1>6. CASE RemoveSource(m)
    BY <1>0, <1>6, RemovalFollows, DoneTyped DEF RemoveSource
  <1> QED BY <1>1, <1>2, <1>3, <1>4, <1>5, <1>6

LEMMA RewriteInv ==
    ASSUME IInv, NEW m \in Machines,
           \/ CommitAdd(m) \/ CommitDisable(m)
           \/ Enable(m) \/ Share(m) \/ Link(m) \/ Trim(m) \/ Rename(m) \/ RemoveSource(m)
    PROVE  IInv'
  BY Rewrites, UpdateInv

\* install writes no lock.
LEMMA InstallInv ==
    ASSUME IInv, NEW m \in Machines, CommitInstall(m)
    PROVE  IInv'
  <1> USE DEF HoldsStoreLock
  <1>0. PICK request \in jobs[m] :
           /\ AdmitIntent(FoldPrepared(state[m], request))
           /\ HoldsStoreLock(m)
           /\ landing' = [landing EXCEPT ![m] = FoldPrepared(state[m], request)]
           /\ settled' = [settled EXCEPT ![m] = FALSE]
           /\ Done(m, request)
           /\ UNCHANGED <<state, work, remote>>
    BY DEF CommitInstall
  <1> DEFINE next == FoldPrepared(state[m], request)
  <1>1. Follows(state[m], next) /\ next \in State /\ next # Idle
    BY <1>0, FoldSound, StateSound, IdleAssumption DEF Follows, Sound
  <1>2. jobs' \in [Machines -> SUBSET Jobs] /\ \A x \in Machines : jobs'[x] \subseteq jobs[x]
    BY <1>0, DoneTyped
  <1> HIDE DEF next
  <1>3. landing' = [landing EXCEPT ![m] = next]
    BY <1>0 DEF next
  <1>4. LockTypeOK'
    <2>1. /\ landing' \in [Machines -> State \cup {Idle}]
          /\ settled' \in [Machines -> BOOLEAN] /\ verbs' \in Nat
      BY <1>0, <1>1, <1>3 DEF IInv, LockTypeOK
    <2>2. \A x \in Machines : \A r \in jobs'[x] : r.shared \subseteq Listed(r.entries)
      BY <1>2 DEF IInv, LockTypeOK
    <2> QED BY <1>0, <1>2, <2>1, <2>2 DEF IInv, LockTypeOK
  <1>5. ASSUME NEW x \in Machines
        PROVE  /\ landing'[x] # Idle => Follows(state'[x], landing'[x])
               /\ \A r \in jobs'[x] : r.kind = "disable" => r.entries = NoEntries
               /\ settled'[x] =>
                     Agrees(work'[x], IF landing'[x] = Idle THEN state'[x] ELSE landing'[x])
    <2>1. CASE x = m
      BY <1>0, <1>1, <1>2, <1>3, <2>1 DEF IInv, LockTypeOK
    <2>2. CASE x # m
      BY <1>0, <1>2, <1>3, <2>2 DEF IInv, LockTypeOK
    <2> QED BY <2>1, <2>2
  <1> QED BY <1>4, <1>5 DEF IInv

LEMMA LandInv ==
    ASSUME IInv, NEW m \in Machines, Land(m) \/ Kill(m)
    PROVE  IInv'
  <1>0. landing[m] # Idle /\ Sound(landing[m])
    BY DEF IInv, Land, Kill, Follows
  <1>1. CASE Land(m)
    <2> USE <1>1 DEF Land
    <2>1. LockTypeOK'
      BY <1>0 DEF IInv, LockTypeOK, Sound
    <2>2. ASSUME NEW x \in Machines
          PROVE  /\ landing'[x] # Idle => Follows(state'[x], landing'[x])
                 /\ settled'[x] =>
                       Agrees(work'[x], IF landing'[x] = Idle THEN state'[x] ELSE landing'[x])
      <3>1. CASE x = m
        BY <1>0, <3>1 DEF IInv, LockTypeOK
      <3>2. CASE x # m
        BY <3>2 DEF IInv, LockTypeOK
      <3> QED BY <3>1, <3>2
    <2> QED BY <2>1, <2>2 DEF IInv
  <1>2. CASE Kill(m)
    BY <1>2 DEF Kill, IInv, LockTypeOK
  <1> QED BY <1>1, <1>2

LEMMA GitInv ==
    ASSUME IInv, NEW m \in Machines, Push(m) \/ Pull(m)
    PROVE  IInv'
  <1>1. CASE Push(m)
    BY <1>1 DEF Push, IInv, LockTypeOK
  <1>2. CASE Pull(m)
    <2>1. PICK lock \in MergeOf(work[m], remote) : work' = [work EXCEPT ![m] = lock]
      BY <1>2 DEF Pull
    <2>2. lock \in Lock /\ (Listed(lock.entry) = {} => lock = AbsentLock)
      <3>1. PICK S \in SUBSET Sources, D \in SUBSET (work[m].disabled \cup remote.disabled) :
               lock = [entry |-> [s \in Sources |-> IF s \in S THEN remote.entry[s]
                                                                ELSE work[m].entry[s]],
                       disabled |-> (work[m].disabled \cap remote.disabled) \cup D]
        BY DEF MergeOf
      <3>2. work[m] \in Lock /\ remote \in Lock
        BY DEF IInv, LockTypeOK
      <3>3. lock \in Lock
        BY <3>1, <3>2 DEF Lock, Entries
      <3> QED BY <3>3 DEF MergeOf
    <2>3. LockTypeOK'
      BY <1>2, <2>1, <2>2 DEF Pull, IInv, LockTypeOK
    <2> QED BY <1>2, <2>1, <2>3 DEF Pull, IInv, LockTypeOK
  <1> QED BY <1>1, <1>2

LEMMA StepInv == IInv /\ [Next]_vars => IInv'
  <1> SUFFICES ASSUME IInv, [Next]_vars PROVE IInv'
    OBVIOUS
  <1>1. CASE Next
    BY <1>1, PrepareInv, RewriteInv, InstallInv, LandInv, GitInv DEF Next
  <1>2. CASE UNCHANGED vars
    BY <1>2 DEF vars, IInv, LockTypeOK
  <1> QED BY <1>1, <1>2

\* The inductive invariant holds in every reachable state.
THEOREM Invariance == Spec => []IInv
  BY InitInv, StepInv, PTL DEF Spec

\* The variables of the project lock keep their types.
THEOREM TypeCorrectness == Spec => []LockTypeOK
  <1>1. IInv => LockTypeOK
    BY DEF IInv
  <1> QED BY <1>1, Invariance, PTL

\* The one step that writes a machine's state.
LEMMA OnlyLandWrites ==
    ASSUME [Next]_vars
    PROVE  UNCHANGED state \/ \E x \in Machines : Land(x)
  <1>1. ASSUME NEW m \in Machines,
               PrepareAdd(m) \/ PrepareInstall(m) \/ PrepareDisable(m) \/ GiveUp(m)
        PROVE  UNCHANGED state
    BY <1>1 DEF PrepareAdd, PrepareInstall, PrepareDisable, Prepare, GiveUp
  <1>2. ASSUME NEW m \in Machines, CommitAdd(m) \/ CommitInstall(m) \/ CommitDisable(m)
        PROVE  UNCHANGED state
    BY <1>2 DEF CommitAdd, CommitInstall, CommitDisable, UpdateIntent
  <1>3. ASSUME NEW m \in Machines,
               Enable(m) \/ Share(m) \/ Link(m) \/ Trim(m) \/ Rename(m) \/ RemoveSource(m)
        PROVE  UNCHANGED state
    BY <1>3 DEF Enable, Share, Link, Trim, Rename, RemoveSource, UpdateIntent
  <1>4. ASSUME NEW m \in Machines, Kill(m) \/ Push(m) \/ Pull(m)
        PROVE  UNCHANGED state
    BY <1>4 DEF Kill, Push, Pull
  <1> QED BY <1>1, <1>2, <1>3, <1>4 DEF Next, vars

\* No step but one that switches a name on brings a machine to a state in which
\* two sources provide a name that is on, however add, install and the other verbs
\* interleave before they take the store's lock.
THEOREM ClashesAdmitted == Spec => NoNewClash
  <1>1. ASSUME IInv, [Next]_vars, NEW m \in Machines
        PROVE  Clashing(state'[m]) \subseteq Doubled(state[m].intent)
    <2>1. CASE UNCHANGED state
      BY <2>1 DEF Clashing
    <2>2. CASE \E x \in Machines : Land(x)
      <3>1. PICK x \in Machines : Land(x)
        BY <2>2
      <3>2. CASE x = m
        BY <1>1, <3>1, <3>2 DEF Land, IInv, LockTypeOK, Follows
      <3>3. CASE x # m
        BY <1>1, <3>1, <3>3 DEF Land, IInv, LockTypeOK, Clashing
      <3> QED BY <3>2, <3>3
    <2> QED BY <1>1, <2>1, <2>2, OnlyLandWrites
  <1>2. IInv /\ [Next]_vars =>
            [\A m \in Machines : Clashing(state'[m]) \subseteq Doubled(state[m].intent)]_vars
    BY <1>1
  <1> QED BY <1>2, Invariance, PTL DEF Spec, NoNewClash

\* The lock projects the state of the machine that wrote it last.
THEOREM Projected == Spec => []Projection
  <1>1. IInv => Projection
    BY DEF IInv, Projection
  <1> QED BY <1>1, Invariance, PTL

\* A clone that can install a lock holds a state whose own rewrite is that lock.
THEOREM Replays == Spec => []Replayed
  <1>1. ASSUME NEW lock \in Lock, Listed(lock.entry) = {} => lock = AbsentLock
        PROVE  LET clone == FoldPrepared(FreshState, InstallRequest(lock))
               IN ProjectLockChange(lock, clone, clone) = lock
    <2> DEFINE clone == FoldPrepared(FreshState, InstallRequest(lock))
               ours == OwnedHere(clone, clone)
               merged == Merged(TeammateEntries(lock, ours), SharedProjection(clone))
    <2>1. /\ clone.intent = lock.entry
          /\ clone.shared = Listed(lock.entry)
          /\ clone.disabled = lock.disabled
      BY DEF FoldPrepared, DisableAtProject, FreshState, InstallRequest, NoEntries, Lock, Entries, Listed
    <2>2. merged.entry = lock.entry
      BY <2>1 DEF Merged, TeammateEntries, OwnedHere, SharedProjection, Listed, Lock, Entries
    <2>3. merged.disabled = lock.disabled
      BY <2>1 DEF Merged, TeammateEntries, OwnedHere, SharedProjection
    <2>4. merged = lock
      BY <2>2, <2>3 DEF Merged, Lock
    <2> QED BY <1>1, <2>4 DEF ProjectLockChange
  <1>2. IInv => Replayed
    BY <1>1 DEF IInv, LockTypeOK, Replayed
  <1> QED BY <1>2, Invariance, PTL

\* No rewrite of the lock drops a teammate's entry or switches a name that is
\* none of the machine's own.
THEOREM TeamSafe == Spec => TeamKept
  <1>1. ASSUME IInv, NEW x \in Machines, NEW m \in Machines, NEW next,
               Follows(state[x], next), UpdateIntent(x, next)
        PROVE  TeamStays(m)
    <2>1. CASE m = x
      <3>1. /\ work[m] \in Lock /\ state[m] \in State
            /\ next \in State /\ next.shared \subseteq Listed(next.intent)
        BY <1>1 DEF IInv, LockTypeOK, Follows, Sound
      <3>2. /\ work'[m] = ProjectLockChange(work[m], state[m], next)
            /\ landing'[m] = next
        BY <1>1, <2>1 DEF UpdateIntent, IInv, LockTypeOK
      <3> QED BY <3>1, <3>2, RewriteKeeps DEF TeamStays
    <2>2. CASE m # x
      BY <1>1, <2>2 DEF UpdateIntent, IInv, LockTypeOK, TeamStays
    <2> QED BY <2>1, <2>2
  <1>2. ASSUME IInv, [Next]_vars, NEW m \in Machines PROVE TeamStays(m)
    <2>1. CASE \E x \in Machines :
                 \/ CommitAdd(x) \/ CommitDisable(x)
                 \/ Enable(x) \/ Share(x) \/ Link(x) \/ Trim(x) \/ Rename(x) \/ RemoveSource(x)
      BY <1>1, <1>2, <2>1, Rewrites
    <2>2. CASE \E x \in Machines : CommitInstall(x)
      BY <2>2 DEF CommitInstall, TeamStays
    <2>3. CASE \E x \in Machines : Land(x) \/ Kill(x)
      BY <1>2, <2>3 DEF Land, Kill, TeamStays, IInv, LockTypeOK
    <2>4. CASE UNCHANGED landing
      BY <2>4 DEF TeamStays
    <2> QED BY <1>2, <2>1, <2>2, <2>3, <2>4
            DEF Next, PrepareAdd, PrepareInstall, PrepareDisable, Prepare, GiveUp, Push, Pull, vars
  <1>3. IInv /\ [Next]_vars => [\A m \in Machines : TeamStays(m)]_vars
    BY <1>2
  <1> QED BY <1>3, Invariance, PTL DEF Spec, TeamKept

=============================================================================
