---------------------------- MODULE IntentStore ----------------------------
(***************************************************************************)
(* The intent store of src/state/store.ts, with the two ways the commands  *)
(* use it: updateIntent (src/commands/frame/cli-context.ts), the commit    *)
(* point of add, remove, disable, review and accept, and the sync that     *)
(* rewrites the fetch facts (src/commands/sync.ts).  Writers read, settle, *)
(* compute and write behind the store lock, of which this module sees only *)
(* what RevocableLock promises; readers take it only to settle a file that *)
(* is corrupt or due for migration.                                        *)
(***************************************************************************)
EXTENDS RevocableLock, FiniteSets

CONSTANTS Sources,      \* source keys
          MaxRev,       \* bound: a source entry is a revision in 1..MaxRev
          MaxDamage,    \* bound: times a user or a bad disk garbles the file
          StartKinds,   \* what may be at state.json before the first command
          Verbs,        \* the commands that may run
          StateIsLink   \* state.json starts as a symbolic link

ASSUME StoreAssumption ==
    /\ MaxRev \in Nat \ {0}
    /\ MaxDamage \in Nat
    /\ StartKinds \subseteq {"absent", "current", "older", "ancient", "newer", "garbage"}
    /\ Verbs \subseteq {"add", "remove", "sync", "newer"}
    /\ StateIsLink \in BOOLEAN

VARIABLES disk,      \* what is at state.json
          linked,    \* state.json is a symbolic link
          setAside,  \* files moved to state.json.corrupt-<stamp>
          stage,     \* where each process stands in its command
          job,       \* the command each process runs
          seen,      \* what each process made of the file under the lock
          damage     \* damages so far

storeVars == <<disk, linked, setAside, stage, job, seen, damage>>

\* The intent: 0 for a source that is not added, else its recorded revision.
Docs == [Sources -> 0..MaxRev]

NoIntent == [s \in Sources |-> 0]

Added(doc) == {s \in Sources : doc[s] # 0}

\* older: a version the ladder climbs from.  ancient: one below its first rung.
FileKinds == {"absent", "current", "older", "ancient", "newer", "garbage"}

Files == [kind : FileKinds, doc : Docs]

File(kind, doc) == [kind |-> kind, doc |-> doc]

Absent == File("absent", NoIntent)

\* The intent a file holds for a maxims that obeys it.
Meaning(file) == IF file.kind \in {"absent", "ancient", "garbage"} THEN NoIntent ELSE file.doc

Jobs ==
    [kind : {"add", "remove"}, source : Sources]
        \union [kind : {"sync", "read", "newer"}, source : {"any"}]

NoJob == [kind |-> "read", source |-> "any"]

\* add, remove: a command that ends in updateIntent.  newer: a later maxims
\* that shares the home and writes its own version of the file.
Updates == {"add", "remove"}

Stages == {"out", "wait", "ready", "settle", "compute", "done"}

\* What inspectStateFile makes of the bytes; mutations call for settling.
Verdicts == {"absent", "current", "newer", "migrated", "corrupt", "quarantined"}

Inspect(file) ==
    [kind |-> CASE file.kind = "older" -> "migrated"
                [] file.kind \in {"ancient", "garbage"} -> "corrupt"
                [] OTHER -> file.kind,
     doc  |-> Meaning(file)]

IsMutation(verdict) == verdict.kind \in {"migrated", "corrupt"}

StoreInit ==
    /\ LockInit
    /\ disk \in {f \in Files : f.kind \in StartKinds /\ f.doc = Meaning(f)}
    /\ linked = (StateIsLink /\ disk # Absent)
    /\ setAside = {}
    /\ stage = [p \in Procs |-> "out"]
    /\ job = [p \in Procs |-> NoJob]
    /\ seen = [p \in Procs |-> Inspect(Absent)]
    /\ damage = 0

Goto(p, to) == stage' = [stage EXCEPT ![p] = to]

\* The command is over.
Forget(p) ==
    /\ Goto(p, "out")
    /\ job' = [job EXCEPT ![p] = NoJob]
    /\ seen' = [seen EXCEPT ![p] = Inspect(Absent)]

\* Seeded fault: an update obeys a file from a newer maxims.
GoesOnNewer(kind, verdict) ==
    \/ kind = "newer"
    \/ kind \in Updates
    \/ kind = "sync" /\ verdict.kind \in {"current", "migrated"}

\* Whether the command goes on once the file under the lock is settled: a
\* newer file stops everything but the newer maxims, an absent or quarantined
\* one stops a sync and is an empty intent to the others.
GoesOn(kind, verdict) ==
    \/ kind = "newer"
    \/ kind \in Updates /\ verdict.kind # "newer"
    \/ kind = "sync" /\ verdict.kind \in {"current", "migrated"}

\* The documents a command may write over the one it read.
Outcomes(j, doc) ==
    CASE j.kind = "add" -> {[doc EXCEPT ![j.source] = r] : r \in 1..MaxRev}
      [] j.kind = "remove" -> {[doc EXCEPT ![j.source] = 0]}
      [] OTHER -> {d \in Docs : Added(d) = Added(doc)}

WrittenKind(j) == IF j.kind = "newer" THEN "newer" ELSE "current"

----------------------------------------------------------------------------
(* Commands outside the lock                                               *)

Request(p, j) ==
    /\ stage[p] = "out"
    /\ job' = [job EXCEPT ![p] = j]
    /\ Goto(p, "wait")
    /\ UNCHANGED <<disk, linked, setAside, seen, damage>>

\* A verb that will write under the lock.
Begin(p) == \E j \in Jobs : j.kind \in Verbs /\ Request(p, j)

\* readState: the lock-free reading takes the lock only for a mutation, and
\* what it read is forgotten then.
ReadOutside(p) ==
    /\ IsMutation(Inspect(disk))
    /\ Request(p, NoJob)

\* StoreLocked: exit 5, a skipped hook, or the lock-free report of a reader.
Refused(p) ==
    /\ stage[p] = "wait"
    /\ Forget(p)
    /\ UNCHANGED <<disk, linked, setAside, damage>>

----------------------------------------------------------------------------
(* Steps under the lock                                                    *)

Under(p, from) == p \in holders /\ stage[p] = from

\* Seeded fault: the second reading under the lock is skipped.
ReadUnderLockTrusted(p) ==
    /\ Under(p, "ready")
    /\ seen' = [seen EXCEPT ![p] = IF job[p].kind = "read" THEN [kind |-> "corrupt", doc |-> NoIntent]
                                   ELSE Inspect(disk)]
    /\ Goto(p, IF IsMutation(seen'[p]) THEN "settle"
               ELSE IF GoesOn(job[p].kind, Inspect(disk)) THEN "compute" ELSE "done")
    /\ UNCHANGED <<disk, linked, setAside, job, damage>>

\* readUnderLock, up to the decision of what the bytes call for.
ReadUnderLock(p) ==
    /\ Under(p, "ready")
    /\ seen' = [seen EXCEPT ![p] = Inspect(disk)]
    /\ Goto(p, IF IsMutation(Inspect(disk)) THEN "settle"
               ELSE IF GoesOn(job[p].kind, Inspect(disk)) THEN "compute" ELSE "done")
    /\ UNCHANGED <<disk, linked, setAside, job, damage>>

\* rename to state.json.corrupt-<stamp>; a file that is gone makes it throw.
Quarantine(p) ==
    /\ Under(p, "settle")
    /\ seen[p].kind = "corrupt"
    /\ IF disk.kind = "absent"
       THEN /\ Goto(p, "done")
            /\ UNCHANGED <<disk, linked, setAside, seen>>
       ELSE /\ setAside' = setAside \union {disk}
            /\ disk' = Absent
            /\ linked' = FALSE
            /\ seen' = [seen EXCEPT ![p].kind = "quarantined"]
            /\ Goto(p, IF GoesOn(job[p].kind, seen'[p]) THEN "compute" ELSE "done")
    /\ UNCHANGED <<job, damage>>

\* writeFileAtomic unlinks a link at the destination before its rename.
DropLink(p) ==
    /\ \/ Under(p, "settle") /\ seen[p].kind = "migrated"
       \/ Under(p, "compute")
    /\ linked
    /\ linked' = FALSE
    /\ disk' = Absent
    /\ UNCHANGED <<setAside, stage, job, seen, damage>>

\* The migrated document is written back before anyone obeys it.
WriteBack(p) ==
    /\ Under(p, "settle")
    /\ seen[p].kind = "migrated"
    /\ ~linked
    /\ disk' = File("current", seen[p].doc)
    /\ Goto(p, IF GoesOn(job[p].kind, seen[p]) THEN "compute" ELSE "done")
    /\ UNCHANGED <<linked, setAside, job, seen, damage>>

\* The state write that ends updateIntent or a sync plan, over the document
\* read under the lock.
Write(p) ==
    /\ Under(p, "compute")
    /\ ~linked
    /\ \E doc \in Outcomes(job[p], seen[p].doc) : disk' = File(WrittenKind(job[p]), doc)
    /\ Goto(p, "done")
    /\ UNCHANGED <<linked, setAside, job, seen, damage>>

\* A sync whose plan leaves the state as it is, or a verb that refuses.
Skip(p) ==
    /\ Under(p, "compute")
    /\ Goto(p, "done")
    /\ UNCHANGED <<disk, linked, setAside, job, seen, damage>>

Inner(p) ==
    \/ ReadUnderLock(p) \/ Quarantine(p) \/ DropLink(p)
    \/ WriteBack(p) \/ Write(p) \/ Skip(p)

\* A corrupt disk or a hand edit, taken to happen while no writer is inside.
Damage ==
    /\ holders = {}
    /\ disk.kind # "garbage"
    /\ damage < MaxDamage
    /\ damage' = damage + 1
    /\ disk' = File("garbage", NoIntent)
    /\ UNCHANGED <<linked, setAside, stage, job, seen>>

----------------------------------------------------------------------------
(* The lock                                                                *)

\* Seeded fault: the command runs whether or not it got the lock.
EnterUnlocked(p) ==
    /\ stage[p] = "wait"
    /\ Goto(p, "ready")
    /\ UNCHANGED <<lockVars, disk, linked, setAside, job, seen, damage>>

Enter(p) ==
    /\ stage[p] = "wait"
    /\ Acquire(p)
    /\ Goto(p, "ready")
    /\ UNCHANGED <<disk, linked, setAside, job, seen, damage>>

Exit(p) ==
    /\ Release(p)
    /\ Forget(p)
    /\ UNCHANGED <<disk, linked, setAside, damage>>

Leave(p) == stage[p] = "done" /\ Exit(p)

\* A crash, a signal or an exception between two steps.
Abort(p) == stage[p] # "done" /\ Exit(p)

LockMoves ==
    /\ \/ Lapse
       \/ \E p \in Procs : Revoke(p) \/ Restore(p)
    /\ UNCHANGED storeVars

StoreNext ==
    \/ \E p \in Procs :
        \/ (Begin(p) \/ ReadOutside(p) \/ Refused(p) \/ Inner(p)) /\ UNCHANGED lockVars
        \/ Enter(p) \/ Leave(p) \/ Abort(p)
    \/ Damage /\ UNCHANGED lockVars
    \/ LockMoves

StoreSpec == StoreInit /\ [][StoreNext]_<<lockVars, storeVars>>

----------------------------------------------------------------------------
(* Properties                                                              *)

StoreTypeOK ==
    /\ LockTypeOK
    /\ disk \in Files
    /\ linked \in BOOLEAN
    /\ setAside \subseteq Files
    /\ stage \in [Procs -> Stages]
    /\ job \in [Procs -> Jobs]
    /\ seen \in [Procs -> [kind : Verdicts, doc : Docs]]
    /\ damage \in 0..MaxDamage
    /\ holders = {p \in Procs : stage[p] \notin {"out", "wait"}}

\* The intent changes only by whole commits, each made over the intent the
\* file held at that moment, so no update is lost and a migration loses
\* nothing, until a lock file has lapsed (updateIntent, settle).
AtomicIntent ==
    [][~lapsed /\ ~StateIsLink /\ Meaning(disk') # Meaning(disk) =>
        \/ \E p \in holders : /\ stage[p] = "compute"
                              /\ Meaning(disk') \in Outcomes(job[p], Meaning(disk))
        \/ damage' = damage + 1]_<<lockVars, storeVars>>

\* Only bytes no maxims can read are ever moved aside, however many readers
\* and writers met the file before (the comment at src/state/store.ts:50).
OnlyCorruptSetAside ==
    ~lapsed => \A file \in setAside : file.kind \in {"ancient", "garbage"}

\* A file written by a newer maxims is never overwritten or moved by this one
\* (intentFrom, src/commands/frame/cli-context.ts:88).
NewerKept ==
    [][~lapsed /\ ~StateIsLink /\ disk.kind = "newer" =>
        \/ disk' = disk
        \/ \E p \in holders : job[p].kind = "newer" /\ stage[p] = "compute"
        \/ damage' = damage + 1]_<<lockVars, storeVars>>

============================================================================
