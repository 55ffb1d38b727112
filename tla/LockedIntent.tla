---------------------------- MODULE LockedIntent ----------------------------
(***************************************************************************)
(* IntentStore behind the real lock: every lock step is one of StoreLock,  *)
(* every store step one of IntentStore, and a process is in the store code *)
(* exactly while its callback of withLock runs.                            *)
(***************************************************************************)
EXTENDS StoreLock

CONSTANTS Sources, MaxRev, MaxDamage, StartKinds, Verbs, StateIsLink

VARIABLES disk, linked, setAside, stage, job, seen, damage

Store == INSTANCE IntentStore WITH holders <- Holders, revoked <- Displaced

ASSUME StoreConstants == Store!StoreAssumption

storeVars == <<disk, linked, setAside, stage, job, seen, damage>>

LockedInit == Init /\ Store!StoreInit

\* withLock is called: by a verb, or by a reader that met a mutation.
Call(p) == Start(p) /\ (Store!Begin(p) \/ Store!ReadOutside(p))

Locked(p) == Create(p) /\ Store!Enter(p)

Inside(p) == pc[p] = "inside" /\ Store!Inner(p) /\ UNCHANGED vars

\* The callback settles; or throws, or the exit hook cuts it short.
Settled(p) == Finish(p) /\ (Store!Leave(p) \/ Store!Abort(p))

Unwritten(p) == WriteFails(p) /\ Store!Abort(p)

Barred(p) == GiveUp(p) /\ Store!Refused(p)

Killed(p) ==
    /\ Crash(p)
    /\ IF p \in Holders THEN Store!Leave(p) \/ Store!Abort(p)
       ELSE IF stage[p] = "wait" THEN Store!Refused(p)
       ELSE UNCHANGED storeVars

LockOnly(p) ==
    /\ \/ Occupied(p) \/ Retry(p) \/ Steal(p) \/ WriteRecord(p)
       \/ CheckOwn(p) \/ CheckForeign(p) \/ Unlink(p)
       \/ Heartbeat(p) \/ Silence(p)
    /\ UNCHANGED storeVars

LockedNext ==
    \/ \E p \in Procs :
        \/ Call(p) \/ Locked(p) \/ Inside(p) \/ Settled(p) \/ Unwritten(p)
        \/ Barred(p) \/ Killed(p) \/ LockOnly(p)
    \/ \E i \in Inodes : Outlive(i) /\ UNCHANGED storeVars
    \/ Store!Damage /\ UNCHANGED vars

LockedSpec == LockedInit /\ [][LockedNext]_<<vars, storeVars>>

----------------------------------------------------------------------------

\* The store behind the file protocol behaves as it does behind the promise.
Composes == Store!StoreSpec

\* "A wrongly stolen lock costs at worst a redundant rewrite"
\* (src/util/lock.ts:47, docs/guarantees.md:52): whatever was stolen, a commit
\* changes the intent the file holds, and never takes another commit back.
NoUpdateLost ==
    [][\A p \in Procs :
        (pc[p] = "inside" /\ stage[p] = "compute" /\ stage'[p] = "done" /\ disk' # disk)
            => Store!Meaning(disk') \in Store!Outcomes(job[p], Store!Meaning(disk))]_<<vars, storeVars>>

============================================================================
