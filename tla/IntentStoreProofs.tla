------------------------- MODULE IntentStoreProofs -------------------------
(***************************************************************************)
(* Proofs about RevocableLock and IntentStore, for any processes, sources  *)
(* and revisions.  The inductive invariant says that until some lock file  *)
(* has lapsed, what a process believes about state.json is what is there.  *)
(***************************************************************************)
EXTENDS IntentStore, TLAPS

----------------------------------------------------------------------------
(* The lock's promise                                                      *)

LockInv == LockTypeOK /\ Exclusion

LEMMA LockInitInv == LockInit => LockInv
  BY DEF LockInit, LockInv, LockTypeOK, Exclusion

LEMMA LockStepInv ==
  ASSUME LockInv, NEW p \in Procs,
         Acquire(p) \/ Release(p) \/ Revoke(p) \/ Restore(p) \/ Lapse \/ UNCHANGED lockVars
  PROVE  LockInv'
  <1> USE DEF LockInv, LockTypeOK, Exclusion
  <1>1. CASE Acquire(p)
    BY <1>1 DEF Acquire, Vacant
  <1>2. CASE Release(p)
    BY <1>2 DEF Release
  <1>3. CASE Revoke(p)
    BY <1>3 DEF Revoke
  <1>4. CASE Restore(p)
    BY <1>4 DEF Restore, Vacant
  <1>5. CASE Lapse \/ UNCHANGED lockVars
    BY <1>5 DEF Lapse, lockVars
  <1> QED BY <1>1, <1>2, <1>3, <1>4, <1>5

\* A lock that keeps the promise of RevocableLock is a mutex among the
\* holders it has not revoked, and among all of them until a file lapses.
THEOREM LockExclusion == LockSpec => []Exclusion
  <1>1. LockInv /\ [LockNext]_lockVars => LockInv'
    <2> SUFFICES ASSUME LockInv, [LockNext]_lockVars PROVE LockInv'
      OBVIOUS
    <2>1. CASE \E p \in Procs : Acquire(p) \/ Release(p) \/ Revoke(p) \/ Restore(p)
      BY <2>1, LockStepInv
    <2>2. CASE Lapse \/ UNCHANGED lockVars
      BY <2>2 DEF LockInv, LockTypeOK, Exclusion, Lapse, lockVars
    <2> QED BY <2>1, <2>2 DEF LockNext
  <1>2. LockInv => Exclusion
    BY DEF LockInv
  <1> QED BY <1>1, <1>2, LockInitInv, PTL DEF LockSpec

----------------------------------------------------------------------------
(* Operators                                                               *)

LEMMA NoIntentType == NoIntent \in Docs
  BY StoreAssumption DEF StoreAssumption, NoIntent, Docs

LEMMA FileType ==
  ASSUME NEW k \in FileKinds, NEW d \in Docs
  PROVE  /\ File(k, d) \in Files
         /\ File(k, d).kind = k
         /\ File(k, d).doc = d
  BY DEF File, Files

LEMMA AbsentType == Absent \in Files /\ Absent.kind = "absent"
  BY NoIntentType, FileType DEF Absent, FileKinds

LEMMA MeaningType ==
  ASSUME NEW f \in Files
  PROVE  Meaning(f) \in Docs
  BY NoIntentType DEF Meaning, Files

LEMMA InspectType ==
  ASSUME NEW f \in Files
  PROVE  /\ Inspect(f) \in [kind : Verdicts, doc : Docs]
         /\ Inspect(f).doc = Meaning(f)
         /\ Inspect(f).kind = "migrated" <=> f.kind = "older"
         /\ Inspect(f).kind = "corrupt" <=> f.kind \in {"ancient", "garbage"}
         /\ Inspect(f).kind = "newer" <=> f.kind = "newer"
         /\ Inspect(f).kind # "quarantined"
  BY MeaningType DEF Inspect, Verdicts, Files, FileKinds

\* A command writes a document, whatever document it read.
LEMMA OutcomesType ==
  ASSUME NEW j \in Jobs, NEW d \in Docs
  PROVE  Outcomes(j, d) \subseteq Docs
  <1> USE StoreAssumption DEF StoreAssumption, Docs
  <1>1. CASE j.kind = "add"
    BY <1>1 DEF Outcomes, Jobs
  <1>2. CASE j.kind = "remove"
    BY <1>2 DEF Outcomes, Jobs
  <1>3. CASE j.kind \notin {"add", "remove"}
    BY <1>3 DEF Outcomes
  <1> QED BY <1>1, <1>2, <1>3

----------------------------------------------------------------------------
(* The invariant                                                           *)

NoLink == ~StateIsLink => ~linked

\* A holder about to settle or to write believes what the file holds.
Informed(p) ==
    /\ stage[p] = "settle" =>
        /\ IsMutation(seen[p])
        /\ seen[p].kind = "corrupt" =>
              disk.kind \in {"ancient", "garbage"} /\ seen[p].doc = NoIntent
        /\ ~StateIsLink /\ seen[p].kind = "migrated" =>
              disk.kind = "older" /\ seen[p].doc = Meaning(disk)
    /\ ~StateIsLink /\ stage[p] = "compute" =>
        /\ seen[p].doc = Meaning(disk)
        /\ disk.kind = "newer" => job[p].kind = "newer"

StoreInv ==
    /\ LockInv
    /\ StoreTypeOK
    /\ NoLink
    /\ OnlyCorruptSetAside
    /\ ~lapsed => \A p \in holders : Informed(p)

LEMMA StoreInitInv == StoreInit => StoreInv
  <1> SUFFICES ASSUME StoreInit PROVE StoreInv
    OBVIOUS
  <1>1. LockInv
    BY LockInitInv DEF StoreInit
  <1>2. StoreTypeOK
    <2>1. disk \in Files /\ Inspect(Absent) \in [kind : Verdicts, doc : Docs]
      BY AbsentType, InspectType DEF StoreInit
    <2>2. NoJob \in Jobs
      BY DEF NoJob, Jobs
    <2> QED BY <1>1, <2>1, <2>2, StoreAssumption
         DEF StoreTypeOK, StoreInit, LockInv, LockInit, Stages, StoreAssumption
  <1>3. NoLink /\ OnlyCorruptSetAside
    BY DEF StoreInit, NoLink, OnlyCorruptSetAside
  <1> QED BY <1>1, <1>2, <1>3 DEF StoreInv, StoreInit, LockInit

\* Until a lapse, whoever holds the store holds it alone.
LEMMA Alone ==
  ASSUME StoreInv, ~lapsed, NEW p \in holders, NEW q \in holders
  PROVE  p = q
  BY DEF StoreInv, LockInv, Exclusion

\* Steps outside the lock, and a process that starts or ends its command.
LEMMA OutsideInv ==
  ASSUME StoreInv, NEW p \in Procs, UNCHANGED lockVars,
         Begin(p) \/ ReadOutside(p) \/ Refused(p)
  PROVE  StoreInv'
  <1> USE DEF StoreInv, StoreTypeOK, lockVars
  <1>1. CASE Begin(p) \/ ReadOutside(p)
    <2>1. PICK j \in Jobs : Request(p, j)
      BY <1>1 DEF Begin, ReadOutside, NoJob, Jobs
    <2>2. p \notin holders
      BY <2>1 DEF Request
    <2>3. StoreTypeOK'
      BY <2>1 DEF Request, Goto, Stages, LockTypeOK
    <2>4. \A q \in holders : Informed(q) => Informed(q)'
      BY <2>1, <2>2 DEF Request, Goto, Informed
    <2> QED BY <2>1, <2>3, <2>4 DEF Request, NoLink, OnlyCorruptSetAside, LockInv, LockTypeOK,
         Exclusion
  <1>2. CASE Refused(p)
    <2>1. p \notin holders /\ Inspect(Absent) \in [kind : Verdicts, doc : Docs] /\ NoJob \in Jobs
      BY <1>2, AbsentType, InspectType DEF Refused, NoJob, Jobs
    <2>2. StoreTypeOK'
      BY <1>2, <2>1 DEF Refused, Forget, Goto, Stages, LockTypeOK
    <2>3. \A q \in holders : Informed(q) => Informed(q)'
      BY <1>2, <2>1 DEF Refused, Forget, Goto, Informed, LockInv, LockTypeOK
    <2> QED BY <1>2, <2>2, <2>3 DEF Refused, NoLink, OnlyCorruptSetAside, LockInv, LockTypeOK,
         Exclusion
  <1> QED BY <1>1, <1>2

\* A process enters, or leaves in whatever way.
LEMMA BorderInv ==
  ASSUME StoreInv, NEW p \in Procs, Enter(p) \/ Leave(p) \/ Abort(p)
  PROVE  StoreInv'
  <1> USE DEF StoreInv
  <1>1. CASE Enter(p)
    <2>1. LockInv'
      BY <1>1, LockStepInv DEF Enter
    <2>2. StoreTypeOK'
      BY <1>1, <2>1 DEF StoreTypeOK, Enter, Acquire, Goto, Stages, LockInv
    <2>3. ~lapsed => \A q \in holders \union {p} : Informed(q)'
      <3>1. ~lapsed => holders = {}
        BY <1>1 DEF Enter, Acquire, Vacant, LockInv, Exclusion
      <3> QED BY <1>1, <3>1 DEF Enter, Goto, Informed, StoreTypeOK
    <2> QED BY <1>1, <2>1, <2>2, <2>3 DEF Enter, Acquire, NoLink, OnlyCorruptSetAside
  <1>2. CASE Leave(p) \/ Abort(p)
    <2> USE <1>2 DEF Leave, Abort, Exit
    <2>1. LockInv'
      BY LockStepInv
    <2>2. Inspect(Absent) \in [kind : Verdicts, doc : Docs] /\ NoJob \in Jobs
      BY AbsentType, InspectType DEF NoJob, Jobs
    <2>3. StoreTypeOK'
      <3>1. /\ stage' = [stage EXCEPT ![p] = "out"]
            /\ job' = [job EXCEPT ![p] = NoJob]
            /\ seen' = [seen EXCEPT ![p] = Inspect(Absent)]
            /\ holders' = holders \ {p}
            /\ UNCHANGED <<disk, linked, setAside, damage>>
        BY DEF Release, Forget, Goto
      <3>2. LockTypeOK'
        BY <2>1 DEF LockInv
      <3> QED BY <2>2, <3>1, <3>2 DEF StoreTypeOK, Stages
    <2>4. ~lapsed => \A q \in holders \ {p} : Informed(q)'
      BY Alone DEF Release
    <2> QED BY <2>1, <2>3, <2>4 DEF Release, NoLink, OnlyCorruptSetAside
  <1> QED BY <1>1, <1>2

\* What a file holds once it is written, or quarantined.
LEMMA MeaningWritten ==
  /\ Meaning(Absent) = NoIntent
  /\ \A d \in Docs : \A k \in {"current", "newer"} : Meaning(File(k, d)) = d
  BY DEF Meaning, Absent, File

\* readUnderLock and the two ways of settling.
LEMMA SettlingInv ==
  ASSUME StoreInv, NEW p \in Procs, UNCHANGED lockVars,
         ReadUnderLock(p) \/ Quarantine(p) \/ WriteBack(p)
  PROVE  StoreInv'
  <1> USE DEF StoreInv, lockVars
  <1>0. LockInv' /\ LockTypeOK'
    BY DEF LockInv, LockTypeOK, Exclusion
  <1>p. p \in holders
    BY DEF ReadUnderLock, Quarantine, WriteBack, Under
  <1>a. ~lapsed => \A q \in holders : q = p
    BY <1>p, Alone
  <1>1. CASE ReadUnderLock(p)
    <2>1. Inspect(disk) \in [kind : Verdicts, doc : Docs] /\ disk \in Files
      BY InspectType DEF StoreTypeOK
    <2>2. StoreTypeOK'
      BY <1>0, <1>1, <2>1 DEF ReadUnderLock, Under, Goto, StoreTypeOK, Stages
    <2>3. /\ seen'[p] = Inspect(disk)
          /\ stage'[p] = "settle" => IsMutation(Inspect(disk))
          /\ stage'[p] = "compute" => GoesOn(job[p].kind, Inspect(disk))
          /\ disk' = disk /\ job' = job
      BY <1>1, <1>p DEF ReadUnderLock, Goto, StoreTypeOK
    <2>4. disk.kind \in {"ancient", "garbage"} => Meaning(disk) = NoIntent
      BY DEF Meaning
    <2>5. GoesOn(job[p].kind, Inspect(disk)) /\ disk.kind = "newer" => job[p].kind = "newer"
      BY <2>1, InspectType DEF GoesOn
    <2>6. Informed(p)'
      BY <2>1, <2>3, <2>4, <2>5, InspectType DEF Informed, Meaning
    <2> QED BY <1>0, <1>1, <1>a, <2>2, <2>6 DEF ReadUnderLock, NoLink, OnlyCorruptSetAside
  <1>2. CASE Quarantine(p)
    <2> USE <1>2 DEF Quarantine, Under
    <2>1. CASE disk.kind = "absent"
      <3>1. StoreTypeOK'
        BY <1>0, <2>1 DEF Goto, StoreTypeOK, Stages
      <3>2. Informed(p)'
        BY <1>p, <2>1 DEF Goto, Informed, StoreTypeOK
      <3> QED BY <1>0, <1>a, <2>1, <3>1, <3>2 DEF NoLink, OnlyCorruptSetAside
    <2>2. CASE disk.kind # "absent"
      <3>1. /\ stage' \in {[stage EXCEPT ![p] = "compute"], [stage EXCEPT ![p] = "done"]}
            /\ seen' = [seen EXCEPT ![p].kind = "quarantined"]
            /\ setAside' = setAside \union {disk}
            /\ disk' = Absent /\ linked' = FALSE /\ job' = job /\ damage' = damage
        BY <2>2 DEF Goto
      <3>2. StoreTypeOK'
        BY <1>0, <1>p, <3>1, AbsentType DEF StoreTypeOK, Stages, Verdicts
      <3>3. ~lapsed => Informed(p)
        BY <1>p
      <3>4. ~lapsed => Informed(p)'
        BY <1>p, <3>1, <3>3, MeaningWritten, AbsentType DEF Informed, StoreTypeOK
      <3>5. OnlyCorruptSetAside'
        BY <3>1, <3>3 DEF OnlyCorruptSetAside, Informed
      <3> QED BY <1>0, <1>a, <3>1, <3>2, <3>4, <3>5 DEF NoLink
    <2> QED BY <2>1, <2>2
  <1>3. CASE WriteBack(p)
    <2> USE <1>3 DEF WriteBack, Under
    <2>1. /\ stage' \in {[stage EXCEPT ![p] = "compute"], [stage EXCEPT ![p] = "done"]}
          /\ disk' = File("current", seen[p].doc)
          /\ UNCHANGED <<linked, setAside, job, seen, damage>>
      BY DEF Goto
    <2>2. seen[p].doc \in Docs
      BY DEF StoreTypeOK
    <2>3. StoreTypeOK'
      <3>1. disk' \in Files
        BY <2>1, <2>2, FileType DEF FileKinds
      <3>2. holders' = {q \in Procs : stage'[q] \notin {"out", "wait"}}
        BY <2>1 DEF StoreTypeOK
      <3> QED BY <1>0, <2>1, <3>1, <3>2 DEF StoreTypeOK, Stages
    <2>4. Informed(p)'
      BY <1>p, <2>1, <2>2, MeaningWritten, FileType DEF Informed, StoreTypeOK, FileKinds
    <2> QED BY <1>0, <1>a, <2>1, <2>3, <2>4 DEF NoLink, OnlyCorruptSetAside
  <1> QED BY <1>1, <1>2, <1>3

\* Writing the state, and doing without.
LEMMA WritingInv ==
  ASSUME StoreInv, NEW p \in Procs, UNCHANGED lockVars,
         DropLink(p) \/ Write(p) \/ Skip(p)
  PROVE  StoreInv'
  <1> USE DEF StoreInv, lockVars
  <1>0. LockInv' /\ LockTypeOK'
    BY DEF LockInv, LockTypeOK, Exclusion
  <1>p. p \in holders
    BY DEF DropLink, Write, Skip, Under
  <1>a. ~lapsed => \A q \in holders : q = p
    BY <1>p, Alone
  <1>1. CASE DropLink(p)
    <2>1. StateIsLink
      BY <1>1, StoreAssumption DEF DropLink, NoLink, StoreAssumption
    <2>2. StoreTypeOK'
      BY <1>0, <1>1, AbsentType DEF DropLink, StoreTypeOK
    <2>3. ~lapsed => Informed(p)'
      BY <1>1, <1>p, <2>1 DEF DropLink, Under, Informed
    <2> QED BY <1>0, <1>1, <1>a, <2>1, <2>2, <2>3 DEF DropLink, NoLink, OnlyCorruptSetAside
  <1>2. CASE Write(p)
    <2>1. PICK doc \in Outcomes(job[p], seen[p].doc) : disk' = File(WrittenKind(job[p]), doc)
      BY <1>2 DEF Write
    <2>2. doc \in Docs
      BY <2>1, OutcomesType DEF StoreTypeOK
    <2>3. disk' \in Files
      BY <2>1, <2>2, FileType DEF WrittenKind, FileKinds
    <2>4. StoreTypeOK'
      BY <1>0, <1>2, <1>p, <2>3 DEF Write, Under, Goto, StoreTypeOK, Stages
    <2>5. Informed(p)'
      BY <1>2, <1>p DEF Write, Goto, Informed, StoreTypeOK
    <2> QED BY <1>0, <1>2, <1>a, <2>4, <2>5 DEF Write, NoLink, OnlyCorruptSetAside
  <1>3. CASE Skip(p)
    <2>1. StoreTypeOK'
      BY <1>0, <1>3, <1>p DEF Skip, Under, Goto, StoreTypeOK, Stages
    <2>2. Informed(p)'
      BY <1>3, <1>p DEF Skip, Goto, Informed, StoreTypeOK
    <2> QED BY <1>0, <1>3, <1>a, <2>1, <2>2 DEF Skip, NoLink, OnlyCorruptSetAside
  <1> QED BY <1>1, <1>2, <1>3

\* What happens to the file or to the lock while nobody computes.
LEMMA BackgroundInv ==
  ASSUME StoreInv, (Damage /\ UNCHANGED lockVars) \/ LockMoves
  PROVE  StoreInv'
  <1> USE DEF StoreInv
  <1>1. CASE Damage /\ UNCHANGED lockVars
    <2>1. LockInv' /\ LockTypeOK'
      BY <1>1 DEF lockVars, LockInv, LockTypeOK, Exclusion
    <2>2. disk' \in Files
      BY <1>1, FileType, NoIntentType DEF Damage, FileKinds
    <2>3. StoreTypeOK'
      BY <1>1, <2>1, <2>2, StoreAssumption DEF Damage, lockVars, StoreTypeOK, StoreAssumption
    <2> QED BY <1>1, <2>1, <2>3 DEF Damage, lockVars, NoLink, OnlyCorruptSetAside
  <1>2. CASE LockMoves
    <2>1. LockInv'
      <3>1. CASE Lapse
        BY <3>1 DEF Lapse, LockInv, LockTypeOK, Exclusion
      <3>2. CASE \E p \in Procs : Revoke(p) \/ Restore(p)
        BY <3>2, LockStepInv
      <3> QED BY <1>2, <3>1, <3>2 DEF LockMoves
    <2>2. holders' = holders /\ (~lapsed' => ~lapsed) /\ UNCHANGED storeVars
      BY <1>2 DEF LockMoves, Lapse, Revoke, Restore
    <2>3. StoreTypeOK'
      BY <2>1, <2>2 DEF StoreTypeOK, storeVars, LockInv
    <2>4. ~lapsed' => \A p \in holders' : Informed(p)'
      BY <2>2 DEF Informed, storeVars
    <2> QED BY <2>1, <2>2, <2>3, <2>4 DEF storeVars, NoLink, OnlyCorruptSetAside
  <1> QED BY <1>1, <1>2

LEMMA StoreNextInv == StoreInv /\ [StoreNext]_<<lockVars, storeVars>> => StoreInv'
  <1> SUFFICES ASSUME StoreInv, [StoreNext]_<<lockVars, storeVars>>
               PROVE  StoreInv'
    OBVIOUS
  <1>1. CASE UNCHANGED <<lockVars, storeVars>>
    BY <1>1 DEF lockVars, storeVars, StoreInv, LockInv, StoreTypeOK, LockTypeOK, Exclusion,
         NoLink, OnlyCorruptSetAside, Informed
  <1>2. CASE StoreNext
    <2>1. ASSUME NEW p \in Procs, Inner(p), UNCHANGED lockVars
          PROVE  StoreInv'
      BY <2>1, SettlingInv, WritingInv DEF Inner
    <2> QED BY <1>2, <2>1, OutsideInv, BorderInv, BackgroundInv DEF StoreNext
  <1> QED BY <1>1, <1>2

----------------------------------------------------------------------------
(* Theorems                                                                *)

\* What every process believes about state.json under the lock is so.
THEOREM StoreInvariance == StoreSpec => []StoreInv
  BY StoreInitInv, StoreNextInv, PTL DEF StoreSpec

\* The variables of the store keep their types, and the processes past the
\* entrance of withStateLock are the lock's holders.
THEOREM StoreTypes == StoreSpec => []StoreTypeOK
  <1>1. StoreInv => StoreTypeOK
    BY DEF StoreInv
  <1> QED BY <1>1, StoreInvariance, PTL

\* quarantine (src/state/store.ts:213) moves only unreadable bytes.
THEOREM Quarantined == StoreSpec => []OnlyCorruptSetAside
  <1>1. StoreInv => OnlyCorruptSetAside
    BY DEF StoreInv
  <1> QED BY <1>1, StoreInvariance, PTL

\* The file changes only as its writers mean it to, and not while newer.
LEMMA WriterStep ==
  ASSUME StoreInv, ~lapsed, ~StateIsLink, NEW p \in Procs, Inner(p), disk' # disk
  PROVE  \/ /\ Meaning(disk') = Meaning(disk)
            /\ disk.kind # "newer"
         \/ /\ p \in holders /\ stage[p] = "compute"
            /\ Meaning(disk') \in Outcomes(job[p], Meaning(disk))
            /\ disk.kind = "newer" => job[p].kind = "newer"
  <1>0. StoreTypeOK /\ NoLink /\ (p \in holders => Informed(p))
    BY DEF StoreInv
  <1>1. CASE Quarantine(p)
    <2>1. disk' = Absent /\ disk.kind \in {"ancient", "garbage"}
      BY <1>0, <1>1 DEF Quarantine, Under, Informed
    <2> QED BY <2>1, MeaningWritten DEF Meaning
  <1>2. CASE WriteBack(p)
    <2>1. /\ disk' = File("current", seen[p].doc)
          /\ disk.kind = "older" /\ seen[p].doc = Meaning(disk)
      BY <1>0, <1>2 DEF WriteBack, Under, Informed
    <2> QED BY <1>0, <2>1, MeaningType, MeaningWritten DEF StoreTypeOK
  <1>3. CASE Write(p)
    <2>1. PICK doc \in Outcomes(job[p], seen[p].doc) : disk' = File(WrittenKind(job[p]), doc)
      BY <1>3 DEF Write
    <2>2. p \in holders /\ stage[p] = "compute" /\ seen[p].doc = Meaning(disk)
      BY <1>0, <1>3 DEF Write, Under, Informed
    <2>3. doc \in Docs
      BY <1>0, <2>1, <2>2, OutcomesType DEF StoreTypeOK, LockTypeOK
    <2>4. Meaning(disk') = doc
      BY <2>1, <2>3, MeaningWritten DEF WrittenKind
    <2> QED BY <1>0, <2>1, <2>2, <2>4 DEF Informed
  <1> QED BY <1>0, <1>1, <1>2, <1>3 DEF Inner, NoLink, ReadUnderLock, DropLink, Skip

LEMMA OtherStep ==
  ASSUME StoreNext
  PROVE  \/ \E p \in Procs : Inner(p)
         \/ disk' = disk
         \/ damage' = damage + 1
  BY DEF StoreNext, Begin, ReadOutside, Request, Refused, Enter, Leave, Abort, Exit, Damage,
     LockMoves, storeVars

\* updateIntent (src/commands/frame/cli-context.ts:157) commits over the
\* intent that is in the file, for any number of processes and sources.
THEOREM Atomicity == StoreSpec => AtomicIntent
  <1>1. StoreInv /\ [StoreNext]_<<lockVars, storeVars>> =>
          [~lapsed /\ ~StateIsLink /\ Meaning(disk') # Meaning(disk) =>
             \/ \E p \in holders : /\ stage[p] = "compute"
                                   /\ Meaning(disk') \in Outcomes(job[p], Meaning(disk))
             \/ damage' = damage + 1]_<<lockVars, storeVars>>
    BY WriterStep, OtherStep
  <1> QED BY <1>1, StoreInvariance, PTL DEF StoreSpec, AtomicIntent

\* writableState (src/commands/frame/cli-context.ts:203) keeps every older
\* command off a file a newer maxims wrote.
THEOREM NewerRespected == StoreSpec => NewerKept
  <1>1. StoreInv /\ [StoreNext]_<<lockVars, storeVars>> =>
          [~lapsed /\ ~StateIsLink /\ disk.kind = "newer" =>
             \/ disk' = disk
             \/ \E p \in holders : job[p].kind = "newer" /\ stage[p] = "compute"
             \/ damage' = damage + 1]_<<lockVars, storeVars>>
    BY WriterStep, OtherStep
  <1> QED BY <1>1, StoreInvariance, PTL DEF StoreSpec, NewerKept

============================================================================
