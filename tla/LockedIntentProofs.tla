------------------------- MODULE LockedIntentProofs -------------------------
(***************************************************************************)
(* Proofs about StoreLock and LockedIntent, for any number of processes,   *)
(* files, crashes, sources and revisions.                                  *)
(*                                                                         *)
(* Of the lock alone: IInv strengthens the type invariant with what mutual *)
(* exclusion needs. A file has one owner, a file grows old only under a    *)
(* silent owner, and until some file has grown old every owner's file      *)
(* stays at the path. The lock then implements its promise.                *)
(*                                                                         *)
(* Of the two together: the store code behind the file protocol is         *)
(* IntentStore behind that promise, so what is proved of a store behind a  *)
(* revocable lock holds behind the lock file. LockedInv is IInv and where  *)
(* each process stands in the two modules at once: it waits in the store   *)
(* exactly while it is in the retry loop, and is past the wait exactly     *)
(* while it is a holder.                                                   *)
(***************************************************************************)
EXTENDS LockedIntent, TLAPS

(***************************************************************************)
(* The lock                                                                *)
(***************************************************************************)

Owner(p) == mine[p] # None

OneOwner == \A p, q \in Procs : (Owner(p) /\ mine[p] = mine[q]) => p = q

OldMeansSilent == \A p \in Procs : mine[p] \in old => p \in silent

\* Every trace of a theft, and every file moved, comes after a lapse.
TheftAfterLapse ==
    ~lapsed => /\ old = {}
               /\ \A p \in Procs : pc[p] \notin Grabbing \union {"rename"}
               /\ \A p \in Procs : Owner(p) => lockAt = mine[p]

IInv == TypeOK /\ OneOwner /\ OldMeansSilent /\ TheftAfterLapse

----------------------------------------------------------------------------

LEMMA InitIInv == Init => IInv
  <1> SUFFICES ASSUME Init PROVE IInv
    OBVIOUS
  <1> USE LockAssumption DEF LockAssumption, Init
  <1>1. TypeOK
    <2>1. crashes \in 0..MaxCrashes
      OBVIOUS
    <2>2. ASSUME NEW p \in Procs
          PROVE  /\ mine[p] # None <=> pc[p] \in Owning
                 /\ aside[p] # None <=> pc[p] \in Grabbing
      BY DEF Owning, Grabbing
    <2> QED BY <2>1, <2>2 DEF TypeOK, Points
  <1>2. OneOwner /\ OldMeansSilent
    BY DEF OneOwner, OldMeansSilent, Owner
  <1>3. TheftAfterLapse
    BY DEF TheftAfterLapse, Owner, Grabbing
  <1> QED BY <1>1, <1>2, <1>3 DEF IInv

LEMMA NextIInv == IInv /\ [Next]_vars => IInv'
  <1> SUFFICES ASSUME IInv, [Next]_vars PROVE IInv'
    OBVIOUS
  <1> USE LockAssumption DEF LockAssumption, IInv, TypeOK, OneOwner, OldMeansSilent, TheftAfterLapse,
      Owner, Points, Owning, Grabbing
  <1>1. ASSUME NEW p \in Procs, Acquiring(p) PROVE IInv'
    <2>1. CASE Start(p) \/ Occupied(p) \/ Retry(p) \/ GiveUp(p)
      BY <2>1 DEF Start, Occupied, Retry, GiveUp, Step, Goto, files, clock
    <2>2. CASE Create(p)
      BY <2>2 DEF Create, Step, Goto, Unreferenced
    <2> QED BY <1>1, <2>1, <2>2 DEF Acquiring
  <1>2. ASSUME NEW p \in Procs, Steal(p) PROVE IInv'
    <2>1. CASE StatYoung(p) \/ StatOld(p) \/ RenameFails(p) \/ GrabbedFresh(p) \/ GrabbedStale(p)
      BY <2>1 DEF StatYoung, StatOld, RenameFails, GrabbedFresh, GrabbedStale,
         Step, Goto, files, clock
    <2>2. CASE RenameAside(p)
      BY <2>2 DEF RenameAside, Step, Goto, clock
    <2>3. CASE PutBack(p)
      BY <2>3 DEF PutBack, Step, Goto, clock
    <2>4. CASE Discard(p) \/ DropStale(p)
      BY <2>4 DEF Discard, DropStale, Step, Goto, clock
    <2> QED BY <1>2, <2>1, <2>2, <2>3, <2>4 DEF Steal
  <1>3. ASSUME NEW p \in Procs, Releasing(p) PROVE IInv'
    <2>1. CASE Finish(p) \/ CheckOwn(p)
      BY <2>1 DEF Finish, CheckOwn, Step, Goto, files, clock
    <2>2. CASE CheckForeign(p)
      BY <2>2 DEF CheckForeign, Step, Goto
    <2>3. CASE Unlink(p)
      BY <2>3 DEF Unlink, Step, Goto
    <2> QED BY <1>3, <2>1, <2>2, <2>3 DEF Releasing
  <1>4. ASSUME NEW p \in Procs, WriteRecord(p) \/ WriteFails(p) PROVE IInv'
    BY <1>4 DEF WriteRecord, WriteFails, Step, Goto, files, clock
  <1>5. ASSUME NEW p \in Procs, Heartbeat(p) \/ Silence(p) PROVE IInv'
    BY <1>5 DEF Heartbeat, Silence, files
  <1>6. ASSUME NEW p \in Procs, Crash(p) PROVE IInv'
    BY <1>6 DEF Crash, Goto
  <1>7. ASSUME NEW i \in Inodes, Outlive(i) PROVE IInv'
    BY <1>7 DEF Outlive, KeptYoung
  <1>8. CASE UNCHANGED vars
    BY <1>8 DEF vars
  <1> QED BY <1>1, <1>2, <1>3, <1>4, <1>5, <1>6, <1>7, <1>8 DEF Next

\* IInv is an invariant of the lock.
THEOREM Invariance == Spec => []IInv
  BY InitIInv, NextIInv, PTL DEF Spec

\* The type invariant, and which point of the code owns which file.
THEOREM TypeCorrectness == Spec => []TypeOK
  <1>1. IInv => TypeOK
    BY DEF IInv
  <1> QED BY <1>1, Invariance, PTL

\* withLock is a mutex until a lock file has outlived staleMs.
THEOREM Exclusive == Spec => []MutualExclusion
  <1>1. IInv => MutualExclusion
    BY DEF IInv, TypeOK, OneOwner, TheftAfterLapse, MutualExclusion, Holders, Owner, Owning
  <1> QED BY <1>1, Invariance, PTL

\* No holder whose heartbeat arrives is reported robbed.
THEOREM NoRobbery == Spec => OnlySilentRobbed
  <1> DEFINE Robbed == \A p, q \in Procs :
        (pc[p] = "restat" /\ pc'[p] = "drop" /\ mine[q] = aside[p] /\ mine[q] # None)
            => q \in silent
  <1>1. ASSUME IInv, Next, NEW p \in Procs, NEW q \in Procs,
               pc[p] = "restat", pc'[p] = "drop", mine[q] = aside[p], mine[q] # None
        PROVE  q \in silent
    <2>1. aside[p] \in old
      BY <1>1 DEF IInv, TypeOK, Points, Next, Acquiring, Steal, Releasing, Start, Create,
         Occupied, Retry, GiveUp, StatYoung, StatOld, RenameAside, RenameFails, GrabbedFresh,
         GrabbedStale, PutBack, Discard, DropStale, Finish, CheckOwn, CheckForeign, Unlink,
         WriteRecord, WriteFails, Heartbeat, Silence, Crash, Outlive, Step, Goto
    <2> QED BY <1>1, <2>1 DEF IInv, OldMeansSilent
  <1>2. IInv /\ [Next]_vars => [Robbed]_vars
    BY <1>1
  <1> QED BY <1>2, Invariance, PTL DEF Spec, OnlySilentRobbed

----------------------------------------------------------------------------
(* Refinement of RevocableLock, one lemma per way a step may touch it.     *)

LEMMA InitRefines == Init => Promise!LockInit
  BY DEF Init, Promise!LockInit, Holders, Displaced

\* Steps that move neither the lock path nor a holder's point are stutters.
LEMMA Stutters ==
  ASSUME UNCHANGED <<lockAt, mine, lapsed>>, Holders' = Holders
  PROVE  UNCHANGED Promise!lockVars
  BY DEF Promise!lockVars, Displaced

LEMMA CreateRefines ==
  ASSUME IInv, NEW p \in Procs, Create(p)
  PROVE  Promise!Acquire(p)
  <1> USE LockAssumption DEF LockAssumption, IInv, TypeOK, Points, Owning, Create, Step, Goto,
      Unreferenced, Holders, Displaced
  <1>1. p \notin Holders /\ Holders \subseteq Displaced
    OBVIOUS
  <1>2. Holders' = Holders \union {p}
    OBVIOUS
  <1>3. Displaced' = Displaced
    OBVIOUS
  <1> QED BY <1>1, <1>2, <1>3 DEF Promise!Acquire, Promise!Vacant

\* A process leaves fn, or dies in it: its file stays where it is.
LEMMA LeaveRefines ==
  ASSUME IInv, NEW p \in Holders, UNCHANGED <<lockAt, lapsed>>,
         Holders' = Holders \ {p}, \A q \in Holders \ {p} : mine'[q] = mine[q]
  PROVE  Promise!Release(p)
  BY DEF Promise!Release, Displaced

\* The file at the path goes away: its holder, if it has one, is revoked.
LEMMA RemoveRefines ==
  ASSUME IInv, lockAt' = None, lapsed' = lapsed, Holders' = Holders,
         \A q \in Holders : mine'[q] = mine[q],
         ~lapsed => Displaced' = Displaced
  PROVE  [Promise!LockNext]_(Promise!lockVars)
  <1> USE LockAssumption DEF LockAssumption, IInv, TypeOK, Points, Owning, Holders
  <1>1. Displaced' = Holders
    BY DEF Displaced
  <1>2. CASE Holders \subseteq Displaced
    <2>1. Displaced' = Displaced
      BY <1>1, <1>2 DEF Displaced
    <2> QED BY <2>1 DEF Promise!lockVars
  <1>3. CASE ~(Holders \subseteq Displaced)
    <2>1. PICK q \in Holders : lockAt = mine[q]
      BY <1>3 DEF Displaced
    <2>2. Displaced' = Displaced \union {q}
      BY <1>1, <2>1 DEF Displaced, OneOwner, Owner
    <2>3. q \in Holders \ Displaced /\ lapsed
      BY <2>1, <2>2 DEF Displaced
    <2>4. Promise!Revoke(q)
      BY <2>2, <2>3 DEF Promise!Revoke
    <2> QED BY <2>4 DEF Promise!LockNext
  <1> QED BY <1>2, <1>3

LEMMA PutBackRefines ==
  ASSUME IInv, NEW p \in Procs, PutBack(p)
  PROVE  [Promise!LockNext]_(Promise!lockVars)
  <1> USE LockAssumption DEF LockAssumption, IInv, TypeOK, Points, Owning, PutBack, Step, Goto,
      clock, Holders
  <1>1. Holders' = Holders
    OBVIOUS
  <1>2. CASE lockAt # None
    BY <1>1, <1>2, Stutters
  <1>3. CASE lockAt = None /\ \E q \in Holders : mine[q] = aside[p]
    <2>1. PICK q \in Holders : mine[q] = aside[p]
      BY <1>3
    <2>2. Displaced = Holders /\ Displaced' = Displaced \ {q}
      BY <1>1, <1>3, <2>1 DEF Displaced, OneOwner, Owner
    <2>3. Promise!Restore(q)
      BY <1>1, <2>2 DEF Promise!Restore, Promise!Vacant
    <2> QED BY <2>3 DEF Promise!LockNext
  <1>4. CASE lockAt = None /\ ~\E q \in Holders : mine[q] = aside[p]
    <2>1. Displaced' = Displaced
      BY <1>1, <1>4 DEF Displaced
    <2> QED BY <1>1, <2>1 DEF Promise!lockVars
  <1> QED BY <1>2, <1>3, <1>4

LEMMA StepRefines == IInv /\ [Next]_vars => [Promise!LockNext]_(Promise!lockVars)
  <1> SUFFICES ASSUME IInv, [Next]_vars PROVE [Promise!LockNext]_(Promise!lockVars)
    OBVIOUS
  <1> USE DEF IInv, TypeOK, Points, Owning, Step, Goto, files, clock, Holders
  <1>1. ASSUME NEW p \in Procs, Acquiring(p) PROVE [Promise!LockNext]_(Promise!lockVars)
    <2>1. CASE Create(p)
      BY <2>1, CreateRefines DEF Promise!LockNext
    <2>2. CASE Start(p) \/ Occupied(p) \/ Retry(p) \/ GiveUp(p)
      BY <2>2, Stutters DEF Start, Occupied, Retry, GiveUp
    <2> QED BY <1>1, <2>1, <2>2 DEF Acquiring
  <1>2. ASSUME NEW p \in Procs, Steal(p) PROVE [Promise!LockNext]_(Promise!lockVars)
    <2>1. CASE RenameAside(p)
      <3>1. lapsed
        BY <2>1 DEF RenameAside, TheftAfterLapse
      <3> QED BY <2>1, <3>1, RemoveRefines DEF RenameAside
    <2>2. CASE PutBack(p)
      BY <2>2, PutBackRefines
    <2>3. CASE ~RenameAside(p) /\ ~PutBack(p)
      BY <1>2, <2>3, Stutters DEF Steal, StatYoung, StatOld, RenameFails, GrabbedFresh,
         GrabbedStale, Discard, DropStale
    <2> QED BY <2>1, <2>2, <2>3
  <1>3. ASSUME NEW p \in Procs, Releasing(p) PROVE [Promise!LockNext]_(Promise!lockVars)
    <2>1. CASE Finish(p)
      BY <2>1, LeaveRefines DEF Finish, Promise!LockNext
    <2>2. CASE CheckOwn(p)
      BY <2>2, Stutters DEF CheckOwn
    <2>3. CASE CheckForeign(p)
      <3>1. Displaced' = Displaced /\ Holders' = Holders
        BY <2>3 DEF CheckForeign, Displaced
      <3> QED BY <2>3, <3>1 DEF CheckForeign, Promise!lockVars
    <2>4. CASE Unlink(p)
      <3>1. ~lapsed => Displaced' = Displaced
        BY <2>4 DEF Unlink, Displaced, TheftAfterLapse, OneOwner, Owner
      <3> QED BY <2>4, <3>1, RemoveRefines DEF Unlink
    <2> QED BY <1>3, <2>1, <2>2, <2>3, <2>4 DEF Releasing
  <1>4. ASSUME NEW p \in Procs, WriteRecord(p) PROVE [Promise!LockNext]_(Promise!lockVars)
    BY <1>4, Stutters DEF WriteRecord
  <1>5. ASSUME NEW p \in Procs, WriteFails(p) PROVE [Promise!LockNext]_(Promise!lockVars)
    BY <1>5, LeaveRefines DEF WriteFails, Promise!LockNext
  <1>6. ASSUME NEW p \in Procs, Heartbeat(p) \/ Silence(p)
        PROVE [Promise!LockNext]_(Promise!lockVars)
    BY <1>6, Stutters DEF Heartbeat, Silence
  <1>7. ASSUME NEW p \in Procs, Crash(p) PROVE [Promise!LockNext]_(Promise!lockVars)
    <2>1. CASE p \in Holders
      BY <1>7, <2>1, LeaveRefines DEF Crash, Promise!LockNext
    <2>2. CASE p \notin Holders
      <3>1. Displaced' = Displaced /\ Holders' = Holders
        BY <1>7, <2>2 DEF Crash, Displaced
      <3> QED BY <1>7, <3>1 DEF Crash, Promise!lockVars
    <2> QED BY <2>1, <2>2
  <1>8. ASSUME NEW i \in Inodes, Outlive(i) PROVE [Promise!LockNext]_(Promise!lockVars)
    BY <1>8 DEF Outlive, Displaced, Promise!Lapse, Promise!LockNext
  <1>9. CASE UNCHANGED vars
    BY <1>9 DEF vars, Displaced, Promise!lockVars
  <1> QED BY <1>1, <1>2, <1>3, <1>4, <1>5, <1>6, <1>7, <1>8, <1>9 DEF Next

\* The file protocol of lock.ts keeps the promise of RevocableLock: a process
\* enters the callback only when every other one inside has been revoked, and
\* nobody is revoked before a lock file has outlived staleMs.
THEOREM Refinement == Spec => Implements
  BY InitRefines, StepRefines, Invariance, PTL DEF Spec, Implements, Promise!LockSpec

(***************************************************************************)
(* The store behind the lock                                               *)
(***************************************************************************)

\* The retry loop of withLock.
Contending == {"try", "stat", "rename", "restat", "putback", "discard", "drop", "backoff"}

Coupled ==
    /\ DOMAIN stage = Procs
    /\ \A p \in Procs : /\ stage[p] = "wait" <=> pc[p] \in Contending
                        /\ stage[p] \notin {"out", "wait"} <=> p \in Holders

LockedInv == IInv /\ Coupled

----------------------------------------------------------------------------
(* Every step of LockedNext is a step of the lock                          *)

LEMMA LockStep == [LockedNext]_<<vars, storeVars>> => [Next]_vars
  BY DEF LockedNext, Call, Locked, Inside, Settled, Unwritten, Barred, Killed, LockOnly,
     Next, Acquiring, Releasing

LEMMA LockedInitInv == LockedInit => LockedInv
  <1>1. LockedInit => Coupled
    BY DEF LockedInit, Init, Store!StoreInit, Coupled, Holders, Contending
  <1> QED BY <1>1, InitIInv DEF LockedInit, LockedInv

\* How a step of the store code moves a process, seen from where it stands.
LEMMA StoreMoves ==
  ASSUME Coupled, NEW p \in Procs
  PROVE  /\ Store!Begin(p) \/ Store!ReadOutside(p) =>
              stage[p] = "out" /\ stage' = [stage EXCEPT ![p] = "wait"]
         /\ Store!Enter(p) => stage[p] = "wait" /\ stage' = [stage EXCEPT ![p] = "ready"]
         /\ Store!Refused(p) => stage[p] = "wait" /\ stage' = [stage EXCEPT ![p] = "out"]
         /\ Store!Leave(p) \/ Store!Abort(p) => stage' = [stage EXCEPT ![p] = "out"]
         /\ Store!Inner(p) => \/ UNCHANGED stage
                              \/ \E to \in {"settle", "compute", "done"} :
                                    stage' = [stage EXCEPT ![p] = to]
  BY DEF Coupled, Store!Begin, Store!ReadOutside, Store!Request, Store!Refused, Store!Forget,
     Store!Goto, Store!Enter, Store!Leave, Store!Abort, Store!Exit, Store!Inner,
     Store!ReadUnderLock, Store!Quarantine, Store!DropLink, Store!WriteBack, Store!Write,
     Store!Skip

LEMMA LockedNextInv == LockedInv /\ [LockedNext]_<<vars, storeVars>> => LockedInv'
  <1> SUFFICES ASSUME LockedInv, [LockedNext]_<<vars, storeVars>> PROVE Coupled'
    BY LockStep, NextIInv DEF LockedInv
  <1> USE DEF LockedInv, IInv, TypeOK, Points, Coupled, Contending, Holders, Step, Goto
  <1>1. ASSUME NEW p \in Procs, Call(p) \/ Locked(p) PROVE Coupled'
    BY <1>1, StoreMoves DEF Call, Locked, Start, Create
  <1>2. ASSUME NEW p \in Procs, Inside(p) PROVE Coupled'
    BY <1>2, StoreMoves DEF Inside, vars
  <1>3. ASSUME NEW p \in Procs, Settled(p) \/ Unwritten(p) \/ Barred(p) PROVE Coupled'
    BY <1>3, StoreMoves DEF Settled, Unwritten, Barred, Finish, WriteFails, GiveUp
  <1>4. ASSUME NEW p \in Procs, Killed(p) PROVE Coupled'
    <2>1. CASE p \in Holders
      BY <1>4, <2>1, StoreMoves DEF Killed, Crash
    <2>2. CASE p \notin Holders /\ stage[p] = "wait"
      BY <1>4, <2>2, StoreMoves DEF Killed, Crash
    <2>3. CASE p \notin Holders /\ stage[p] # "wait"
      BY <1>4, <2>3 DEF Killed, Crash, storeVars
    <2> QED BY <2>1, <2>2, <2>3
  <1>5. ASSUME NEW p \in Procs, LockOnly(p) PROVE Coupled'
    BY <1>5 DEF LockOnly, storeVars, Occupied, Retry, Steal, StatYoung, StatOld, RenameAside,
       RenameFails, GrabbedFresh, GrabbedStale, PutBack, Discard, DropStale, WriteRecord,
       CheckOwn, CheckForeign, Unlink, Heartbeat, Silence
  <1>6. CASE Store!Damage /\ UNCHANGED vars
    BY <1>6 DEF Store!Damage, vars
  <1>7. ASSUME NEW i \in Inodes, Outlive(i), UNCHANGED storeVars PROVE Coupled'
    BY <1>7 DEF Outlive, storeVars
  <1>8. CASE UNCHANGED <<vars, storeVars>>
    BY <1>8 DEF vars, storeVars
  <1> QED BY <1>1, <1>2, <1>3, <1>4, <1>5, <1>6, <1>7, <1>8 DEF LockedNext

\* LockedInv is an invariant of the store behind the lock file.
THEOREM LockedInvariance == LockedSpec => []LockedInv
  BY LockedInitInv, LockedNextInv, PTL DEF LockedSpec

----------------------------------------------------------------------------
(* The store code is behind what RevocableLock promises                    *)

\* The two instances of RevocableLock, the lock's and the store's, are one.
LEMMA SameLock ==
  /\ Store!lockVars = Promise!lockVars
  /\ Store!LockInit = Promise!LockInit
  /\ \A p \in Procs : /\ Store!Acquire(p) = Promise!Acquire(p)
                      /\ Store!Release(p) = Promise!Release(p)
                      /\ Store!Revoke(p) = Promise!Revoke(p)
                      /\ Store!Restore(p) = Promise!Restore(p)
  /\ Store!Lapse = Promise!Lapse
  BY DEF Store!lockVars, Promise!lockVars, Store!LockInit, Promise!LockInit, Store!Acquire,
     Promise!Acquire, Store!Release, Promise!Release, Store!Revoke, Promise!Revoke,
     Store!Restore, Promise!Restore, Store!Lapse, Promise!Lapse, Store!Vacant, Promise!Vacant

\* A step that moves no holder in or out moves only the lock's own part.
LEMMA OnlyLockMoves ==
  ASSUME [Promise!LockNext]_(Promise!lockVars), Holders' = Holders, UNCHANGED storeVars
  PROVE  [Store!StoreNext]_<<Store!lockVars, Store!storeVars>>
  <1>1. CASE UNCHANGED Promise!lockVars
    BY <1>1 DEF storeVars, Store!storeVars, Store!lockVars, Promise!lockVars
  <1>2. CASE Promise!LockNext
    <2>1. Store!Lapse \/ \E p \in Procs : Store!Revoke(p) \/ Store!Restore(p)
      BY <1>2, SameLock DEF Promise!LockNext, Promise!Acquire, Promise!Release
    <2> QED BY <2>1 DEF Store!StoreNext, Store!LockMoves, storeVars, Store!storeVars
  <1> QED BY <1>1, <1>2

\* Nothing the lock protocol does is kept back by the store code: when a step of
\* it lets a process in, out or away, the store's half of the step is possible.
THEOREM Unhindered ==
  ASSUME LockedInv, NEW p \in Procs
  PROVE  /\ Start(p) => stage[p] = "out" /\ UNCHANGED Store!lockVars
         /\ Create(p) => stage[p] = "wait" /\ Store!Acquire(p)
         /\ Finish(p) \/ WriteFails(p) =>
               stage[p] \notin {"out", "wait"} /\ Store!Release(p)
         /\ GiveUp(p) => stage[p] = "wait" /\ UNCHANGED Store!lockVars
         /\ Crash(p) => \/ stage[p] \notin {"out", "wait"} /\ Store!Release(p)
                        \/ stage[p] \in {"out", "wait"} /\ UNCHANGED Store!lockVars
  <1> USE DEF LockedInv, Coupled, Contending, Holders, IInv, TypeOK, Points, Step, Goto, files,
      clock
  <1>1. ASSUME Start(p) \/ GiveUp(p)
        PROVE  UNCHANGED Store!lockVars
    <2>1. UNCHANGED <<lockAt, mine, lapsed>> /\ Holders' = Holders
      BY <1>1 DEF Start, GiveUp
    <2> QED BY <2>1, Stutters DEF Store!lockVars, Promise!lockVars
  <1>2. ASSUME Create(p) PROVE stage[p] = "wait" /\ Store!Acquire(p)
    BY <1>2, CreateRefines, SameLock DEF Create
  <1>3. ASSUME Finish(p) \/ WriteFails(p)
        PROVE  stage[p] \notin {"out", "wait"} /\ Store!Release(p)
    BY <1>3, LeaveRefines, SameLock DEF Finish, WriteFails
  <1>4. ASSUME Crash(p), p \in Holders PROVE Store!Release(p)
    BY <1>4, LeaveRefines, SameLock DEF Crash
  <1>5. ASSUME Crash(p), p \notin Holders PROVE UNCHANGED Store!lockVars
    <2>1. Displaced' = Displaced /\ Holders' = Holders
      BY <1>5 DEF Crash, Displaced
    <2> QED BY <1>5, <2>1 DEF Crash, Store!lockVars
  <1>6. Start(p) => stage[p] = "out"
    BY DEF Start
  <1>7. GiveUp(p) => stage[p] = "wait"
    BY DEF GiveUp
  <1>8. p \in Holders <=> stage[p] \notin {"out", "wait"}
    OBVIOUS
  <1> QED BY <1>1, <1>2, <1>3, <1>4, <1>5, <1>6, <1>7, <1>8

LEMMA ComposedStep ==
  LockedInv /\ [LockedNext]_<<vars, storeVars>>
      => [Store!StoreNext]_<<Store!lockVars, Store!storeVars>>
  <1> SUFFICES ASSUME LockedInv, [LockedNext]_<<vars, storeVars>>
               PROVE  [Store!StoreNext]_<<Store!lockVars, Store!storeVars>>
    OBVIOUS
  <1>1. ASSUME NEW p \in Procs, Call(p) \/ Locked(p) \/ Barred(p)
        PROVE  Store!StoreNext
    BY <1>1, Unhindered DEF Call, Locked, Barred, Store!StoreNext
  <1>2. ASSUME NEW p \in Procs, Inside(p) PROVE Store!StoreNext
    <2>1. UNCHANGED Store!lockVars
      BY <1>2 DEF Inside, vars, Store!lockVars, Holders, Displaced
    <2> QED BY <1>2, <2>1 DEF Inside, Store!StoreNext
  <1>3. ASSUME NEW p \in Procs, Settled(p) \/ Unwritten(p) PROVE Store!StoreNext
    BY <1>3 DEF Settled, Unwritten, Store!StoreNext
  <1>4. ASSUME NEW p \in Procs, Killed(p)
        PROVE  [Store!StoreNext]_<<Store!lockVars, Store!storeVars>>
    <2>1. CASE p \in Holders
      BY <1>4, <2>1 DEF Killed, Store!StoreNext
    <2>2. CASE p \notin Holders
      <3>1. UNCHANGED Store!lockVars
        BY <1>4, <2>2, Unhindered DEF Killed, LockedInv, Coupled
      <3>2. CASE stage[p] = "wait"
        BY <1>4, <2>2, <3>1, <3>2 DEF Killed, Store!StoreNext
      <3>3. CASE stage[p] # "wait"
        BY <1>4, <2>2, <3>1, <3>3 DEF Killed, storeVars, Store!storeVars
      <3> QED BY <3>2, <3>3
    <2> QED BY <2>1, <2>2
  <1>5. ASSUME NEW p \in Procs, LockOnly(p)
        PROVE  [Store!StoreNext]_<<Store!lockVars, Store!storeVars>>
    <2>1. Holders' = Holders
      BY <1>5 DEF LockedInv, IInv, TypeOK, Holders, Step, Goto, LockOnly, Occupied, Retry, Steal,
         StatYoung, StatOld, RenameAside, RenameFails, GrabbedFresh, GrabbedStale, PutBack,
         Discard, DropStale, WriteRecord, CheckOwn, CheckForeign, Unlink, Heartbeat, Silence,
         files
    <2> QED BY <1>5, <2>1, LockStep, StepRefines, OnlyLockMoves DEF LockedInv, LockOnly
  <1>6. CASE Store!Damage /\ UNCHANGED vars
    BY <1>6 DEF vars, Store!lockVars, Holders, Displaced, Store!StoreNext
  <1>7. ASSUME NEW i \in Inodes, Outlive(i), UNCHANGED storeVars
        PROVE  [Store!StoreNext]_<<Store!lockVars, Store!storeVars>>
    <2>1. Holders' = Holders
      BY <1>7 DEF Outlive, Holders
    <2> QED BY <1>7, <2>1, LockStep, StepRefines, OnlyLockMoves DEF LockedInv
  <1>8. CASE UNCHANGED <<vars, storeVars>>
    BY <1>8 DEF vars, storeVars, Store!storeVars, Store!lockVars, Holders, Displaced
  <1> QED BY <1>1, <1>2, <1>3, <1>4, <1>5, <1>6, <1>7, <1>8 DEF LockedNext

\* updateIntent and readUnderLock, run inside the withLock of lock.ts with its
\* creations, thefts, put-backs and crashes, behave as they do behind a lock that
\* is revoked only after a lapse.
THEOREM Composition == LockedSpec => Composes
  <1>1. LockedInit => Store!StoreInit
    BY DEF LockedInit
  <1> QED BY <1>1, ComposedStep, LockedInvariance, PTL DEF LockedSpec, Composes, Store!StoreSpec

----------------------------------------------------------------------------
(* What was proved behind the promise holds behind the lock file           *)

\* IntentStore once more, with its theorems.
Behind == INSTANCE IntentStoreProofs WITH holders <- Holders, revoked <- Displaced

LEMMA SameStore ==
  /\ Store!StoreInit <=> Behind!StoreInit
  /\ Store!StoreNext <=> Behind!StoreNext
  /\ <<Store!lockVars, Store!storeVars>> = <<Behind!lockVars, Behind!storeVars>>
  BY DEF Store!LockInit, Behind!LockInit, Store!Vacant, Behind!Vacant, Store!Acquire,
     Behind!Acquire, Store!Release, Behind!Release, Store!Lapse, Behind!Lapse, Store!Revoke,
     Behind!Revoke, Store!Restore, Behind!Restore, Store!lockVars, Behind!lockVars,
     Store!storeVars, Behind!storeVars, Store!Docs, Behind!Docs, Store!NoIntent,
     Behind!NoIntent, Store!Added, Behind!Added, Store!Files, Behind!Files, Store!FileKinds,
     Behind!FileKinds, Store!File, Behind!File, Store!Absent, Behind!Absent, Store!Meaning,
     Behind!Meaning, Store!Jobs, Behind!Jobs, Store!NoJob, Behind!NoJob, Store!Updates,
     Behind!Updates, Store!Inspect, Behind!Inspect, Store!IsMutation, Behind!IsMutation,
     Store!StoreInit, Behind!StoreInit, Store!Goto, Behind!Goto, Store!Forget, Behind!Forget,
     Store!GoesOn, Behind!GoesOn, Store!Outcomes, Behind!Outcomes, Store!WrittenKind,
     Behind!WrittenKind, Store!Request, Behind!Request, Store!Begin, Behind!Begin,
     Store!ReadOutside, Behind!ReadOutside, Store!Refused, Behind!Refused, Store!Under,
     Behind!Under, Store!ReadUnderLock, Behind!ReadUnderLock, Store!Quarantine,
     Behind!Quarantine, Store!DropLink, Behind!DropLink, Store!WriteBack, Behind!WriteBack,
     Store!Write, Behind!Write, Store!Skip, Behind!Skip, Store!Inner, Behind!Inner,
     Store!Damage, Behind!Damage, Store!Enter, Behind!Enter, Store!Exit, Behind!Exit,
     Store!Leave, Behind!Leave, Store!Abort, Behind!Abort, Store!LockMoves, Behind!LockMoves,
     Store!StoreNext, Behind!StoreNext

LEMMA StoreConstantsHold == Behind!StoreAssumption
  BY StoreConstants DEF Store!StoreAssumption, Behind!StoreAssumption

LEMMA BehindStep ==
  LockedInv /\ [LockedNext]_<<vars, storeVars>>
      => [Behind!StoreNext]_<<Behind!lockVars, Behind!storeVars>>
  <1>1. UNCHANGED <<Store!lockVars, Store!storeVars>>
            => UNCHANGED <<Behind!lockVars, Behind!storeVars>>
    BY DEF Store!lockVars, Store!storeVars, Behind!lockVars, Behind!storeVars
  <1> QED BY <1>1, ComposedStep, SameStore

LEMMA LockedBehind == LockedSpec => Behind!StoreSpec
  <1>1. LockedInit => Behind!StoreInit
    BY SameStore DEF LockedInit
  <1> QED BY <1>1, BehindStep, LockedInvariance, PTL DEF LockedSpec, Behind!StoreSpec

\* Behind the lock file of src/util/lock.ts, a commit is made over the intent the
\* file held at that moment, until a lock file has outlived staleMs.
THEOREM LockedAtomicity == LockedSpec => Behind!AtomicIntent
  BY LockedBehind, StoreConstantsHold, Behind!Atomicity, PTL

\* Behind the lock file, no command of this maxims touches a newer one's state.
THEOREM LockedNewerKept == LockedSpec => Behind!NewerKept
  BY LockedBehind, StoreConstantsHold, Behind!NewerRespected, PTL

\* Behind the lock file, nothing is moved aside that a maxims could have read.
THEOREM LockedQuarantine == LockedSpec => []Behind!OnlyCorruptSetAside
  BY LockedBehind, StoreConstantsHold, Behind!Quarantined, PTL

============================================================================
