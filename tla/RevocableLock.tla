--------------------------- MODULE RevocableLock ---------------------------
(***************************************************************************)
(* What the store mutex of src/util/lock.ts promises to the code behind    *)
(* it: a lock whose holder may be revoked, but only after some lock file   *)
(* has outlived staleMs.  Until then it is a mutex.  StoreLock implements  *)
(* this specification, and IntentStore runs its writers behind it.         *)
(***************************************************************************)
EXTENDS Naturals

CONSTANTS Procs     \* the processes that run maxims against one store home

VARIABLES holders,  \* processes inside the callback of withLock
          revoked,  \* holders whose lock file is no longer at the lock path
          lapsed    \* some lock file has outlived staleMs

lockVars == <<holders, revoked, lapsed>>

\* The lock is free when every process still inside its callback lost its file.
Vacant == holders \subseteq revoked

LockInit ==
    /\ holders = {}
    /\ revoked = {}
    /\ lapsed = FALSE

\* Seeded fault: a second holder is let in beside the first.
AcquireShared(p) ==
    /\ p \notin holders
    /\ holders' = holders \union {p}
    /\ UNCHANGED <<revoked, lapsed>>

Acquire(p) ==
    /\ p \notin holders
    /\ Vacant
    /\ holders' = holders \union {p}
    /\ UNCHANGED <<revoked, lapsed>>

Release(p) ==
    /\ p \in holders
    /\ holders' = holders \ {p}
    /\ revoked' = revoked \ {p}
    /\ UNCHANGED lapsed

\* A holder stalls, or dies, for longer than staleMs.
Lapse ==
    /\ lapsed' = TRUE
    /\ UNCHANGED <<holders, revoked>>

Revoke(p) ==
    /\ lapsed
    /\ p \in holders \ revoked
    /\ revoked' = revoked \union {p}
    /\ UNCHANGED <<holders, lapsed>>

\* A file that was grabbed while young is put back while nobody took its place.
Restore(p) ==
    /\ p \in revoked
    /\ Vacant
    /\ revoked' = revoked \ {p}
    /\ UNCHANGED <<holders, lapsed>>

LockNext ==
    \/ \E p \in Procs : Acquire(p) \/ Release(p) \/ Revoke(p) \/ Restore(p)
    \/ Lapse

LockSpec == LockInit /\ [][LockNext]_lockVars

----------------------------------------------------------------------------

LockTypeOK ==
    /\ holders \subseteq Procs
    /\ revoked \subseteq holders
    /\ lapsed \in BOOLEAN

\* Two processes are inside the callback at once only if the file of one of
\* them left the lock path, and no file leaves it before one has outlived
\* staleMs (withLock, src/util/lock.ts:61 and :178).
Exclusion ==
    /\ \A p, q \in holders \ revoked : p = q
    /\ ~lapsed => revoked = {}

============================================================================
