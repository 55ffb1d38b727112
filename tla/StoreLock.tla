----------------------------- MODULE StoreLock -----------------------------
(***************************************************************************)
(* The store mutex of src/util/lock.ts, one action per file system call.   *)
(*                                                                         *)
(* The lock is a file created with O_EXCL; its holder writes a record into *)
(* it and a heartbeat refreshes its mtime.  A process that finds the file  *)
(* older than staleMs renames it aside, ages the moved file once more,     *)
(* puts it back when it turns out to be young (hard link, which never      *)
(* clobbers) and otherwise reports a theft and creates its own.            *)
(*                                                                         *)
(* A file is an inode.  An inode stands for the record in it too: the pid  *)
(* and startedAt that sameHolder compares are different for every file     *)
(* ever created.  Time is not counted: an inode is young until Outlive     *)
(* puts it into `old', which a process that beats regularly prevents.      *)
(***************************************************************************)
EXTENDS Naturals, FiniteSets

CONSTANTS Procs,        \* processes running maxims on one store
          Inodes,       \* pool of files; one no one refers to may be reused
          None,         \* no inode
          MaxCrashes    \* bound: processes killed before they release

ASSUME LockAssumption ==
    /\ None \notin Inodes
    /\ MaxCrashes \in Nat

VARIABLES pc,       \* where each process stands in withLock
          lockAt,   \* the inode at the lock path, or None
          aside,    \* the inode at each process's own .stale-<pid>-<ms> name
          mine,     \* the inode each process created, until release is over
          written,  \* inodes that carry their holder's record
          old,      \* inodes whose mtime is more than staleMs ago
          silent,   \* holders whose heartbeat does not reach the file
          lapsed,   \* some inode has ever been old
          crashes   \* crashes so far

vars == <<pc, lockAt, aside, mine, written, old, silent, lapsed, crashes>>

\* idle: outside withLock.  try .. backoff: the retry loop of withLock.
\* record, inside: between the creation of the file and the end of fn.
\* check, unlink: the two halves of release; a failed record goes to unlink.
Points == {"idle", "try", "stat", "rename", "restat", "putback", "discard",
           "drop", "backoff", "record", "inside", "check", "unlink"}

Owning == {"record", "inside", "check", "unlink"}
Grabbing == {"restat", "putback", "discard", "drop"}

\* Processes that the rest of the program believes hold the store.
Holders == {p \in Procs : pc[p] \in {"record", "inside"}}

\* Holders whose file is not the one at the lock path.
Displaced == {p \in Holders : lockAt # mine[p]}

Init ==
    /\ pc = [p \in Procs |-> "idle"]
    /\ lockAt = None
    /\ aside = [p \in Procs |-> None]
    /\ mine = [p \in Procs |-> None]
    /\ written = {}
    /\ old = {}
    /\ silent = {}
    /\ lapsed = FALSE
    /\ crashes = 0

\* No name and no descriptor leads to the inode.
Unreferenced(i) ==
    /\ i # lockAt
    /\ \A p \in Procs : aside[p] # i /\ mine[p] # i

Goto(p, point) == pc' = [pc EXCEPT ![p] = point]

Step(p, from, to) == pc[p] = from /\ Goto(p, to)

files == <<lockAt, aside, mine, written, old>>
clock == <<silent, lapsed, crashes>>

----------------------------------------------------------------------------
(* Seeded faults: each stands in for the action it is named after, to show *)
(* that a property would notice.  None of them is part of Next.            *)

\* open with "w" in place of "wx".
CreateNotExclusive(p) ==
    /\ Step(p, "try", "record")
    /\ \E i \in Inodes :
        /\ Unreferenced(i)
        /\ lockAt' = i
        /\ mine' = [mine EXCEPT ![p] = i]
        /\ written' = written \ {i}
        /\ old' = old \ {i}
    /\ silent' = silent \ {p}
    /\ UNCHANGED <<aside, lapsed, crashes>>

\* A stale file without a readable record is put back.
GrabbedStaleRecorded(p) ==
    /\ Step(p, "restat", IF aside[p] \in written THEN "drop" ELSE "putback")
    /\ aside[p] \in old
    /\ UNCHANGED <<files, clock>>

\* The moved file is not aged a second time.
GrabbedStaleUnchecked(p) ==
    /\ Step(p, "restat", "drop")
    /\ UNCHANGED <<files, clock>>

\* rename in place of link, which clobbers a newer lock.
PutBackClobbers(p) ==
    /\ Step(p, "putback", "discard")
    /\ lockAt' = aside[p]
    /\ UNCHANGED <<aside, mine, written, old, clock>>

\* The stale file is left behind under its aside name.
DropStaleLeaks(p) ==
    /\ Step(p, "drop", "try")
    /\ UNCHANGED <<files, clock>>

----------------------------------------------------------------------------
(* withLock and tryCreate                                                  *)

Start(p) == Step(p, "idle", "try") /\ UNCHANGED <<files, clock>>

\* openSync(lockPath, "wx") succeeds: nothing was at the path.
Create(p) ==
    /\ Step(p, "try", "record")
    /\ lockAt = None
    /\ \E i \in Inodes :
        /\ Unreferenced(i)
        /\ lockAt' = i
        /\ mine' = [mine EXCEPT ![p] = i]
        /\ written' = written \ {i}
        /\ old' = old \ {i}
    /\ silent' = silent \ {p}
    /\ UNCHANGED <<aside, lapsed, crashes>>

\* EEXIST: the loop reads the holder, for its messages only, and goes on.
Occupied(p) ==
    /\ Step(p, "try", "stat")
    /\ lockAt # None
    /\ UNCHANGED <<files, clock>>

\* The record is written through the descriptor, wherever the file is now.
WriteRecord(p) ==
    /\ Step(p, "record", "inside")
    /\ written' = written \union {mine[p]}
    /\ old' = old \ {mine[p]}
    /\ UNCHANGED <<lockAt, aside, mine, clock>>

\* writeSync fails: the path is unlinked with no check, and withLock throws.
WriteFails(p) == Step(p, "record", "unlink") /\ UNCHANGED <<files, clock>>

\* The interval of tryCreate touches the descriptor, so the holder's own inode.
Heartbeat(p) ==
    /\ pc[p] = "inside"
    /\ old' = old \ {mine[p]}
    /\ silent' = silent \ {p}
    /\ UNCHANGED <<pc, lockAt, aside, mine, written, lapsed, crashes>>

----------------------------------------------------------------------------
(* stealIfStale: every call in it is an await point                        *)

StatYoung(p) ==
    /\ Step(p, "stat", "backoff")
    /\ lockAt \notin old
    /\ UNCHANGED <<files, clock>>

StatOld(p) ==
    /\ Step(p, "stat", "rename")
    /\ lockAt \in old
    /\ UNCHANGED <<files, clock>>

RenameAside(p) ==
    /\ Step(p, "rename", "restat")
    /\ lockAt # None
    /\ aside' = [aside EXCEPT ![p] = lockAt]
    /\ lockAt' = None
    /\ UNCHANGED <<mine, written, old, clock>>

RenameFails(p) ==
    /\ Step(p, "rename", "backoff")
    /\ lockAt = None
    /\ UNCHANGED <<files, clock>>

GrabbedFresh(p) ==
    /\ Step(p, "restat", "putback")
    /\ aside[p] \notin old
    /\ UNCHANGED <<files, clock>>

GrabbedStale(p) ==
    /\ Step(p, "restat", "drop")
    /\ aside[p] \in old
    /\ UNCHANGED <<files, clock>>

\* link(aside, lockPath) fails, and is swallowed, when the path is taken.
PutBack(p) ==
    /\ Step(p, "putback", "discard")
    /\ lockAt' = IF lockAt = None THEN aside[p] ELSE lockAt
    /\ UNCHANGED <<aside, mine, written, old, clock>>

\* unlink(aside) after a put-back: nothing was stolen.
Discard(p) ==
    /\ Step(p, "discard", "backoff")
    /\ aside' = [aside EXCEPT ![p] = None]
    /\ UNCHANGED <<lockAt, mine, written, old, clock>>

\* unlink(aside) of a stale file: the theft is reported and the loop goes on.
DropStale(p) ==
    /\ Step(p, "drop", "try")
    /\ aside' = [aside EXCEPT ![p] = None]
    /\ UNCHANGED <<lockAt, mine, written, old, clock>>

Retry(p) == Step(p, "backoff", "try") /\ UNCHANGED <<files, clock>>

\* Past the deadline, at once with waitMs 0: StoreLocked, exit code 5.
GiveUp(p) == Step(p, "backoff", "idle") /\ UNCHANGED <<files, clock>>

----------------------------------------------------------------------------
(* release                                                                 *)

\* fn settled, or a signal ran the exit hook: the heartbeat and descriptor go.
Finish(p) == Step(p, "inside", "check") /\ UNCHANGED <<files, clock>>

RecordedHolder(p) == lockAt = mine[p] /\ mine[p] \in written

CheckOwn(p) ==
    /\ Step(p, "check", "unlink")
    /\ RecordedHolder(p)
    /\ UNCHANGED <<files, clock>>

CheckForeign(p) ==
    /\ Step(p, "check", "idle")
    /\ ~RecordedHolder(p)
    /\ mine' = [mine EXCEPT ![p] = None]
    /\ silent' = silent \ {p}
    /\ UNCHANGED <<lockAt, aside, written, old, lapsed, crashes>>

\* unlinkSync(lockPath) removes whatever is at the path by now.
Unlink(p) ==
    /\ Step(p, "unlink", "idle")
    /\ lockAt' = None
    /\ mine' = [mine EXCEPT ![p] = None]
    /\ silent' = silent \ {p}
    /\ UNCHANGED <<aside, written, old, lapsed, crashes>>

----------------------------------------------------------------------------
(* Environment                                                             *)

\* The heartbeat stops reaching the file: futimes fails, the event loop is
\* blocked, the process or the machine is suspended.
Silence(p) ==
    /\ mine[p] # None
    /\ p \notin silent
    /\ silent' = silent \union {p}
    /\ UNCHANGED <<pc, files, lapsed, crashes>>

\* Some live process keeps the inode young: its heartbeat does while it is
\* inside fn, and it needs far less than staleMs for its other steps.
KeptYoung(i) == \E p \in Procs : mine[p] = i /\ p \notin silent

\* staleMs pass for a file that nobody touches.
Outlive(i) ==
    /\ ~Unreferenced(i)
    /\ i \notin old
    /\ ~KeptYoung(i)
    /\ old' = old \union {i}
    /\ lapsed' = TRUE
    /\ UNCHANGED <<pc, lockAt, aside, mine, written, silent, crashes>>

\* A kill or a power cut: the files stay, aside files under a name that is
\* never used again.  The process may be started anew.
Crash(p) ==
    /\ pc[p] # "idle"
    /\ crashes < MaxCrashes
    /\ crashes' = crashes + 1
    /\ Goto(p, "idle")
    /\ aside' = [aside EXCEPT ![p] = None]
    /\ mine' = [mine EXCEPT ![p] = None]
    /\ silent' = silent \ {p}
    /\ UNCHANGED <<lockAt, written, old, lapsed>>

----------------------------------------------------------------------------

Steal(p) ==
    \/ StatYoung(p) \/ StatOld(p)
    \/ RenameAside(p) \/ RenameFails(p)
    \/ GrabbedFresh(p) \/ GrabbedStale(p)
    \/ PutBack(p) \/ Discard(p) \/ DropStale(p)

Acquiring(p) == Start(p) \/ Create(p) \/ Occupied(p) \/ Retry(p) \/ GiveUp(p)

Releasing(p) == Finish(p) \/ CheckOwn(p) \/ CheckForeign(p) \/ Unlink(p)

Next ==
    \/ \E p \in Procs :
        \/ Acquiring(p) \/ Steal(p) \/ Releasing(p)
        \/ WriteRecord(p) \/ WriteFails(p) \/ Heartbeat(p)
        \/ Silence(p) \/ Crash(p)
    \/ \E i \in Inodes : Outlive(i)

Spec == Init /\ [][Next]_vars

----------------------------------------------------------------------------
(* Fairness: every process is scheduled, a command that runs ends, sessions *)
(* keep starting hooks, and time passes for a file nobody touches.          *)

Work(p) == Acquiring(p) \/ Steal(p) \/ Releasing(p) \/ WriteRecord(p)

Fairness ==
    /\ \A p \in Procs : WF_vars(Work(p))
    /\ \A i \in Inodes : WF_vars(Outlive(i))

FairSpec == Spec /\ Fairness

----------------------------------------------------------------------------
(* Properties                                                              *)

TypeOK ==
    /\ pc \in [Procs -> Points]
    /\ lockAt \in Inodes \union {None}
    /\ aside \in [Procs -> Inodes \union {None}]
    /\ mine \in [Procs -> Inodes \union {None}]
    /\ written \subseteq Inodes
    /\ old \subseteq Inodes
    /\ silent \subseteq Procs
    /\ lapsed \in BOOLEAN
    /\ crashes \in 0..MaxCrashes
    /\ \A p \in Procs :
        /\ mine[p] # None <=> pc[p] \in Owning
        /\ aside[p] # None <=> pc[p] \in Grabbing

\* The mutex as its callers may rely on it: see RevocableLock.
Promise == INSTANCE RevocableLock
             WITH holders <- Holders, revoked <- Displaced

Implements == Promise!LockSpec

\* While every lock file stays younger than staleMs, two processes are never
\* inside the callback of withLock together.
MutualExclusion == ~lapsed => \A p, q \in Holders : p = q

\* The lock of a process whose heartbeat reaches its file is never reported
\* stolen, whatever file the stealer had aged before the rename (the second
\* age, src/util/lock.ts:186).
OnlySilentRobbed ==
    [][\A p, q \in Procs :
        (pc[p] = "restat" /\ pc'[p] = "drop" /\ mine[q] = aside[p] /\ mine[q] # None)
            => q \in silent]_vars

\* A lock file without a living owner does not keep the store locked for
\* ever, and processes that retry do not keep each other out: again and again
\* one of them creates the lock (stealIfStale, src/util/lock.ts:173).
LockObtainable == []<>(\E p \in Procs : pc[p] = "record")

============================================================================
