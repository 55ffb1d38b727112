------------------------- MODULE FetchLadderProofs -------------------------
(* Theorems about FetchLadder: any number of commits and files, any answers  *)
(* of the transports.                                                        *)
EXTENDS FetchLadder, TLAPS

\* What the rest rests on: commits are commits, and failures have a known kind.
Kinds ==
    /\ head \in Commits
    /\ stage \in {"tree", "read", "done"} => sha \in Commits
    /\ failures \subseteq Failure

\* Nothing is brought, or waits to be written, outside its rung and stage.
Idle ==
    /\ stage \notin {"resolve", "tree"} => rung = None
    /\ stage # "tree" => body = None
    /\ body = None => parser = "off"
    /\ parser = "off" => reading = {} /\ arrived = {}
    /\ rung # "git" => ~config

\* A rung of the tree starts in an empty directory.
Fresh == stage = "tree" /\ rung # None /\ body = None => dir = {}

\* A clone fills it with files of the one commit git checks out.
Cloning ==
    body # None /\ parser = "off" =>
        /\ rung = "git"
        /\ dir \subseteq TreeOf(body, request)

\* The copies a tarball of commit c delivers.
Delivered(c) == [commit: {c}, file: FilesOf[c]]

\* An extraction fills it with files of the resolved commit; while no entry was
\* lost, each of them is on its way or there.
Extracting ==
    parser # "off" =>
        /\ body = sha /\ rung \in {"gh", "http"}
        /\ rung = "gh" => ghReady = TRUE
        /\ reading \subseteq FilesOf[sha]
        /\ unread \subseteq FilesOf[sha]
        /\ parser = "end" => unread = {}
        /\ arrived \cup dir \subseteq Delivered(sha)
        /\ parser # "error" /\ ~unwritten =>
              Delivered(sha) \subseteq
                 arrived \cup dir \cup [commit: {sha}, file: unread \cup reading]

\* What is about to be read is the tree.
Fetched == stage = "read" => MemoryTree(request) = TreeOf(sha, request)

\* The caller is answered once, at the end.
Answered ==
    /\ result # None => stage = "done"
    /\ reported # None => stage = "failed"

IInv ==
    /\ Kinds /\ Idle /\ Fresh /\ Cloning /\ Extracting /\ Fetched /\ Answered
    /\ TreeWhole /\ NothingLeft

----------------------------------------------------------------------------
(* A directory filled completely reads as the tree of its commit. *)

LEMMA ClonedTree ==
    ASSUME NEW c, dir = TreeOf(c, request)
    PROVE  MemoryTree(request) = TreeOf(c, request)
  BY DEF MemoryTree, TreeOf

LEMMA DeliveredTree ==
    ASSUME NEW c, dir = Delivered(c)
    PROVE  MemoryTree(request) = TreeOf(c, request)
  BY DEF MemoryTree, TreeOf, Delivered

\* An extraction that ends well has written every file of its commit, and no other.
LEMMA WellDelivered ==
    ASSUME Extracting, PendingSettled, WellExtracted, unread = {}
    PROVE  dir = Delivered(sha)
  <1>1. arrived = {} /\ reading = {} /\ parser = "end" /\ ~unwritten
    BY DEF PendingSettled, WellExtracted
  <1>2. dir \subseteq Delivered(sha)
    BY <1>1 DEF Extracting
  <1>3. Delivered(sha) \subseteq dir \cup [commit: {sha}, file: {}]
    BY <1>1 DEF Extracting
  <1>4. [commit: {sha}, file: {}] = {}
    OBVIOUS
  <1> QED
    BY <1>2, <1>3, <1>4

LEMMA Priorities ==
    /\ DOMAIN FailurePriority = 1 .. 5
    /\ FailurePriority[1] = "ratelimit" /\ FailurePriority[2] = "auth"
    /\ FailurePriority[3] = "missing" /\ FailurePriority[4] = "invalid"
    /\ FailurePriority[5] = "network"
  BY DEF FailurePriority

LEMMA KindsOfFailure == FailureKinds = {"ratelimit", "auth", "missing", "invalid", "network"}
  <1>1. FailureKinds = {FailurePriority[i] : i \in 1 .. 5}
    BY Priorities DEF FailureKinds
  <1>2. \A i \in 1 .. 5 : i = 1 \/ i = 2 \/ i = 3 \/ i = 4 \/ i = 5
    OBVIOUS
  <1> QED
    BY <1>1, <1>2, Priorities

LEMMA AnswersTyped == ASSUME NEW r PROVE FailuresOf(r) \subseteq Failure
  <1>1. \A kind \in FailureKinds : Plain(kind) \in Failure
    BY DEF Plain, Failure
  <1>2. [kind |-> "ratelimit", retryAfter |-> TRUE] \in Failure
    BY KindsOfFailure DEF Failure
  <1> QED
    BY <1>1, <1>2 DEF FailuresOf

LEMMA InvalidTyped == Plain("invalid") \in Failure
  BY KindsOfFailure DEF Plain, Failure

----------------------------------------------------------------------------
(* The invariant holds at the start and is kept by every step. *)

LEMMA InitIInv == Init => IInv
  BY FetchLadderAssumption
     DEF Init, IInv, Kinds, Idle, Fresh, Cloning, Extracting, Fetched, Answered, TreeWhole,
         NothingLeft, Ended, Commits

LEMMA StepIInv == IInv /\ [Next]_vars => IInv'
  <1> SUFFICES ASSUME IInv, [Next]_vars PROVE IInv'
    OBVIOUS
  <1> USE FetchLadderAssumption
      DEF IInv, Kinds, Idle, Fresh, Cloning, Extracting, Fetched, Answered, TreeWhole, NothingLeft,
          Ended, MemoryTree, TreeOf, extraction, outcome
  <1>1. CASE Climb
    BY <1>1 DEF Climb, StartingEmpty
  <1>2. CASE AskGh
    BY <1>2 DEF AskGh
  <1>3. CASE GitCall
    BY <1>3 DEF GitCall
  <1>4. CASE Skip
    BY <1>4 DEF Skip, MayAnswer, EndRung
  <1>5. CASE Fail
    BY <1>5, AnswersTyped DEF Fail, MayAnswer, EndRung
  <1>6. CASE Resolve
    BY <1>6 DEF Resolve, RefCommit, MayAnswer, Succeed
  <1>7. CASE GiveUp
    BY <1>7 DEF GiveUp
  <1>8. CASE CloneStart
    BY <1>8 DEF CloneStart
  <1>9. CASE CloneFile
    BY <1>9 DEF CloneFile
  <1>10. CASE CloneEnd
    <2>1. CASE CheckedOut(body) /\ Succeed("read") /\ UNCHANGED sha
      <3>1. dir = TreeOf(sha, request)
        BY <1>10, <2>1 DEF CloneEnd, CheckedOut
      <3> QED
        BY <1>10, <2>1, <3>1, ClonedTree DEF CloneEnd, Succeed
    <2>2. CASE EndRung({Plain("invalid")}) /\ UNCHANGED <<ghReady, arrived>>
      BY <1>10, <2>2, InvalidTyped DEF CloneEnd, EndRung
    <2> QED
      BY <1>10, <2>1, <2>2 DEF CloneEnd
  <1>11. CASE Download
    BY <1>11 DEF Download, MayAnswer, Delivered
  <1>12. CASE ReadEntry
    BY <1>12 DEF ReadEntry, Delivered
  <1>13. CASE EntryArrives
    BY <1>13 DEF EntryArrives, Delivered
  <1>14. CASE WriteEntry
    BY <1>14 DEF WriteEntry, Delivered
  <1>15. CASE WriteFails
    BY <1>15 DEF WriteFails
  <1>16. CASE ParserEnd
    BY <1>16 DEF ParserEnd
  <1>17. CASE ParserError
    BY <1>17 DEF ParserError, HungAfterError
  <1>18. CASE Extracted
    <2>1. CASE WellExtracted /\ Succeed("read") /\ UNCHANGED sha
      <3>1. dir = Delivered(sha)
        BY <1>18, <2>1, WellDelivered DEF Extracted, WellExtracted
      <3> QED
        BY <1>18, <2>1, <3>1, DeliveredTree DEF Extracted, PendingSettled, Succeed
    <2>2. CASE EndRung({Plain("invalid")}) /\ UNCHANGED <<ghReady, arrived>>
      BY <1>18, <2>2, InvalidTyped DEF Extracted, PendingSettled, EndRung
    <2> QED
      BY <1>18, <2>1, <2>2 DEF Extracted
  <1>19. CASE ReadTree
    BY <1>19 DEF ReadTree
  <1>20. CASE ReadFails
    BY <1>20 DEF ReadFails
  <1>21. CASE Signal
    BY <1>21 DEF Signal, AtExit
  <1>22. CASE Push
    <2>1. head' \in Commits
      BY <1>22 DEF Push, Commits
    <2> QED
      BY <1>22, <2>1 DEF Push
  <1>23. CASE UNCHANGED vars
    BY <1>23 DEF vars
  <1> QED
    BY <1>1, <1>2, <1>3, <1>4, <1>5, <1>6, <1>7, <1>8, <1>9, <1>10, <1>11, <1>12, <1>13, <1>14,
       <1>15, <1>16, <1>17, <1>18, <1>19, <1>20, <1>21, <1>22, <1>23 DEF Next, Step

----------------------------------------------------------------------------
(* The failure that is reported. *)

\* What ChosenFailure picks is the first kind of FailurePriority that was met.
LEMMA ChosenIsBest ==
    ASSUME NEW failed \in SUBSET Failure, NEW f \in ChosenFailure(failed)
    PROVE  /\ f \in failed
           /\ f.kind = "network" => \A g \in failed : g.kind = "network"
           /\ (\E g \in failed : g.kind = "ratelimit") => f.kind = "ratelimit"
           /\ (\E g \in failed : g.kind = "auth") => f.kind \in {"ratelimit", "auth"}
           /\ (\E g \in failed : g.kind = "missing") => f.kind # "invalid"
           /\ (\E g \in failed : g.kind = f.kind /\ g.retryAfter) => f.retryAfter
  <1>1. /\ f \in failed
        /\ f.retryAfter \/ \A g \in failed : g.kind = f.kind => ~g.retryAfter
    BY DEF ChosenFailure
  <1>2. \A i, j \in 1 .. 5 : FailurePriority[i] = f.kind /\ j < i =>
                                \A g \in failed : g.kind # FailurePriority[j]
    BY Priorities DEF ChosenFailure
  <1>3. \A g \in failed : g.kind \in {"ratelimit", "auth", "missing", "invalid", "network"}
    BY KindsOfFailure DEF Failure
  <1>4. f.kind # "ratelimit" => \A g \in failed : g.kind # "ratelimit"
    BY <1>1, <1>2, <1>3, Priorities
  <1>5. f.kind \notin {"ratelimit", "auth"} => \A g \in failed : g.kind # "auth"
    BY <1>1, <1>2, <1>3, Priorities
  <1>6. f.kind = "network" => \A g \in failed : g.kind = "network"
    BY <1>1, <1>2, <1>3, Priorities
  <1>7. f.kind = "invalid" => \A g \in failed : g.kind # "missing"
    BY <1>1, <1>2, <1>3, Priorities
  <1> QED
    BY <1>1, <1>4, <1>5, <1>6, <1>7

LEMMA GiveUpReportsBest == ASSUME IInv, GiveUp PROVE BestFailure'
  <1>1. failures \in SUBSET Failure /\ failures' = failures /\ request' = request
    BY DEF IInv, Kinds, GiveUp
  <1>2. CASE failures = {}
    <2>1. reported' = ReportedAs(Plain("invalid"), request.resolver)
      BY <1>2 DEF GiveUp
    <2> QED
      BY <1>1, <1>2, <2>1 DEF BestFailure, ReportedAs, Plain
  <1>3. CASE failures # {}
    <2>1. PICK f \in ChosenFailure(failures) : reported' = ReportedAs(f, request.resolver)
      BY <1>3 DEF GiveUp
    <2>2. f \in [kind: FailureKinds, retryAfter: BOOLEAN]
      BY <1>1, <2>1, ChosenIsBest DEF Failure
    <2>3. /\ reported'.retryAfter = f.retryAfter
          /\ reported'.kind = IF f.kind = "ratelimit" /\ request.resolver = "git"
                              THEN "network" ELSE f.kind
      BY <2>1, <2>2 DEF ReportedAs
    <2> QED
      BY <1>1, <2>1, <2>3, ChosenIsBest DEF BestFailure
  <1> QED
    BY <1>2, <1>3

\* Every other step leaves the report and the failures behind it alone.
LEMMA StepBestFailure == IInv /\ BestFailure /\ [Next]_vars => BestFailure'
  <1> SUFFICES ASSUME IInv, BestFailure, [Next]_vars PROVE BestFailure'
    OBVIOUS
  <1>1. CASE GiveUp
    BY <1>1, GiveUpReportsBest
  <1>2. CASE ~GiveUp
    <2>1. UNCHANGED <<request, reported>>
      BY <1>2 DEF Next, Step, vars, extraction, outcome, Climb, AskGh, GitCall, Skip, Fail, Resolve,
                  CloneStart, CloneFile, CloneEnd, Download, ReadEntry, EntryArrives, WriteEntry,
                  WriteFails, ParserEnd, ParserError, Extracted, ReadTree, ReadFails, Signal, Push,
                  EndRung, Succeed
    <2>2. reported # None => UNCHANGED failures
      <3> SUFFICES ASSUME stage = "failed" PROVE UNCHANGED failures
        BY DEF IInv, Answered
      <3>1. rung = None /\ parser = "off"
        BY DEF IInv, Idle
      <3> QED
        BY <1>2, <3>1, FetchLadderAssumption
           DEF Next, Step, vars, extraction, outcome, Climb, AskGh, GitCall, Skip, Fail, MayAnswer,
               Resolve, CloneStart, CloneFile, CloneEnd, Download, ReadEntry, EntryArrives,
               WriteEntry, WriteFails, ParserEnd, ParserError, Extracted, PendingSettled, ReadTree,
               ReadFails, Signal, Push
    <2> QED
      BY <2>1, <2>2 DEF BestFailure
  <1> QED
    BY <1>1, <1>2

----------------------------------------------------------------------------

LEMMA Invariance == Spec => []IInv
  <1> QED
    BY InitIInv, StepIInv, PTL DEF Spec

\* A fetch gives its caller the memories of the commit it resolved, file for file,
\* whichever rungs failed before and wherever they stopped.
THEOREM WholeTree == Spec => []TreeWhole
  <1>1. IInv => TreeWhole
    BY DEF IInv
  <1> QED
    BY <1>1, Invariance, PTL

\* After a fetch no scratch directory is left, and no late write makes one again.
THEOREM LeavesNothing == Spec => []NothingLeft
  <1>1. IInv => NothingLeft
    BY DEF IInv
  <1> QED
    BY <1>1, Invariance, PTL

\* The reported failure is the most actionable one of the ladder that gave up.
THEOREM ReportsBest == Spec => []BestFailure
  <1>1. Init => BestFailure
    BY DEF Init, BestFailure
  <1> QED
    BY <1>1, StepBestFailure, Invariance, PTL DEF Spec

=============================================================================
