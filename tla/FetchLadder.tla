---------------------------- MODULE FetchLadder ----------------------------
(* One fetch of a GitHub or git source (src/sources/github/ladder.ts,        *)
(* tarball.ts, index.ts, src/sources/git/index.ts): a ref is resolved to a   *)
(* commit, then the commit's files are brought into a scratch directory,     *)
(* each by a ladder of transports tried top to bottom until one succeeds.    *)
(*                                                                           *)
(* The transports are external: they answer anything they could, at any      *)
(* time, while the upstream branch moves; their timeouts make them answer.   *)
(* What ladder.ts decides of an answer is modelled in full, and so is the    *)
(* extraction of a tarball, whose entry writes outlive the parser.           *)
EXTENDS Naturals, Sequences

CONSTANTS
    MaxHead,    \* bound: the upstream branch has commits 1 .. MaxHead
    Files,      \* the memory files of the repository
    FilesOf,    \* FilesOf[c]: the memory files commit c has
    Folder,     \* the files of the memory folder
    None        \* nothing yet

Commits == 1 .. MaxHead

ASSUME FetchLadderAssumption ==
    /\ MaxHead \in Nat \ {0}
    /\ FilesOf \in [Commits -> SUBSET Files]
    /\ Folder \subseteq Files
    /\ None \notin Commits /\ None \notin BOOLEAN /\ None \notin {"gh", "git", "http"}

Copy == [commit: Commits, file: Files]

\* Of a source at large or of its memory folder: what a fetch reads, and what git
\* brings of a sparse checkout (but for top-level files, which nobody reads).
Scanned(req) == IF req.whole THEN Files ELSE Folder
TreeOf(c, req) == [commit: {c}, file: FilesOf[c] \cap Scanned(req)]

\* The most actionable first (FAILURE_PRIORITY).
FailurePriority == <<"ratelimit", "auth", "missing", "invalid", "network">>
FailureKinds == {FailurePriority[i] : i \in DOMAIN FailurePriority}
Failure == [kind: FailureKinds, retryAfter: BOOLEAN]

\* Only an HTTP answer says when to come back.
Plain(kind) == [kind |-> kind, retryAfter |-> FALSE]
FailuresOf(rung) ==
    {Plain(kind) : kind \in FailureKinds}
        \cup IF rung = "http" THEN {[kind |-> "ratelimit", retryAfter |-> TRUE]} ELSE {}

VARIABLES
    request,    \* the resolver, the auth wish, whether the ref is a full sha, and
                \* whether more than the memory folder is read
    head,       \* external: the upstream branch's newest commit
    stage,      \* "resolve", "tree", "read", "done", "failed" or "killed"
    todo,       \* the rungs of this stage's ladder still to climb
    rung,       \* the rung that runs, or None
    previous,   \* the failure the last rung that ran ended in: {} for none, or one skipped
    failures,   \* the failures of this stage's rungs
    ghReady,    \* the remembered answer of `gh auth status`, or None
    sha,        \* the resolved commit
    config,     \* whether a git call's own scratch directory, credentials in it, is there
    body,       \* the commit whose files the running rung delivers, or None
    unread,     \* the entries the tarball's parser has not reached
    reading,    \* the entry whose body is being read
    arrived,    \* copies read and not yet written
    parser,     \* "off", "run", "end" or "error"
    unwritten,  \* whether the write of an entry failed
    dir,        \* the copies in the scratch directory
    result,     \* the copies the caller was given, or None
    reported    \* the failure the caller was given, or None

extraction == <<body, unread, reading, arrived, parser, unwritten>>
outcome == <<config, result, reported>>
vars == <<request, head, stage, todo, rung, previous, failures, ghReady, sha,
          extraction, dir, outcome>>

\* gh is asked under auth only; a git source has git alone.
RungsOf(req) ==
    CASE req.resolver = "git" -> <<"git">>
      [] req.resolver = "github" /\ req.auth -> <<"gh", "git", "http">>
      [] OTHER -> <<"git", "http">>

Fallback == {"http"}
Ended == stage \in {"done", "failed", "killed"}

\* A ref that is a full sha never touches the network.
Init ==
    /\ request \in [resolver: {"github", "git"}, auth: BOOLEAN, pinned: BOOLEAN,
                   whole: BOOLEAN]
    /\ head = 1
    /\ stage = IF request.pinned THEN "tree" ELSE "resolve"
    /\ sha = IF request.pinned THEN 1 ELSE None
    /\ todo = RungsOf(request)
    /\ rung = None /\ previous = {} /\ failures = {} /\ ghReady = None
    /\ body = None /\ unread = {} /\ reading = {} /\ arrived = {} /\ parser = "off" /\ unwritten = FALSE
    /\ dir = {} /\ config = FALSE /\ result = None /\ reported = None

----------------------------------------------------------------------------
(* climb. *)

\* A fallback runs unless the rung before it failed for the network.
AllowsFallback(last) == Plain("network") \notin last

\* Seeded fault: a rung merges its files into what is there.
StartingAsFound(found) == found

\* The files a rung finds in the directory it shares with the others.
StartingEmpty(found) == {}

Climb ==
    /\ rung = None /\ todo # <<>> /\ stage \in {"resolve", "tree"}
    /\ todo' = Tail(todo)
    /\ IF Head(todo) \in Fallback /\ ~AllowsFallback(previous)
       THEN UNCHANGED <<rung, dir>>
       ELSE /\ rung' = Head(todo)
            /\ dir' = IF stage = "tree" THEN StartingEmpty(dir) ELSE dir
    /\ UNCHANGED <<request, head, stage, previous, failures, ghReady, sha, extraction, outcome>>

\* The running rung ends without an answer: skipped, or failed.
EndRung(failed) ==
    /\ rung' = None
    /\ previous' = failed
    /\ failures' = failures \cup failed
    /\ body' = None /\ unread' = {} /\ reading' = {} /\ parser' = "off"
    /\ unwritten' = FALSE
    /\ config' = FALSE                      \* withScratchDir
    /\ UNCHANGED <<request, head, stage, todo, sha, dir, result, reported>>

\* `gh auth status` is asked once and remembered.
AskGh ==
    /\ rung = "gh" /\ ghReady = None
    /\ ghReady' \in BOOLEAN
    /\ UNCHANGED <<request, head, stage, todo, rung, previous, failures, sha, extraction, dir,
                   outcome>>

\* A git call first writes its credentials into a scratch directory of its own.
GitCall ==
    /\ rung = "git" /\ ~config
    /\ config' = TRUE
    /\ UNCHANGED <<request, head, stage, todo, rung, previous, failures, ghReady, sha, extraction,
                   dir, result, reported>>

\* The running rung has asked, and may be told anything.
MayAnswer ==
    /\ rung # None /\ parser = "off"
    /\ rung = "gh" => ghReady = TRUE
    /\ rung = "git" => config

\* The transport's binary is absent, or gh is not logged in.
Skip ==
    /\ \/ rung = "gh" /\ ghReady = FALSE
       \/ MayAnswer /\ body = None /\ rung \in {"gh", "git"}
    /\ EndRung({})
    /\ UNCHANGED <<ghReady, arrived>>

\* It answers an error, times out or throws; a clone may be part-way.
Fail ==
    /\ MayAnswer
    /\ \E f \in FailuresOf(rung) : EndRung({f})
    /\ UNCHANGED <<ghReady, arrived>>

\* A rung succeeds: the ladder ends, and the tree's starts afresh.
Succeed(next) ==
    /\ stage' = next
    /\ todo' = IF next = "tree" THEN RungsOf(request) ELSE <<>>
    /\ rung' = None /\ previous' = {} /\ failures' = {}
    /\ body' = None /\ unread' = {} /\ reading' = {} /\ parser' = "off"
    /\ unwritten' = FALSE
    /\ config' = FALSE
    /\ UNCHANGED <<request, head, ghReady, arrived, dir, result, reported>>

\* parseLsRemote: the commit the remote lists the ref at, the peeled one of a tag.
RefCommit == head

Resolve ==
    /\ stage = "resolve" /\ MayAnswer
    /\ sha' = RefCommit
    /\ Succeed("tree")

\* Seeded fault: the last rung has the word.
AnyFailure(failed) == failed

\* The most actionable kind, and of it one that says when to come back.
ChosenFailure(failed) ==
    {f \in failed :
        /\ \A i, j \in DOMAIN FailurePriority :
              FailurePriority[i] = f.kind /\ j < i => \A g \in failed : g.kind # FailurePriority[j]
        /\ f.retryAfter \/ \A g \in failed : g.kind = f.kind => ~g.retryAfter}

\* A plain git remote has no rate limit to report.
ReportedAs(f, resolver) ==
    IF resolver = "git" /\ f.kind = "ratelimit" THEN [f EXCEPT !.kind = "network"] ELSE f

GiveUp ==
    /\ rung = None /\ todo = <<>> /\ stage \in {"resolve", "tree"}
    /\ stage' = "failed"
    /\ \E f \in IF failures = {} THEN {Plain("invalid")} ELSE ChosenFailure(failures) :
          reported' = ReportedAs(f, request.resolver)
    /\ dir' = {}                            \* withScratchDir
    /\ UNCHANGED <<request, head, todo, rung, previous, failures, ghReady, sha, extraction, config,
                   result>>

----------------------------------------------------------------------------
(* A clone: git checks out some commit, file by file. *)

CloneStart ==
    /\ stage = "tree" /\ rung = "git" /\ config /\ body = None
    /\ body' \in Commits
    /\ UNCHANGED <<request, head, stage, todo, rung, previous, failures, ghReady, sha, unread,
                   reading, arrived, parser, unwritten, dir, outcome>>

CloneFile ==
    /\ rung = "git" /\ body # None
    /\ \E f \in FilesOf[body] \cap Scanned(request) :
          /\ [commit |-> body, file |-> f] \notin dir
          /\ dir' = {c \in dir : c.file # f} \cup {[commit |-> body, file |-> f]}
    /\ UNCHANGED <<request, head, stage, todo, rung, previous, failures, ghReady, sha, extraction,
                   outcome>>

CheckedOut(c) == c = sha

CloneEnd ==
    /\ rung = "git" /\ body # None /\ TreeOf(body, request) \subseteq dir
    /\ \/ CheckedOut(body) /\ Succeed("read") /\ UNCHANGED sha
       \/ /\ ~CheckedOut(body)
          /\ EndRung({Plain("invalid")})
          /\ UNCHANGED <<ghReady, arrived>>

----------------------------------------------------------------------------
(* A tarball: the parser hands the entries over one by one; each is written  *)
(* once its body has been read, which the parser does not wait for.          *)

Download ==
    /\ stage = "tree" /\ rung \in {"gh", "http"} /\ MayAnswer
    /\ body' = sha /\ unread' = FilesOf[sha] /\ parser' = "run"
    /\ UNCHANGED <<request, head, stage, todo, rung, previous, failures, ghReady, sha, reading,
                   arrived, unwritten, dir, outcome>>

ReadEntry ==
    /\ parser = "run" /\ reading = {}
    /\ \E f \in unread : unread' = unread \ {f} /\ reading' = {f}
    /\ UNCHANGED <<request, head, stage, todo, rung, previous, failures, ghReady, sha, body,
                   arrived, parser, unwritten, dir, outcome>>

EntryArrives ==
    /\ parser = "run" /\ reading # {}
    /\ reading' = {}
    /\ arrived' = arrived \cup [commit: {body}, file: reading]
    /\ UNCHANGED <<request, head, stage, todo, rung, previous, failures, ghReady, sha, body,
                   unread, parser, unwritten, dir, outcome>>

\* A write or a mkdir that was left pending lands whatever the ladder does meanwhile.
WriteEntry ==
    /\ \E copy \in arrived :
          /\ arrived' = arrived \ {copy}
          /\ dir' = {c \in dir : c.file # copy.file} \cup {copy}
    /\ UNCHANGED <<request, head, stage, todo, rung, previous, failures, ghReady, sha, body,
                   unread, reading, parser, unwritten, outcome>>

\* A write that fails keeps its file out; the extraction hears of it at the end.
WriteFails ==
    /\ parser # "off"
    /\ \E copy \in arrived : arrived' = arrived \ {copy}
    /\ unwritten' = TRUE
    /\ UNCHANGED <<request, head, stage, todo, rung, previous, failures, ghReady, sha, body,
                   unread, reading, parser, dir, outcome>>

ParserEnd ==
    /\ parser = "run" /\ unread = {} /\ reading = {}
    /\ parser' = "end"
    /\ UNCHANGED <<request, head, stage, todo, rung, previous, failures, ghReady, sha, body,
                   unread, reading, arrived, unwritten, dir, outcome>>

\* Seeded fault: the entry cut off keeps waiting for the rest of its body.
HungForever(entries) == entries

\* The body reads the parser's error leaves waiting: it fails them by hand.
HungAfterError(entries) == {}

\* A corrupt archive, or one cut off inside an entry.
ParserError ==
    /\ parser = "run"
    /\ parser' = "error"
    /\ reading' = HungAfterError(reading)
    /\ UNCHANGED <<request, head, stage, todo, rung, previous, failures, ghReady, sha, body,
                   unread, arrived, unwritten, dir, outcome>>

\* Seeded fault: the extraction ends with its parser.
ParserStopped == parser \in {"end", "error"}

\* allSettled(pending): no entry is being read or written any more.
PendingSettled == parser \in {"end", "error"} /\ reading = {} /\ arrived = {}

WellExtracted == parser = "end" /\ ~unwritten

Extracted ==
    /\ PendingSettled
    /\ \/ WellExtracted /\ Succeed("read") /\ UNCHANGED sha
       \/ /\ ~WellExtracted
          /\ EndRung({Plain("invalid")})
          /\ UNCHANGED <<ghReady, arrived>>

----------------------------------------------------------------------------
\* What the exit hooks leave of a scratch directory.
AtExit(found) == {}

\* readMemoryTree: the memory files under the folder it scans.
MemoryTree(req) == {c \in dir : c.file \in Scanned(req)}

\* The tree is read and the scratch directory removed.
ReadTree ==
    /\ stage = "read"
    /\ result' = MemoryTree(request)
    /\ stage' = "done"
    /\ dir' = {}
    /\ UNCHANGED <<request, head, todo, rung, previous, failures, ghReady, sha, extraction, config, reported>>

\* There is no memory folder, or it is reached through a link.
ReadFails ==
    /\ stage = "read" /\ MemoryTree(request) = {}
    /\ stage' = "failed"
    /\ dir' = {}
    /\ UNCHANGED <<request, head, todo, rung, previous, failures, ghReady, sha, extraction, outcome>>

\* SIGINT, SIGTERM or SIGHUP at any moment; no SIGKILL.
Signal ==
    /\ ~Ended
    /\ stage' = "killed"
    /\ dir' = AtExit(dir)
    /\ config' = FALSE
    /\ todo' = <<>> /\ rung' = None /\ arrived' = {} /\ reading' = {} /\ unread' = {}
    /\ parser' = "off" /\ body' = None /\ unwritten' = FALSE
    /\ UNCHANGED <<request, head, previous, failures, ghReady, sha, result, reported>>

\* External: someone pushes.
Push ==
    /\ ~Ended /\ head < MaxHead
    /\ head' = head + 1
    /\ UNCHANGED <<request, stage, todo, rung, previous, failures, ghReady, sha, extraction, dir,
                   outcome>>

Step ==
    \/ Climb \/ AskGh \/ GitCall \/ Skip \/ Fail \/ Resolve \/ GiveUp
    \/ CloneStart \/ CloneFile \/ CloneEnd
    \/ Download \/ ReadEntry \/ EntryArrives \/ WriteEntry \/ WriteFails
    \/ ParserEnd \/ ParserError \/ Extracted
    \/ ReadTree \/ ReadFails

Next == Step \/ Signal \/ Push

\* Every transport answers or times out, and the event loop goes on.
Spec == Init /\ [][Next]_vars /\ WF_vars(Step)

----------------------------------------------------------------------------
(* Properties. *)

\* What a fetch gives its caller is the memories of the commit it resolved, file
\* for file: nothing of a rung that failed half-way, of a write that landed
\* late, or of a commit pushed in between.
TreeWhole == result # None => result = TreeOf(sha, request)

\* Once a fetch has ended, whichever way, its scratch directories stay gone: the
\* tree's, which late writes could fill again, and that of a call's credentials.
NothingLeft == Ended => dir = {} /\ ~config

\* The failure reported is the most actionable one any rung of the ladder met,
\* and says when to come back if one of that kind did; a git source never
\* reports a rate limit.
BestFailure ==
    reported # None =>
        /\ failures # {} =>
              \E f \in failures :
                  /\ reported.retryAfter = f.retryAfter
                  /\ reported.kind = IF f.kind = "ratelimit" /\ request.resolver = "git"
                                     THEN "network" ELSE f.kind
                  /\ f.kind = "network" => \A g \in failures : g.kind = "network"
                  /\ (\E g \in failures : g.kind = "ratelimit") => f.kind = "ratelimit"
                  /\ (\E g \in failures : g.kind = "auth") => f.kind \in {"ratelimit", "auth"}
                  /\ (\E g \in failures : g.kind = "missing") => f.kind # "invalid"
                  /\ (\E g \in failures : g.kind = f.kind /\ g.retryAfter) => f.retryAfter
        /\ request.resolver = "git" => reported.kind # "ratelimit"

\* A fetch ends: no transport, entry or archive leaves it waiting for ever.
EveryFetchEnds == <>Ended

=============================================================================
