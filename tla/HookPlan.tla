------------------------------ MODULE HookPlan ------------------------------
(***************************************************************************)
(* Session hooks across harnesses and scopes: which of them wants its      *)
(* artifacts (a registry entry, an MCP server, a file of maxims's own, the *)
(* dsh bridge) at the user scope and in each project, what one run plans   *)
(* for those it reaches, and how the plan is applied change by change.     *)
(* Artifacts meet: two harnesses may share an entry, a project rooted at   *)
(* the home directory shares the user's registry, and the bridge is one    *)
(* for all scopes.                                                         *)
(***************************************************************************)
EXTENDS HookRegistry, FiniteSets

CONSTANTS
    Order,      \* the harness definitions, in the order a run takes them
    Files,      \* the files of the user's
    OwnFiles,   \* the files that are maxims's own, written and deleted whole
    Worlds,     \* the definitions a machine may have, <<harness, place>> to the
                \* artifacts there, with what its disk holds before the first run
    Unhooked,   \* the pairs an add may list without asking for the hook
    Roots,      \* where runs are started: in a project, or Global for none
    Filters,    \* the harnesses a run may be kept to with -a
    MaxLocks    \* how often a file stops parsing or is locked

Global == "global"
None == "none"
Harnesses == Range(Order)
Places == {Global} \union UNION {{pair[2] : pair \in DOMAIN world.artifacts} : world \in Worlds}

ArtifactsOf(declared) == UNION {Range(declared[pair]) : pair \in DOMAIN declared}
PatchFilesOf(declared) == {a.file : a \in {b \in ArtifactsOf(declared) : b.kind = "bridge"}}

ASSUME NamesDeclared ==
    /\ Files \intersect OwnFiles = {} /\ None \notin Files \union OwnFiles
    /\ Order \in Seq(Harnesses) /\ IsFiniteSet(Places)

ASSUME WorldsDeclared ==
    \A world \in Worlds :
        /\ \A pair \in DOMAIN world.artifacts :
              world.artifacts[pair] \in Seq(ArtifactsOf(world.artifacts))
        /\ \A a \in ArtifactsOf(world.artifacts) :
              /\ a.kind \in {"registry", "servers", "bridge", "file"}
              /\ a.file \in Files \union {None} /\ a.own \in OwnFiles \union {None}
              /\ (a.file = None) <=> (a.kind = "file")
              /\ (a.own = None) <=> (a.kind \in {"registry", "servers"})
              /\ a.kind = "registry" => a.event \in Events /\ a.handler \in Handlers

\* dsh alone has a bridge: one patch file of the machine, one file of maxims's own
\* beside it, and nothing else is registered there.
ASSUME BridgesDeclared ==
    \A world \in Worlds : \A p, q \in DOMAIN world.artifacts :
        \A a \in Range(world.artifacts[p]), b \in Range(world.artifacts[q]) :
            (b.kind = "bridge" /\ a.file = b.file) =>
                p[1] = q[1] /\ a.kind = "bridge" /\ a.own = b.own

ASSUME DisksDeclared ==
    \A world \in Worlds :
        /\ DOMAIN world.disk = Files \union OwnFiles
        /\ \A f \in Files : world.disk[f] \in
              (IF f \in PatchFilesOf(world.artifacts) THEN PatchRows ELSE {Missing} \union Docs)

VARIABLES
    artifacts, \* what the definitions of this machine declare
    listed,  \* the pairs some source of the state lists
    hooks,   \* the pairs whose hook state.hooks asks for
    disk,    \* what each file holds
    access,  \* "ok", "broken" (does not parse), "locked" (the edit is refused)
    run,     \* the run being applied
    todo,    \* the changes of its plan still to apply
    locks
vars == <<artifacts, listed, hooks, disk, access, run, todo, locks>>

Pairs == DOMAIN artifacts
Wants(h, p) == <<h, p>> \in hooks \intersect listed
PlacesOf(root) == IF root = Global THEN <<Global>> ELSE <<Global, root>>
ArtifactsAt(h, p) == IF <<h, p>> \in Pairs THEN artifacts[h, p] ELSE <<>>

----------------------------------------------------------------------------
(* One answer per artifact: what happens to the file that is maxims's own, *)
(* and whether an entry in a file of the user's is to be rewritten.        *)

\* assertParses: a file its vendor would not load is not edited.
Parses(f) == access[f] # "broken"

Rewritten(a, text, wanted) ==
    CASE a.kind = "registry" -> RewriteHookRegistry(text, a.event, a.handler, wanted)
      [] a.kind = "servers"  -> RewriteServers(text, wanted)
      [] a.kind = "bridge"   -> EditPatch(text, wanted)

Answer(h, p, a, wanted, own, rewrite) ==
    [harness |-> h, place |-> p, art |-> a, wanted |-> wanted, own |-> own, rewrite |-> rewrite]

Written == <<"current">>
FileHook(d, h, p, a, wanted) ==
    Answer(h, p, a, wanted,
           IF wanted THEN IF d[a.own] = Written THEN None ELSE "write"
           ELSE IF d[a.own] = Missing THEN None ELSE "delete", FALSE)

\* The bridge's hooks file is named whenever it, or the row, is there.
BridgeAnswers(d, h, p, a, wanted) ==
    LET moves == Rewritten(a, d[a.file], wanted) # d[a.file]
        own == IF wanted THEN "write"
               ELSE IF moves \/ d[a.own] # Missing THEN "delete" ELSE None
    IN  IF ~Parses(a.file) \/ (own = None /\ ~moves) THEN <<>>
        ELSE <<Answer(h, p, a, wanted, own, moves)>>

AnswersOf(d, h, p, a, wanted) ==
    CASE a.kind = "bridge" -> BridgeAnswers(d, h, p, a, wanted)
      [] a.kind = "file"   -> <<FileHook(d, h, p, a, wanted)>>
      [] OTHER             -> <<Answer(h, p, a, wanted, None, TRUE)>>

AnswersAt(d, h, p, wanted) ==
    FlattenSeq([i \in DOMAIN ArtifactsAt(h, p) |-> AnswersOf(d, h, p, ArtifactsAt(h, p)[i], wanted)])

Claims(answer) ==
    (IF answer.own # None \/ answer.art.kind = "file" THEN {answer.art.own} ELSE {})
        \union (IF answer.rewrite THEN {answer.art.file} ELSE {})

OwnScopes(d, h, places) ==
    FlattenSeq([i \in DOMAIN places |-> AnswersAt(d, h, places[i], Wants(h, places[i]))])

\* The files the run's own scopes resolve to; of the bridge only its own file,
\* and only when a change names it.
Reach(own) ==
    UNION {IF answer.art.kind = "bridge" THEN Claims(answer) \ {answer.art.file} ELSE Claims(answer)
           : answer \in Range(own)}

\* Another project's artifact in a file this run reaches is planned as wanted.
Elsewhere(d, h, others, reach) ==
    LET all == FlattenSeq([i \in DOMAIN others |-> AnswersAt(d, h, others[i], TRUE)])
    IN  Keep(all, {answer \in Range(all) : Claims(answer) \intersect reach # {}})

WithElsewhere(d, h, root, own) ==
    own \o Elsewhere(d, h, SetToSeq({p \in Places \ Range(PlacesOf(root)) : Wants(h, p)}), Reach(own))
HarnessAnswers(d, h, root) == WithElsewhere(d, h, root, OwnScopes(d, h, PlacesOf(root)))

----------------------------------------------------------------------------
(* Landing the rewrites, each over the text the one before it left.        *)

Entry(a) == <<a.file, a.kind, a.event>>

Landed(acc, answer) ==
    [acc EXCEPT !.applied = @ \union {answer},
                !.owned = IF answer.wanted /\ answer.rewrite THEN @ \union {Entry(answer.art)} ELSE @]

LandRewrite(acc, answer) ==
    LET f == answer.art.file
        new == Rewritten(answer.art, acc.text[f], answer.wanted)
        failed == [acc EXCEPT !.failures = @ \union {f}]
    IN  CASE ~Parses(f) -> IF answer.wanted THEN failed ELSE acc
          [] Parses(f) /\ new = acc.text[f] -> Landed(acc, answer)
          [] Parses(f) /\ access[f] = "locked" /\ new # acc.text[f] -> failed
          [] Parses(f) /\ access[f] = "ok" /\ new # acc.text[f] ->
                Landed([acc EXCEPT !.text[f] = new,
                                   !.waited = IF answer.wanted THEN @ \union {f} ELSE @], answer)

Land(acc, answer) == IF answer.rewrite THEN LandRewrite(acc, answer) ELSE Landed(acc, answer)

\* A removal is dropped for a file a wanted answer of the same harness keeps.
Admitted(answers) ==
    LET wanted == {answer \in Range(answers) : answer.wanted}
        kept == UNION {Claims(answer) : answer \in wanted}
        held == UNION {Claims(answer) : answer \in {w \in wanted : ~w.rewrite}}
    IN  Keep(answers, wanted \union
            {answer \in Range(answers) :
                /\ answer.own # None => answer.art.own \notin kept
                /\ answer.rewrite => answer.art.file \notin held})

LandWanted(acc, answers) ==
    FoldLeft(Land, acc, Keep(answers, {answer \in Range(answers) : answer.wanted}))
\* Seeded fault: an entry a wanted answer owns is taken out all the same.
LandUnowned(acc, answers) ==
    FoldLeft(Land, acc, Keep(answers, {answer \in Range(answers) : ~answer.wanted}))
LandUnwanted(acc, answers) ==
    FoldLeft(LAMBDA at, answer :
                 IF answer.wanted \/ (answer.rewrite /\ Entry(answer.art) \in acc.owned) THEN at
                 ELSE Land(at, answer),
             acc, answers)

----------------------------------------------------------------------------
(* The plan: an answer's own file goes before the edit of the user's file, *)
(* and a file's edit is a removal only while nothing wanted altered it.    *)

Change(target, value) == [target |-> target, value |-> value]
OwnChange(answer) ==
    IF answer.own = None THEN <<>>
    ELSE <<Change(answer.art.own, IF answer.own = "write" THEN Written ELSE Missing)>>

\* Seeded fault: the edit of the user's file goes before the file it leads to.
EmitEditFirst(plan, d, landed, answer) ==
    LET f == answer.art.file
        edit == IF answer.rewrite /\ f \notin plan.files /\ landed.text[f] # d[f]
                THEN <<Change(f, landed.text[f])>> ELSE <<>>
        own == IF answer \in landed.applied THEN OwnChange(answer) ELSE <<>>
    IN  [changes |-> plan.changes \o (IF f \in landed.waited THEN edit ELSE <<>>)
                        \o (IF answer.wanted THEN own ELSE <<>>),
         removals |-> plan.removals \o (IF f \in landed.waited THEN <<>> ELSE edit)
                        \o (IF answer.wanted THEN <<>> ELSE own),
         files |-> IF answer.rewrite THEN plan.files \union {f} ELSE plan.files,
         failures |-> {}]

Emit(plan, d, landed, answer) ==
    LET f == answer.art.file
        own == IF answer \in landed.applied THEN OwnChange(answer) ELSE <<>>
        edit == IF answer.rewrite /\ f \notin plan.files /\ landed.text[f] # d[f]
                THEN <<Change(f, landed.text[f])>> ELSE <<>>
        wantedEdit == f \in landed.waited
    IN  [changes |-> plan.changes \o (IF answer.wanted THEN own ELSE <<>>)
                        \o (IF wantedEdit THEN edit ELSE <<>>),
         removals |-> plan.removals \o (IF answer.wanted THEN <<>> ELSE own)
                        \o (IF wantedEdit THEN <<>> ELSE edit),
         files |-> IF answer.rewrite THEN plan.files \union {f} ELSE plan.files,
         failures |-> {}]

PlannedChanges(d, landed, admitted) ==
    FoldLeft(LAMBDA plan, answer : Emit(plan, d, landed, answer),
             [changes |-> <<>>, removals |-> <<>>, files |-> {}, failures |-> {}], admitted)

\* A wanted bridge cannot be planned over a patch file that does not parse.
BridgeFailures(agents) ==
    {f \in Files : /\ ~Parses(f)
                   /\ \E pair \in Pairs : /\ pair[1] \in agents /\ Wants(pair[1], pair[2])
                                          /\ \E a \in Range(artifacts[pair]) :
                                                 a.kind = "bridge" /\ a.file = f}

Untouched(d) ==
    [text |-> [f \in Files |-> d[f]], waited |-> {}, owned |-> {}, applied |-> {}, failures |-> {}]

Finish(d, agents, admitted, landed) ==
    [PlannedChanges(d, landed, admitted) EXCEPT !.failures = landed.failures \union BridgeFailures(agents)]

\* A wanted answer whose rewrite was refused claims nothing.
LandAll(d, agents, answers, wanted) ==
    LET Standing(own) ==
            Keep(own, {answer \in Range(own) : answer.wanted => answer \in wanted.applied})
        AdmitAll(admitted) == Finish(d, agents, admitted, LandUnwanted(wanted, admitted))
    IN  AdmitAll(FlattenSeq([i \in DOMAIN answers |-> Admitted(Standing(answers[i]))]))

Planned(d, agents, answers) ==
    LandAll(d, agents, answers, LandWanted(Untouched(d), FlattenSeq(answers)))

\* The changes and the removals of one run over a disk, and the files it fails on.
PlanHooks(d, root, agents) ==
    LET defs == Keep(Order, agents)
    IN  Planned(d, agents, [i \in DOMAIN defs |-> HarnessAnswers(d, defs[i], root)])

----------------------------------------------------------------------------
NoRun == [root |-> Global, agents |-> {}, hook |-> FALSE]

Init ==
    /\ listed = {} /\ hooks = {}
    /\ \E world \in Worlds : artifacts = world.artifacts /\ disk = world.disk
    /\ access = [f \in Files |-> "ok"]
    /\ run = NoRun /\ todo = <<>> /\ locks = 0

\* add lists the harness at a scope, with --add-hook asks for its hook; remove
\* takes the last source for it away.  Both settle the lists.

Pruned(asked, named) == asked \intersect named

\* withHooks: the pair joins what is asked for, and nothing leaves.
WithHooks(pair, asked) == IF asked THEN hooks \union {pair} ELSE hooks

Idle == run = NoRun
Add(pair, withHook) ==
    /\ Idle
    /\ withHook \/ pair \in Unhooked
    /\ listed' = listed \union {pair}
    /\ hooks' = Pruned(WithHooks(pair, withHook), listed')
    /\ UNCHANGED <<artifacts, disk, access, run, todo, locks>>

RemoveLast(pair) ==
    /\ Idle /\ pair \in listed
    /\ listed' = listed \ {pair}
    /\ hooks' = Pruned(hooks, listed')
    /\ UNCHANGED <<artifacts, disk, access, run, todo, locks>>

\* Seeded fault: a hook run takes away as well.
AllChanges(plan, hook) == plan.changes \o plan.removals

\* A hook run defers what only takes away.
Changes(plan, hook) == plan.changes \o (IF hook THEN <<>> ELSE plan.removals)

\* A change the disk does not already say.
Effective(d, changes) == \E i \in DOMAIN changes : d[changes[i].target] # changes[i].value

Sync(root, agents) ==
    /\ Idle
    /\ \E plan \in {PlanHooks(disk, root, agents)}, hook \in {on \in BOOLEAN : on => agents = Harnesses} :
         /\ Effective(disk, Changes(plan, hook))
         /\ run' = [root |-> root, agents |-> agents, hook |-> hook]
         /\ todo' = Changes(plan, hook)
    /\ UNCHANGED <<artifacts, listed, hooks, disk, access, locks>>

Apply ==
    /\ todo # <<>>
    /\ disk' = [disk EXCEPT ![Head(todo).target] = Head(todo).value]
    /\ todo' = Tail(todo)
    /\ run' = IF Len(todo) = 1 THEN NoRun ELSE run
    /\ UNCHANGED <<artifacts, listed, hooks, access, locks>>

\* A write fails, or the process is killed: the rest of the plan is dropped.
Abandon ==
    /\ todo # <<>>
    /\ todo' = <<>> /\ run' = NoRun
    /\ UNCHANGED <<artifacts, listed, hooks, disk, access, locks>>

----------------------------------------------------------------------------
(* What a file holds when the first run comes is the user's doing, copies  *)
(* and outdated forms of ours included; later on a file may stop parsing,  *)
(* or come to lie behind a link the edit refuses.                          *)

PatchFiles == PatchFilesOf(artifacts)

SetAccess(f, how) ==
    /\ Idle /\ access[f] # how
    /\ how # "ok" => disk[f] # Missing /\ locks < MaxLocks
    /\ locks' = IF how = "ok" THEN locks ELSE locks + 1
    /\ access' = [access EXCEPT ![f] = how]
    /\ UNCHANGED <<artifacts, listed, hooks, disk, run, todo>>

Next ==
    \/ \E pair \in Pairs : RemoveLast(pair) \/ \E withHook \in BOOLEAN : Add(pair, withHook)
    \/ \E root \in Roots, agents \in Filters \union {Harnesses} : Sync(root, agents)
    \/ Apply \/ Abandon
    \/ \E f \in Files, how \in {"ok", "broken", "locked"} : SetAccess(f, how)

HookSpec == Init /\ [][Next]_vars

----------------------------------------------------------------------------
(* Properties.                                                             *)

Documents == Files \ PatchFiles
\* What an entry, or a file of maxims's own, holds of ours.
OursAt(d, a) ==
    CASE a.kind = "registry" -> LET ours == LocateOurs(d[a.file], a.event)
                                IN  [i \in DOMAIN ours |-> HandlerAt(d[a.file], a.event, ours[i])]
      [] a.kind = "servers" -> IF d[a.file] = Missing \/ d[a.file].servers = Missing
                                  \/ d[a.file].servers.ours = "none" THEN <<>> ELSE <<d[a.file].servers.ours>>
      [] a.kind = "bridge" -> OurRows(d[a.file])
      [] a.kind = "file" -> d[a.own]

Canonical(a) == IF a.kind = "registry" THEN a.handler ELSE IF a.kind = "bridge" THEN Bridge ELSE "current"
Shares(a, b) == Entry(a) = Entry(b) /\ a.own = b.own
WantedLike(a, places) ==
    {b \in UNION {Range(artifacts[pair]) : pair \in {want \in hooks \intersect listed : want[2] \in places}} :
        Shares(a, b)}

Reached(root) == UNION {Range(ArtifactsAt(h, p)) : h \in Harnesses, p \in Range(PlacesOf(root))}

\* An artifact is where something wants it in this run, with one form of ours,
\* and gone where nothing does anywhere.
InOrder(d, a, root) ==
    /\ WantedLike(a, Range(PlacesOf(root))) # {} =>
          /\ \E b \in WantedLike(a, Places) : OursAt(d, a) = <<Canonical(b)>>
          /\ a.own # None => d[a.own] = Written
    /\ WantedLike(a, Places) = {} => OursAt(d, a) = <<>> /\ (a.own # None => d[a.own] = Missing)

After(d, changes) == FoldLeft(LAMBDA at, c : [at EXCEPT ![c.target] = c.value], d, changes)

\* One complete interactive run is enough, whatever earlier runs, kills, refused
\* edits and the user left: a second one over what it makes finds nothing to do,
\* and every artifact it reaches and reports no failure about is then in order.
OneRunSettles ==
    Idle => \A root \in Roots : \E plan \in {PlanHooks(disk, root, Harnesses)} :
        \E after \in {After(disk, Changes(plan, FALSE))} :
            /\ ~Effective(after, Changes(PlanHooks(after, root, Harnesses), FALSE))
            /\ \A a \in Reached(root) :
                   \/ a.file \in plan.failures \/ (a.file # None /\ ~Parses(a.file))
                   \/ InOrder(after, a, root)

\* No write of a run touches what the user wrote.
UserKept ==
    [][todo # <<>> =>
         /\ \A f \in Documents : UserPart(disk'[f]) = UserPart(disk[f])
         /\ \A f \in PatchFiles : UserRows(disk'[f]) = UserRows(disk[f])]_vars

\* No complete run takes away what something wants: of the bridge, no row and no
\* hooks file a row leads to.
WantedStays ==
    [][(todo # <<>> /\ run.agents = Harnesses) =>
         \A pair \in hooks \intersect listed : \A a \in Range(artifacts[pair]) :
            OursAt(disk, a) # <<>> =>
               /\ OursAt(disk', a) # <<>>
               /\ (a.own # None /\ disk[a.own] # Missing) => disk'[a.own] # Missing]_vars

\* A bridge row appears over a hooks file that is there.
RowBacked ==
    [][\A a \in ArtifactsOf(artifacts) :
         (a.kind = "bridge" /\ OursAt(disk, a) = <<>> /\ OursAt(disk', a) # <<>>) => disk'[a.own] # Missing]_vars

\* A hook run takes nothing away on its own account: it deletes no file, and it
\* starts only where something wanted is not in its place.
HookDefers ==
    [][/\ run.hook => \A f \in OwnFiles : disk[f] # Missing => disk'[f] # Missing
       /\ (Idle /\ run'.hook) => \E pair \in hooks \intersect listed : \E a \in Range(artifacts[pair]) :
              \/ OursAt(disk, a) # <<Canonical(a)>> \/ (a.own # None /\ disk[a.own] # Written)
              \/ (a.file \in Documents /\ disk[a.file].bom)]_vars

=============================================================================
