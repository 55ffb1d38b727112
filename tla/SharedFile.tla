----------------------------- MODULE SharedFile -----------------------------
(***************************************************************************)
(* A rule file that several sources and the user share: what a run plans   *)
(* for it (planSharedFile in src/engine/rules.ts, and the budget loop of   *)
(* src/engine/plan-install.ts), the changes it applies one after the other *)
(* (src/util/change.ts), and the user who edits the file between two runs. *)
(* A run holds the store lock, so one goes at a time; it may be killed     *)
(* between any two of its steps.  The user's editor takes no lock, but     *)
(* what it saves while a run goes on is overwritten by the rest of the     *)
(* plan or is as if saved behind the run, and so leads to no other text.   *)
(***************************************************************************)
EXTENDS BlockGrammar, FiniteSets

CONSTANTS Keys,         \* source keys
          MaxRev,       \* most rule lines a source renders
          Budget,       \* most lines a reader of the file loads (byteBudget)
          FirstFiles,   \* the file when maxims first meets it: [text, linked]
          Pasted,       \* lines the user may insert
          MaxSaves      \* bound: saves of the user

ASSUME SharedAssumption ==
    /\ Keys \subseteq Nat \ {0}
    /\ MaxRev \in Nat \ {0}
    /\ Budget \in Nat
    /\ MaxSaves \in Nat

VARIABLES file,      \* the text of the shared file, or Absent
          linked,    \* a harness reads the file through a link
          want,      \* the rule lines each installed source renders, or Off
          order,     \* the installed sources, in the order of addedAt
          run,       \* the plan of the run under way, or NoRun
          own,       \* the text the user saved last with no block in it
          saves

vars == <<file, linked, want, order, run, own, saves>>

Off == MaxRev + 1

Installed == {k \in Keys : want[k] # Off}

InOrder(S) == SetToSortSeq(S, <)

NoChange == <<Line("nochange", 0, 0)>>

Unknown == NoChange

\* first: the text the plan was made for.  news: what the sources would render
\* with what was fetched.  wanted: what they render once refused fetches are
\* rolled back.  unread: sources whose store copy cannot be read.  kept: those,
\* and the readable ones that were refused.
NoRun == [on |-> FALSE, hook |-> FALSE, first |-> Absent,
          news |-> [k \in Keys |-> Off], wanted |-> [k \in Keys |-> Off],
          unread |-> {}, kept |-> {}, held |-> FALSE,
          write |-> NoChange, removal |-> NoChange]

Current(text) == IF text = Absent THEN <<>> ELSE text

SharedInit ==
    /\ \E first \in FirstFiles : file = first.text /\ linked = first.linked
    /\ want = [k \in Keys |-> Off]
    /\ order = <<>>
    /\ run = NoRun
    /\ own = IF Occupants(Current(file)) = <<>> THEN file ELSE Unknown
    /\ saves = 0

----------------------------------------------------------------------------
(* The plan of the file: planSharedFile, src/engine/rules.ts *)

Live(wanted, blocks) == {k \in blocks : wanted[k] > 0}

\* The live blocks spliced over the text, then the blocks that render empty
\* taken out of it.
Spliced(text, wanted, blocks) ==
    LET Splice(left, k) == ReplaceBlock(left, k, wanted[k])
    IN StripAll(FoldLeft(Splice, text, InOrder(Live(wanted, blocks))),
                InOrder(blocks \ Live(wanted, blocks)))

\* Seeded fault: a block the run does not render is not wanted.
UnwantedButRendered(text, rendered, keep) ==
    SelectSeq(BlockKeys(text), LAMBDA k : k \notin rendered)

\* The blocks no intent derives any more.
Unwanted(text, rendered, keep) ==
    SelectSeq(BlockKeys(text), LAMBDA k : k \notin rendered \union keep)

Blanked == IF linked THEN <<>> ELSE Absent

Outcome(over, held, write, removal) ==
    [over |-> over, held |-> held, write |-> write, removal |-> removal]

OverBudget == Outcome(TRUE, FALSE, NoChange, NoChange)

Hold == Outcome(FALSE, TRUE, NoChange, NoChange)

\* What one pass over the file comes to: the budget refuses it (over), a
\* marker or a strip holds it, or it writes and then removes.
PlanFile(text, wanted, blocks, keep) ==
    LET Writes(current, spliced, stripped) ==
            Outcome(FALSE, FALSE,
                    IF spliced = current THEN NoChange ELSE spliced,
                    CASE stripped = Emptied -> Blanked
                      [] stripped = spliced -> NoChange
                      [] OTHER -> stripped)
        Stripped(current, spliced, stripped) ==
            IF stripped = Refused THEN Hold ELSE Writes(current, spliced, stripped)
        Judged(current, live, spliced) ==
            CASE IsForeign(current) \/ spliced = Refused -> Hold
              [] ~IsForeign(current) /\ spliced = Emptied ->
                     Outcome(FALSE, FALSE, NoChange, Blanked)
              [] OTHER ->
                     IF live # {} /\ Len(spliced) > Budget THEN OverBudget
                     ELSE Stripped(current, spliced,
                                   StripAll(spliced, Unwanted(spliced, live, keep)))
    IN Judged(Current(text), Live(wanted, blocks), Spliced(Current(text), wanted, blocks))

----------------------------------------------------------------------------
(* What a run refuses: src/engine/plan-install.ts and plan-sync.ts *)

\* The blocks a run draws differently from the file.
Changing(text, wanted, blocks) ==
    LET Differs(occupants) ==
            {k \in Live(wanted, blocks) :
                \/ SlotOf(occupants, k) = 0
                \/ occupants[SlotOf(occupants, k)].text # RenderBlock(k, wanted[k])}
    IN Differs(Occupants(text))

\* The source installed last.
Newest(S) == order[CHOOSE i \in DOMAIN order :
                       /\ order[i] \in S
                       /\ \A j \in DOMAIN order : order[j] \in S => j <= i]

\* The source a file over its budget costs (refuseOverBudget).
Withdrawn(text, wanted, blocks) ==
    LET Among(changing) == Newest(IF changing # {} THEN changing ELSE blocks)
    IN Among(Changing(Current(text), wanted, blocks))

\* The sources with work a hold freezes into its refusal (takeHold).
Frozen(plan, blocks) == IF plan.held THEN blocks ELSE {}

\* The installed sources whose block stays where it is (keepBlock, retain).
Kept(blocks) == Installed \ blocks

\* What an attempt hands on of the plan it rendered.
Attempted(plan, refused) ==
    [refused |-> refused, held |-> plan.held, write |-> plan.write, removal |-> plan.removal]

\* One attempt: a source after the other is withdrawn, its block kept where it
\* is, until the file fits or no source draws in it.
Attempt(text, wanted, kept) ==
    LET works == Installed \ kept
        Within[blocks \in SUBSET works] ==
            LET Judge(plan) ==
                    IF plan.over THEN Within[blocks \ {Withdrawn(text, wanted, blocks)}]
                    ELSE Attempted(plan, (works \ blocks) \union Frozen(plan, blocks))
            IN Judge(PlanFile(text, wanted, blocks, Kept(blocks)))
    IN Within[works]

\* Attempts until one refuses nothing: a refused fetch is rolled back, a source
\* refused as it stood is planned again as if unreadable (planSync).
PlanRun(text, was, news, unread) ==
    LET Mixed(fresh) == [k \in Keys |-> IF k \in fresh THEN news[k] ELSE was[k]]
        Plan[fresh \in SUBSET Keys, kept \in SUBSET Keys] ==
            LET Settle(wanted, attempt) ==
                    IF attempt.refused = {}
                    THEN [wanted |-> wanted, kept |-> kept, held |-> attempt.held,
                          write |-> attempt.write, removal |-> attempt.removal]
                    ELSE Plan[fresh \ attempt.refused,
                              kept \union (attempt.refused \ fresh)]
            IN Settle(Mixed(fresh), Attempt(text, Mixed(fresh), kept))
    IN Plan[{k \in Keys : news[k] # was[k]}, unread]

----------------------------------------------------------------------------
(* A run, one change after the other *)

\* A run that may have fetched a source.  A hook run defers its removals
\* (PlanBuilder.build).
StartRun(news, unread) ==
    LET Planned(plan, hook) ==
            [on |-> TRUE, hook |-> hook, first |-> file,
             news |-> news, wanted |-> plan.wanted,
             unread |-> unread, kept |-> plan.kept, held |-> plan.held,
             write |-> plan.write, removal |-> IF hook THEN NoChange ELSE plan.removal]
    IN /\ ~run.on
       /\ \E hook \in BOOLEAN : run' = Planned(PlanRun(file, want, news, unread), hook)
       /\ UNCHANGED <<file, linked, want, order, own, saves>>

\* An edit overwrites whatever the file holds by now (applyEdit).
ApplyWrite ==
    /\ run.on
    /\ run.write # NoChange
    /\ file' = run.write
    /\ run' = [run EXCEPT !.write = NoChange]
    /\ UNCHANGED <<linked, want, order, own, saves>>

ApplyRemoval ==
    /\ run.on
    /\ run.write = NoChange
    /\ run.removal # NoChange
    /\ file' = run.removal
    /\ run' = [run EXCEPT !.removal = NoChange]
    /\ UNCHANGED <<linked, want, order, own, saves>>

EndRun ==
    /\ run.on
    /\ run.write = NoChange
    /\ run.removal = NoChange
    /\ run' = NoRun
    /\ want' = run.wanted
    /\ UNCHANGED <<file, linked, order, own, saves>>

Kill ==
    /\ run.on
    /\ run' = NoRun
    /\ UNCHANGED <<file, linked, want, order, own, saves>>

----------------------------------------------------------------------------
(* The world: commits of the verbs and of fetches, and the user's editor *)

Intend ==
    /\ ~run.on
    /\ UNCHANGED <<file, linked, run, own, saves>>

Install(k, rev) ==
    /\ Intend
    /\ k \notin Installed
    /\ want' = [want EXCEPT ![k] = rev]
    /\ order' = Append(order, k)

Uninstall(k) ==
    /\ Intend
    /\ k \in Installed
    /\ want' = [want EXCEPT ![k] = Off]
    /\ order' = SelectSeq(order, LAMBDA j : j # k)

\* Memories were enabled or disabled, or a local directory changed.
Move(k, rev) ==
    /\ rev # want[k]
    /\ Intend
    /\ k \in Installed
    /\ want' = [want EXCEPT ![k] = rev]
    /\ UNCHANGED order

Save(text) ==
    /\ ~run.on
    /\ saves < MaxSaves
    /\ saves' = saves + 1
    /\ file' = text
    /\ own' = IF Occupants(text) = <<>> THEN text ELSE Unknown
    /\ UNCHANGED <<linked, want, order, run>>

SaveMore(line) ==
    \E i \in 1..(Len(Current(file)) + 1) : Save(InsertAt(Current(file), i, line))

SaveLess == \E i \in DOMAIN Current(file) : Save(RemoveAt(Current(file), i))

\* What a run meets: nothing new, one unreadable source, or one new revision.
Meets ==
    {<<want, {}>>} \union {<<want, {k}>> : k \in Installed}
        \union {<<[want EXCEPT ![k] = rev], {}>> : k \in Installed, rev \in 0..MaxRev}

SharedNext ==
    \/ \E met \in Meets : StartRun(met[1], met[2])
    \/ ApplyWrite
    \/ ApplyRemoval
    \/ EndRun
    \/ Kill
    \/ \E k \in Keys, rev \in 0..MaxRev : Install(k, rev)
    \/ \E k \in Keys : Uninstall(k)
    \/ \E k \in Keys, rev \in 0..MaxRev : Move(k, rev)
    \/ \E line \in Pasted : SaveMore(line)
    \/ SaveLess

SharedSpec == SharedInit /\ [][SharedNext]_vars

----------------------------------------------------------------------------
(* What holds *)

\* A step that applies a change of a run.
Applies == run.on /\ file' # file

\* An interactive run that is done.
Done == run.on /\ ~run.hook /\ run.write = NoChange /\ run.removal = NoChange

PairsOf(text, k) == SelectSeq(Occupants(Current(text)), LAMBDA o : o.key = k)

Twins(text) == \E k \in Keys : Len(PairsOf(text, k)) > 1

\* "Everything outside the marker pair is preserved" (docs/harnesses.md): no
\* change of a run adds, drops or reorders a line outside the blocks, stray
\* markers around a block and quoted ones included, nor takes one into a block,
\* but for the line that ends what the user's text leaves open (appendBlock).
KeepsUserLines ==
    [][Applies => \E text \in {Current(file), Closed(Current(file))} :
                      Outside(Current(file')) = Outside(text)]_vars

\* A source that cannot be read, or was refused, keeps every block it has in
\* the file, whatever becomes of the blocks around it.
LastGoodKept ==
    [][Applies => \A k \in run.kept : PairsOf(file', k) = PairsOf(file, k)]_vars

\* The blocks stand in the order of their keys.
Sorted(text) ==
    LET Ascend(spans) == \A i \in 2..Len(spans) : text[spans[i - 1][1]].of < text[spans[i][1]].of
    IN Ascend(BlockSpans(text))

RoundTrip ==
    own # Unknown /\ ~IsBlank(own) /\ Occupants(Current(file)) = <<>> =>
        file \in {own, Closed(own)}

AddRemove(text) ==
    text # <<>> /\ Sorted(text) =>
        \A k \in Keys : \A rev \in 1..MaxRev :
            PairsOf(file, k) = <<>> =>
                StripBlock(ReplaceBlock(text, k, rev), k) =
                    IF BlockSpans(text) = <<>> THEN Closed(text) ELSE text

OrderFree(text) ==
    \A j, k \in Keys : \A r, s \in 1..MaxRev :
        j < k => ReplaceBlock(ReplaceBlock(text, j, r), k, s)
                    = ReplaceBlock(ReplaceBlock(text, k, s), j, r)

\* The laws of the splice, at every text the runs and the user lead to.  Adds
\* followed by removes, in any order, give the user's own text back, up to a blank
\* one and to the end of what it left open (stripBlock's comment); taking out the
\* block an add brought gives the file back line for line, also between blocks the
\* user moved apart; and the file depends on what the sources render, not on which
\* is rendered first.
SpliceLaws ==
    /\ RoundTrip
    /\ ~run.on => AddRemove(Current(file)) /\ OrderFree(Current(file))

\* After a run that refused nothing, the file holds the block of
\* each source that renders one, in the order of the keys, and no other.
Converged ==
    Done /\ run.wanted = run.news /\ run.kept = {} /\ ~run.held /\ ~Twins(run.first) =>
        Occupants(Current(file)) =
            LET keys == InOrder(Live(run.wanted, Installed))
            IN [i \in DOMAIN keys |->
                    [key |-> keys[i], text |-> RenderBlock(keys[i], run.wanted[keys[i]])]]

=============================================================================
