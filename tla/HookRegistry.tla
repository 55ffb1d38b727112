---------------------------- MODULE HookRegistry ----------------------------
(***************************************************************************)
(* The files a session hook is registered in, as maxims edits them by text *)
(* splices: a registry of events with their handlers, the table of MCP     *)
(* servers beside it, and dsh's patch file with its bridge row.  The text  *)
(* is reduced to what a splice can keep or lose: whose handler stands      *)
(* where, which containers exist, and where the user left a comment.       *)
(*                                                                         *)
(* An ungrouped registry has its handlers directly in the event's list; it *)
(* is a grouped one whose groups hold one handler and no comment, for a    *)
(* removal climbs both alike.                                              *)
(***************************************************************************)
EXTENDS Naturals, Sequences, SequencesExt

CONSTANTS
    Events,     \* the events of a registry
    Handlers,   \* what the definitions of this release register
    WrapperKeys \* the keys a fresh registry is wrapped in

Missing == <<>>
User == "user"          \* a handler, or a row, somebody else wrote
Outdated == "outdated"  \* a handler of an earlier release

ASSUME RegistryConstants == User \notin Handlers /\ WrapperKeys \subseteq STRING

\* A file of the user's that parses, from a group of handlers up.
Groups == [note : BOOLEAN, listNote : BOOLEAN, handlers : Seq(Handlers \union {User, Outdated})]
Lists == [note : BOOLEAN, groups : Seq(Groups)]
Tables == [note : BOOLEAN, lists : [Events -> {Missing} \union Lists]]
ServerTables == [user : BOOLEAN, ours : {"none", "current", "outdated"}]
Docs == [bom : BOOLEAN, note : BOOLEAN, keys : SUBSET STRING,
         hooks : {Missing} \union Tables, servers : {Missing} \union ServerTables]

\* The members of a sequence that are in a set, in their order.
Keep(seq, S) == FlattenSeq([i \in DOMAIN seq |-> IF seq[i] \in S THEN <<seq[i]>> ELSE <<>>])

Group(handlers) == [note |-> FALSE, listNote |-> FALSE, handlers |-> handlers]
EmptyRoot == [bom |-> FALSE, note |-> FALSE, keys |-> {}, hooks |-> Missing, servers |-> Missing]
NoEvents == [note |-> FALSE, lists |-> [e \in Events |-> Missing]]
Servers(ours) == [user |-> FALSE, ours |-> ours]

EventList(doc, e) ==
    IF doc = Missing \/ doc.hooks = Missing THEN Missing ELSE doc.hooks.lists[e]
GroupsOf(doc, e) == LET list == EventList(doc, e) IN IF list = Missing THEN <<>> ELSE list.groups

\* The handlers of ours at an event, in document order, as <<group, position>>.
LocateOurs(doc, e) ==
    LET groups == GroupsOf(doc, e)
        Ours(g) == {i \in DOMAIN groups[g].handlers : groups[g].handlers[i] # User}
        At(g) == Keep([i \in DOMAIN groups[g].handlers |-> <<g, i>>], {g} \X Ours(g))
    IN  FlattenSeq([g \in DOMAIN groups |-> At(g)])

HandlerAt(doc, e, at) == GroupsOf(doc, e)[at[1]].handlers[at[2]]
SetList(doc, e, list) == [doc EXCEPT !.hooks.lists[e] = list]

----------------------------------------------------------------------------
(* The removal of one handler climbs to the highest container it alone     *)
(* kept alive; a comment pins the container it stands in.                  *)

CutHandler(doc, e, at) ==
    SetList(doc, e, [EventList(doc, e) EXCEPT
        !.groups[at[1]].handlers = RemoveAt(@, at[2])])

CutGroup(doc, e, g) ==
    SetList(doc, e, [EventList(doc, e) EXCEPT !.groups = RemoveAt(@, g)])

\* onlyChild: nothing else keeps the table of events alive.
OnlyChild(doc, e) ==
    ~doc.hooks.note /\ \A other \in Events \ {e} : doc.hooks.lists[other] = Missing

CutEvent(doc, e) ==
    IF OnlyChild(doc, e) THEN [doc EXCEPT !.hooks = Missing] ELSE SetList(doc, e, Missing)

\* Seeded fault: the comment inside a handler list does not pin its group.
RemoveOneOverComment(doc, e, at) ==
    LET list == EventList(doc, e)
        lone == Len(list.groups[at[1]].handlers) = 1
    IN  CASE ~lone -> CutHandler(doc, e, at)
          [] lone /\ (Len(list.groups) > 1 \/ list.note) -> CutGroup(doc, e, at[1])
          [] OTHER -> CutEvent(doc, e)

RemoveOne(doc, e, at) ==
    LET list == EventList(doc, e)
        group == list.groups[at[1]]
        lone == Len(group.handlers) = 1 /\ ~group.listNote
    IN  CASE ~lone \/ group.note -> CutHandler(doc, e, at)
          [] lone /\ ~group.note /\ (Len(list.groups) > 1 \/ list.note) -> CutGroup(doc, e, at[1])
          [] OTHER -> CutEvent(doc, e)

\* Remove the n-th handler of ours until fewer are left.
RemoveFrom(doc, e, n) ==
    FoldLeft(LAMBDA d, again : IF Len(LocateOurs(d, e)) < n THEN d
                               ELSE RemoveOne(d, e, LocateOurs(d, e)[n]),
             doc, LocateOurs(doc, e))

RemoveAll(doc, e) == RemoveFrom(doc, e, 1)

\* Seeded fault: one copy is left beside the handler.
LeaveOneDuplicate(doc, e) == RemoveFrom(doc, e, 3)
DropDuplicates(doc, e) == RemoveFrom(doc, e, 2)

Replace(doc, e, at, handler) ==
    SetList(doc, e, [EventList(doc, e) EXCEPT !.groups[at[1]].handlers[at[2]] = handler])

\* appendChild: a member goes in behind the ones that are there, and what the
\* container has of comments stays.
AppendChild(list, group) ==
    IF list = Missing THEN [note |-> FALSE, groups |-> <<group>>]
    ELSE [list EXCEPT !.groups = Append(@, group)]

\* The deepest level that exists receives the rest nested inside it.
Register(doc, e, handler) ==
    LET wrapped == [doc EXCEPT !.keys = @ \union WrapperKeys,
                               !.hooks = IF @ = Missing THEN NoEvents ELSE @]
    IN  SetList(wrapped, e, AppendChild(EventList(wrapped, e), Group(<<handler>>)))

\* A file left with nothing but its wrapper becomes an empty object.
Finished(doc) ==
    IF doc = [EmptyRoot EXCEPT !.keys = WrapperKeys] THEN EmptyRoot ELSE doc

WithoutBom(doc) == [doc EXCEPT !.bom = FALSE]

\* The registry with the hook current, or gone; the document itself when there
\* is nothing to do.
RewriteHookRegistry(doc, e, handler, wanted) ==
    LET ours == LocateOurs(doc, e)
        single == DropDuplicates(WithoutBom(doc), e)
    IN  CASE wanted /\ doc = Missing -> Register(EmptyRoot, e, handler)
          [] wanted /\ doc # Missing /\ ours = <<>> -> Register(WithoutBom(doc), e, handler)
          [] wanted /\ ours # <<>> -> Replace(single, e, LocateOurs(single, e)[1], handler)
          [] ~wanted /\ ours # <<>> -> Finished(RemoveAll(WithoutBom(doc), e))
          [] OTHER -> doc

----------------------------------------------------------------------------
(* The MCP server entry has a key of its own: taking it out leaves the     *)
(* table it stood in, the user's or not.                                   *)

RewriteServers(doc, wanted) ==
    LET held == IF doc = Missing THEN EmptyRoot ELSE WithoutBom(doc)
        registered == doc # Missing /\ doc.servers # Missing /\ doc.servers.ours # "none"
    IN  CASE wanted /\ held.servers = Missing -> [held EXCEPT !.servers = Servers("current")]
          [] wanted /\ held.servers # Missing -> [held EXCEPT !.servers.ours = "current"]
          [] ~wanted /\ registered -> [held EXCEPT !.servers.ours = "none"]
          [] OTHER -> doc

(* dsh's patch file: the first row of ours becomes the canonical one, or   *)
(* leaves, and every copy leaves with it; an emptied file says `[]`.       *)

Bridge == "bridge"
PatchRows == Seq({User, Outdated, Bridge})
UserRows(rows) == Keep(rows, {User})
OurRows(rows) == Keep(rows, Range(rows) \ {User})
EditPatch(rows, wanted) ==
    LET mine == {i \in DOMAIN rows : rows[i] # User}
        first == CHOOSE i \in mine : \A j \in mine : i <= j
        row == IF wanted THEN <<Bridge>> ELSE <<>>
    IN  IF mine = {} THEN rows \o row
        ELSE SubSeq(rows, 1, first - 1) \o row \o UserRows(SubSeq(rows, first + 1, Len(rows)))

----------------------------------------------------------------------------
(* What of a document is not maxims's to touch.                            *)

UserGroups(groups) ==
    LET users == [g \in DOMAIN groups |-> [groups[g] EXCEPT !.handlers = Keep(@, {User})]]
    IN  Keep(users, Range(users) \ {Group(<<>>)})

UserPart(file) ==
    LET doc == IF file = Missing THEN EmptyRoot ELSE file
    IN  [note |-> doc.note, keys |-> doc.keys \ WrapperKeys,
         hooksNote |-> doc.hooks # Missing /\ doc.hooks.note,
         lists |-> [e \in Events |->
             [note |-> EventList(doc, e) # Missing /\ EventList(doc, e).note,
              groups |-> UserGroups(GroupsOf(doc, e))]],
         servers |-> doc.servers # Missing /\ doc.servers.user]

=============================================================================
