----------------------------- MODULE MCHookPlan -----------------------------
(* Two harnesses that share an event of one registry, which a project rooted  *)
(* at the home directory shares with the user scope, and dsh.                 *)
EXTENDS HookPlan

Artifact(kind, file, event, handler, own) ==
    [kind |-> kind, file |-> file, event |-> event, handler |-> handler, own |-> own]
Hook(handler) == Artifact("registry", "settings", "start", handler, None)
Mcp == Artifact("servers", "settings", "servers", None, None)
Mount == Artifact("bridge", "patch", "row", None, "bridge.json")

Plugin == Artifact("file", None, "plugin", None, "plugin")

MCOrder == <<"codex", "devin", "dsh", "amp">>
Declared(pair) ==
    CASE pair[1] = "codex" -> <<Hook("codex")>>
      [] pair[1] = "devin" -> <<Hook("devin")>>
      [] pair[1] = "dsh"   -> <<Mount>>
      [] pair[1] = "amp"   -> <<Plugin, Mcp>>
Shared == [pair \in {<<"codex", "global">>, <<"codex", "home">>, <<"devin", "global">>} |-> Declared(pair)]
Apart == [pair \in {<<"dsh", "global">>, <<"dsh", "repo">>, <<"amp", "global">>} |-> Declared(pair)]
MCUnhooked == {<<"codex", "global">>, <<"amp", "global">>}

Disk(settings, patch, bridge, plugin) ==
    [f \in {"settings", "patch", "bridge.json", "plugin"} |->
        CASE f = "settings" -> settings [] f = "patch" -> patch
          [] f = "bridge.json" -> bridge [] f = "plugin" -> plugin]
List(note, groups) == [note |-> note, groups |-> groups]
Settings(start, stop) ==
    [EmptyRoot EXCEPT !.hooks = [NoEvents EXCEPT
        !.lists = [e \in Events |-> IF e = "start" THEN start ELSE stop]]]
Noted(group) == [group EXCEPT !.note = TRUE]
ListNoted(group) == [group EXCEPT !.listNote = TRUE]
UserList == List(FALSE, <<Group(<<User>>)>>)

On(settings) == [artifacts |-> Shared, disk |-> Disk(settings, <<>>, Missing, Missing)]
Beside(settings, patch, bridge, plugin) ==
    [artifacts |-> Apart, disk |-> Disk(settings, patch, bridge, plugin)]

\* A registry that is missing, or holds handlers of the user's at the event and
\* at another, ours copied and among the user's, ours alone under a comment at
\* each level, or a byte order mark; the artifacts of dsh and amp, there or not,
\* copied or outdated.
MCWorlds ==
    {On(Missing),
     On(Settings(UserList, UserList)),
     On(Settings(List(FALSE, <<Group(<<User, Outdated, "devin">>), Group(<<"codex">>)>>), Missing)),
     On(Settings(List(FALSE, <<Noted(Group(<<Outdated>>)), ListNoted(Group(<<"codex">>))>>), UserList)),
     On(Settings(List(TRUE, <<Group(<<"devin">>)>>), Missing)),
     On([Settings(List(FALSE, <<Group(<<"devin">>)>>), Missing) EXCEPT !.hooks.note = TRUE]),
     On([Settings(List(FALSE, <<Group(<<"codex">>)>>), Missing) EXCEPT !.bom = TRUE]),
     Beside(Missing, <<>>, Missing, Missing),
     Beside(Missing, <<User>>, <<Outdated>>, <<Outdated>>),
     Beside([EmptyRoot EXCEPT !.servers = [user |-> TRUE, ours |-> "outdated"]],
            <<Outdated, User, Bridge>>, Missing, Written)}
=============================================================================
