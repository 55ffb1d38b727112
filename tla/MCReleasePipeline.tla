-------------------------- MODULE MCReleasePipeline --------------------------
(* A package nobody has published, and one whose next names a commit of some  *)
(* other line and whose latest was set by hand.                                *)
EXTENDS ReleasePipeline

MCFirstRelease == <<0, 1, 0>>
Entry(source, tag) == [version |-> [release |-> <<0, 0, 1>>, source |-> source], tag |-> tag]
MCInitialLogs ==
  {<< >>, <<Entry(Stray, "next"), Entry(Foreign, "latest")>>}
==============================================================================
