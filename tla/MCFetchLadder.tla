--------------------------- MODULE MCFetchLadder ---------------------------
(* Three commits: h, outside the memory folder, joins with the second, and   *)
(* the folder leaves with the third, so that a file of a wrong commit shows. *)
EXTENDS FetchLadder

CONSTANTS f, g, h

MCFilesOf == [c \in Commits |-> CASE c = 1 -> {f, g} [] c = 2 -> {f, g, h} [] OTHER -> {h}]
=============================================================================
