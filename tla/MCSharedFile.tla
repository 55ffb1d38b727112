---------------------------- MODULE MCSharedFile ----------------------------
(* Small instances of SharedFile. *)
EXTENDS SharedFile

Plain(text) == [text |-> text, linked |-> FALSE]

\* No file, a line of the user's, one behind a stray begin marker, one behind a
\* marker of another version, one between blocks of two sources, and a link to an
\* empty file.
MCFiles ==
    {Plain(Absent), Plain(<<UserLine(1)>>),
     Plain(<<BeginMark(2, 1), UserLine(1)>>), Plain(<<ForeignMark, UserLine(1)>>),
     Plain(<<BeginMark(2, 1), EndMark(2), UserLine(1), BeginMark(3, 1), EndMark(3)>>),
     Plain(<<Fence, BeginMark(1, 1), EndMark(1), Fence>>),
     Plain(<<Comment, UserLine(1)>>), Plain(<<Tag, UserLine(1)>>),
     [text |-> <<>>, linked |-> TRUE]}

\* A line of the user's, a blank one, and a stray end marker.
MCPasted == {UserLine(2), Blank, EndMark(2), Fence}

=============================================================================
