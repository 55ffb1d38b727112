---------------------------- MODULE MCSourceSync ----------------------------
(* Small instances of SourceSync. *)
EXTENDS SourceSync

\* Three memories and a cap of two: two of them, one over the cap, one with
\* the third alone, the first again, and one without any.
Changing == <<<<1, 1, 0>>, <<1, 1, 1>>, <<0, 0, 2>>, <<1, 1, 0>>, <<0, 0, 0>>>>

\* A source that moves on once.
Moving == <<<<1, 1>>, <<2, 1>>>>

\* Revisions of which two sources cannot both install any pair.
Clashing == <<<<1, 0>>, <<1, 1>>, <<0, 1>>>>

=============================================================================
