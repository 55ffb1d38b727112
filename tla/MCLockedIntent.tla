-------------------------- MODULE MCLockedIntent --------------------------
(* Values for the runs of LockedIntent.                                    *)
EXTENDS LockedIntent, TLC

Symmetry == Permutations(Procs) \union Permutations(Inodes)

\* What a file no name or descriptor leads to once held is never read again:
\* Create clears it.
View ==
    LET Live == {i \in Inodes : ~Unreferenced(i)}
    IN  <<pc, lockAt, aside, mine, written \intersect Live, old \intersect Live,
          silent, lapsed, crashes, storeVars>>

============================================================================
