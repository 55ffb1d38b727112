--------------------------- MODULE MCIntentStore ---------------------------
(* Values for the runs of IntentStore: interchangeable processes, sources. *)
EXTENDS IntentStore, TLC

Symmetry == Permutations(Procs) \union Permutations(Sources)

============================================================================
