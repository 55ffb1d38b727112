--------------------------- MODULE MCProjectLock ---------------------------
(* Two machines, two sources, two names.  Under one intent the first source  *)
(* has both names, under the other one of them; the second has one name or,  *)
(* renamed, the other: the sources collide under some intents only.          *)
EXTENDS ProjectLock, TLC

CONSTANTS a, b, s, t, n, o, whole, part

MCProvides ==
    [src \in {s, t} |-> [i \in {whole, part} |-> IF src = t /\ i = part THEN {n} ELSE {o}]]

MCSymmetry == Permutations(Machines)
=============================================================================
