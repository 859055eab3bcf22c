--------------------------- MODULE MCPassthroughFs ---------------------------
(* Model-checking instance of PassthroughFs: two names, two host objects,   *)
(* two worker threads, two inode ids, two handle ids.                       *)
EXTENDS PassthroughFs, TLC

CONSTANTS n1, n2, o1, o2, w1, w2

MCNames == {n1, n2}
MCObjects == {o1, o2}
MCWorkers == {w1, w2}

\* Names, objects and workers are interchangeable model values.
MCSymmetry == Permutations(MCNames) \cup Permutations(MCObjects)
                \cup Permutations(MCWorkers)
=============================================================================
