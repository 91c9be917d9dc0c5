------------------------- MODULE MCDoubleLockRerun -------------------------
(***************************************************************************)
(* Two lock keys.  Function F has blocks b1 (entry) and b2, function G the *)
(* block b3; no block calls another function, so _isDoubleLock never      *)
(* reaches the call-graph search and each run's only free choice is the   *)
(* order of the map range.                                                 *)
(***************************************************************************)
EXTENDS DoubleLockRerun, SequencesExt

CONSTANTS F, G, b1, b2, b3, k1, k2

MCFuncs == {F, G}
MCBlocks == {b1, b2, b3}
MCBlockOrder == <<b1, b2, b3>>
MCParent == (b1 :> F) @@ (b2 :> F) @@ (b3 :> G)
MCInitialFunctions == <<F, G>>
MCKeys == {k1, k2}
MCMethods == {"Lock"}

Lk(k) == [op |-> "lock", key |-> k, name |-> "Lock"]
Un(k) == [op |-> "unlock", key |-> k]

\* F's blocks hold up to two locks or unlocks of either key, G's block one
\* lock; b2 follows b1 and either may loop
RerunPrograms ==
    LET A == {Lk(k1), Lk(k2), Un(k1)}
    IN {[code  |-> (b1 :> c1) @@ (b2 :> c2) @@ (b3 :> c3),
         succs |-> (b1 :> s1) @@ (b2 :> s2) @@ (b3 :> {})] :
           c1 \in BoundedSeq(A, 2), c2 \in BoundedSeq(A, 2),
           c3 \in BoundedSeq({Lk(k2)}, 1),
           s1 \in {{b2}, {b1, b2}}, s2 \in {{}, {b1}}}
=============================================================================
