---------------------------- MODULE MCDoubleLock ----------------------------
(***************************************************************************)
(* Model-checking instance of DoubleLock.  Function F has two blocks b1    *)
(* (entry) and b2, function G one block b3.  Every program has b2          *)
(* reachable from b1, as the SSA builder guarantees (unreachable blocks    *)
(* are removed), and Init ranges over every such program whose blocks hold *)
(* at most a bound of instructions of the per-block alphabets below.      *)
(***************************************************************************)
EXTENDS DoubleLock

CONSTANTS F, G, b1, b2, b3, k1

MCFuncs == {F, G}
MCBlocks == {b1, b2, b3}
MCBlockOrder == <<b1, b2, b3>>
MCParent == (b1 :> F) @@ (b2 :> F) @@ (b3 :> G)
MCInitialFunctions == <<F, G>>
MCKeys == {k1}
MCMethods == {"Lock"}

Lk == [op |-> "lock", key |-> k1, name |-> "Lock"]
Un == [op |-> "unlock", key |-> k1]
DeferUn == [op |-> "deferunlock", key |-> k1]
CallG == [op |-> "call", fn |-> G]
GoG == [op |-> "go", fn |-> G]
CallF == [op |-> "call", fn |-> F]

\* the programs whose blocks b1, b2, b3 hold at most n1, n2, n3
\* instructions of the alphabets A1, A2, A3
ProgramsOf(A1, n1, A2, n2, A3, n3) ==
    {[code  |-> (b1 :> c1) @@ (b2 :> c2) @@ (b3 :> c3),
      succs |-> (b1 :> s1) @@ (b2 :> s2) @@ (b3 :> s3)] :
        c1 \in BoundedSeq(A1, n1), c2 \in BoundedSeq(A2, n2), c3 \in BoundedSeq(A3, n3),
        s1 \in {{b2}, {b1, b2}}, s2 \in SUBSET {b1, b2}, s3 \in SUBSET {b3}}

\* long blocks: an unlock can separate two locks of one block, and F's
\* entry block may call G
IntraPrograms == ProgramsOf({Lk, Un, CallG}, 4, {Lk, Un}, 2, {Lk, Un}, 2)

\* F locks, unlocks, calls or launches G; G locks, unlocks, defers an
\* unlock or calls back into F
InterPrograms ==
    ProgramsOf({Lk, Un, CallG, GoG}, 2, {Lk, Un, CallG, GoG}, 2, {Lk, Un, DeferUn, CallF}, 2)

\* F's entry block takes the lock once; b2 takes it and unlocks around it
UnlockAroundPrograms == ProgramsOf({Lk}, 1, {Lk, Un}, 3, {Lk}, 1)
=============================================================================
