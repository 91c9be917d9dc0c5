----------------------------- MODULE AbstractInit -----------------------------
(***************************************************************************)
(* What Checker.Init promises (spec 3 and 5): in one step, before any      *)
(* checker runs, the function descriptions are built from the program as  *)
(* loaded, every function with blocks has the stdlib-knowledge rewrite     *)
(* and the block optimisation applied, and the deprecation index is built. *)
(* If a rewrite panics, the process dies instead.                         *)
(***************************************************************************)
EXTENDS StdlibKnowledge

CONSTANTS FnIds, Programs

VARIABLES prog, fns, descs, deprecated, phase

vars == <<prog, fns, descs, deprecated, phase>>

\* the SSA of a function once initialisation is over
Initialised(f) ==
    IF f.live = {} THEN f ELSE OptimizeBlocks(ApplyStdlibKnowledge(f).fn)

Panics(f) == f.live # {} /\ ApplyStdlibKnowledge(f).panic

Init ==
    /\ prog \in Programs
    /\ fns = prog
    /\ descs = [f \in {} |-> {}]
    /\ deprecated = "nil"
    /\ phase = "init"

InitReturns ==
    /\ phase = "init"
    /\ \A g \in FnIds : ~Panics(prog[g])
    /\ fns' = [g \in FnIds |-> Initialised(prog[g])]
    /\ descs' = [g \in FnIds |-> Loops(prog[g])]
    /\ deprecated' = "built"
    /\ phase' = "ready"
    /\ UNCHANGED prog

InitPanics ==
    /\ phase = "init"
    /\ \E g \in FnIds : Panics(prog[g])
    /\ phase' = "crashed"
    /\ UNCHANGED <<prog, fns, descs, deprecated>>

Next == InitReturns \/ InitPanics

Spec == Init /\ [][Next]_vars /\ WF_vars(Next)

=============================================================================
