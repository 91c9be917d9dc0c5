--------------------------- MODULE DoubleLockRerun ---------------------------
(***************************************************************************)
(* CheckDoubleLock run twice over the same program: two instances of       *)
(* DoubleLock share the analysed program (code, succs) and keep their own  *)
(* checker state.  The first run goes to completion, then the second one   *)
(* starts.  Each run ranges over lockInstructions in its own order, as Go  *)
(* randomises the iteration order of every range over a map.               *)
(***************************************************************************)
EXTENDS Integers, Sequences

CONSTANTS Funcs, InitialFunctions, Blocks, BlockOrder, Parent, Keys, Methods,
          Programs, NoKey

VARIABLES
    code, succs,
    lockInstructions1, fnIdx1, visited1, key1, i1, t1, diags1,
    lockInstructions2, fnIdx2, visited2, key2, i2, t2, diags2

run1 == <<lockInstructions1, fnIdx1, visited1, key1, i1, t1, diags1>>
run2 == <<lockInstructions2, fnIdx2, visited2, key2, i2, t2, diags2>>
vars == <<code, succs, run1, run2>>

R1 == INSTANCE DoubleLock WITH
        lockInstructions <- lockInstructions1, fnIdx <- fnIdx1, visited <- visited1,
        key <- key1, i <- i1, t <- t1, diags <- diags1
R2 == INSTANCE DoubleLock WITH
        lockInstructions <- lockInstructions2, fnIdx <- fnIdx2, visited <- visited2,
        key <- key2, i <- i2, t <- t2, diags <- diags2

\* both runs start on the same program
Init == R1!Init /\ R2!Init

\* a step of the first run, until CheckDoubleLock returns
Run1 == ~R1!Finished /\ R1!Next /\ UNCHANGED run2

\* a step of the second run, once the first has returned
Run2 == R1!Finished /\ R2!Next /\ UNCHANGED run1

Next == Run1 \/ Run2

Spec == Init /\ [][Next]_vars /\ WF_vars(Next)

-----------------------------------------------------------------------------
BothFinished == R1!Finished /\ R2!Finished

(* Spec 5: within a checker, diagnostics are emitted in the deterministic  *)
(* order of the IR traversal, so two runs emit the same sequence.  The     *)
(* range over the lockInstructions map (lint.go:1038) emits the keys'      *)
(* diagnostics in the map's random order.                                  *)
DiagnosticOrderDeterministic ==
    BothFinished => diags1 = diags2

=============================================================================
