-------------------------- MODULE ConcurrentTesting --------------------------
(***************************************************************************)
(* CheckConcurrentTesting (SA2002) of staticcheck/lint.go: for every go    *)
(* instruction of the initial functions whose target is a function or a    *)
(* closure with blocks, every static, non-invoke call in the target's own  *)
(* blocks to a *testing.common method FailNow, Fatal, Fatalf, SkipNow,     *)
(* Skip or Skipf is reported at the go instruction.                        *)
(*                                                                         *)
(* The analysed program is part of the state, drawn from Programs by Init: *)
(* a function table and the initial functions.  A function is a record of  *)
(* its blocks (or "nil" for fn.Blocks == nil), the type of its receiver    *)
(* and its name.  The scan of the initial functions visits one instruction *)
(* per step, in block order.                                               *)
(***************************************************************************)
EXTENDS Integers, Sequences, SequencesExt, FiniteSets

CONSTANTS
    FuncIds,     \* the SSA functions of a program
    Programs     \* candidate programs: [fns : [FuncIds -> Fn], initial : Seq(FuncIds)]

VARIABLES
    prog,        \* the program analysed (fixed by Init)
    todo,        \* the instructions of the initial functions still to visit
    diags        \* diagnostics emitted by j.Errorf

vars == <<prog, todo, diags>>

\* the *testing.common methods of the switch on name
FatalNames == {"FailNow", "Fatal", "Fatalf", "SkipNow", "Skip", "Skipf"}

(* The value a go statement starts: a *ssa.Function, a *ssa.MakeClosure of *)
(* one, or anything else (a func-typed value).                             *)
GoTarget(g) == IF g.via \in {"func", "closure"} THEN g.fn ELSE "none"

\* the instructions of a function's blocks, in order
Body(f) == IF f.blocks = "nil" THEN <<>> ELSE FlattenSeq(f.blocks)

(* The inner loop's tests on one instruction of the target: a *ssa.Call,   *)
(* not an invoke, with a static callee whose receiver is *testing.common   *)
(* and whose name is in the list.  The callee's Object is a *types.Func    *)
(* for every method, so that test always passes.                          *)
IsFatalCall(fns, ins) ==
    /\ ins.op = "call"
    /\ ~ins.invoke
    /\ ins.callee # "none"
    /\ fns[ins.callee].recv = "*testing.common"
    /\ fns[ins.callee].name \in FatalNames

\* the diagnostics of one go instruction: one per matching call, in order
GoDiags(fns, gostmt) ==
    LET t == GoTarget(gostmt.target)
        calls == IF t = "none" \/ fns[t].blocks = "nil" THEN <<>>
                 ELSE SelectSeq(Body(fns[t]), LAMBDA ins : IsFatalCall(fns, ins))
    IN [k \in 1..Len(calls) |-> [at |-> gostmt.at, name |-> fns[calls[k].callee].name]]

-----------------------------------------------------------------------------

Init ==
    /\ prog \in Programs
    /\ todo = FlattenSeq([k \in 1..Len(prog.initial) |-> Body(prog.fns[prog.initial[k]])])
    /\ diags = <<>>

\* one iteration of the loop over block.Instrs: anything but a *ssa.Go
ScanOther ==
    /\ todo # <<>>
    /\ Head(todo).op # "go"
    /\ todo' = Tail(todo)
    /\ UNCHANGED <<prog, diags>>

(* A *ssa.Go: its target's blocks are scanned and every matching call is   *)
(* reported at the go instruction.                                         *)
ScanGo ==
    /\ todo # <<>>
    /\ Head(todo).op = "go"
    /\ diags' = diags \o GoDiags(prog.fns, Head(todo))
    /\ todo' = Tail(todo)
    /\ UNCHANGED prog

\* the checker has returned
Done == todo = <<>> /\ UNCHANGED vars

Next == ScanOther \/ ScanGo \/ Done

Spec == Init /\ [][Next]_vars /\ WF_vars(Next)

-----------------------------------------------------------------------------
(* Reference definitions (spec 4.7) and properties.                        *)

\* the functions f calls statically (invokes excluded)
Callees(fns, f) ==
    {Body(fns[f])[k].callee :
        k \in {k \in 1..Len(Body(fns[f])) :
                 Body(fns[f])[k].op = "call" /\ ~Body(fns[f])[k].invoke
                 /\ Body(fns[f])[k].callee # "none"}}

\* the functions reachable from the set s through static calls
RECURSIVE CallReach(_, _)
CallReach(fns, s) ==
    LET t == s \cup UNION {Callees(fns, f) : f \in s}
    IN IF t = s THEN s ELSE CallReach(fns, t)

\* a go instruction whose target transitively calls a fatal method
GoesFatal(fns, gostmt) ==
    LET t == GoTarget(gostmt.target)
    IN /\ t # "none"
       /\ \E f \in CallReach(fns, {t}) : \E k \in 1..Len(Body(fns[f])) :
              IsFatalCall(fns, Body(fns[f])[k])

\* the go instructions of the initial functions
GoStmts == {ins \in Range(FlattenSeq([k \in 1..Len(prog.initial) |->
                                          Body(prog.fns[prog.initial[k]])])) :
              ins.op = "go"}

(* Spec 4.7: a go instruction whose target function, directly or through a *)
(* closure, transitively contains a static call on a *testing.common       *)
(* receiver to FailNow, Fatal, Fatalf, SkipNow, Skip or Skipf is reported. *)
(* The code scans only the target's own blocks (lines 692-723), so a fatal *)
(* call one static call further down is never seen.                        *)
FatalGoroutinesReported ==
    todo = <<>> =>
        \A g \in GoStmts : GoesFatal(prog.fns, g) => \E k \in 1..Len(diags) : diags[k].at = g.at

=============================================================================
