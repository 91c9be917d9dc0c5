----------------------------- MODULE InitBarrier -----------------------------
(***************************************************************************)
(* Checker.Init of staticcheck/lint.go: the main goroutine adds 2 to a     *)
(* WaitGroup and starts two goroutines.  T1 builds the function            *)
(* descriptions (loop sets, call graph) and then, for every function with  *)
(* blocks, applies applyStdlibKnowledge and ssa.OptimizeBlocks; T2 builds  *)
(* the deprecation index.  Each calls wg.Done; main's wg.Wait is the       *)
(* barrier after which the checkers run.                                   *)
(*                                                                         *)
(* The findDeprecated walk is the Deprecation module; here it is one step  *)
(* of T2, since it shares no state with T1.  A panic in any goroutine      *)
(* ends the process.                                                       *)
(***************************************************************************)
EXTENDS StdlibKnowledge

CONSTANTS
    FnIds,      \* prog.AllFunctions
    Programs    \* candidate programs: [FnIds -> Fn]

VARIABLES
    prog,       \* the program as loaded (fixed by Init)
    fns,        \* the functions' SSA, rewritten in place by T1
    descs,      \* c.funcDescs: the loop sets of each function
    deprecated, \* c.deprecatedObjs: "nil", "empty" (allocated) or "built"
    wg,         \* the WaitGroup counter
    pc,         \* the point each goroutine has reached
    todo,       \* the functions T1's range has still to visit
    panicked    \* some goroutine panicked

vars == <<prog, fns, descs, deprecated, wg, pc, todo, panicked>>

Procs == {"main", "t1", "t2"}
NoDescs == [f \in {} |-> {}]

\* wg.Done: a counter going negative panics ("sync: negative WaitGroup counter")
WgDone == IF wg = 0 THEN panicked' = TRUE /\ wg' = wg ELSE wg' = wg - 1 /\ panicked' = panicked

Running(p, l) == ~panicked /\ pc[p] = l
Goto(p, l) == pc' = [pc EXCEPT ![p] = l]

\* the loop body in the other order: optimise, then rewrite
RewriteFnOptimizeFirst(f) == ApplyStdlibKnowledge(OptimizeBlocks(f))

\* the body of T1's loop for a function with blocks: rewrite, then optimise
RewriteFn(f) ==
    LET r == ApplyStdlibKnowledge(f)
    IN [fn |-> OptimizeBlocks(r.fn), panic |-> r.panic]

(* T1 rewrites each function once, while it is still as loaded, so its     *)
(* input is a function of some program of Programs.  RewriteFn and Loops   *)
(* of those are tabulated once (a constant) instead of being recomputed    *)
(* each time TLC evaluates ENABLED T1 for the fairness; any other input is *)
(* computed directly.                                                      *)
FnShapes == UNION {Range(p) : p \in Programs}
RewriteTable == [g \in FnShapes |-> RewriteFn(g)]
LoopsTable == [g \in FnShapes |-> Loops(g)]
Rewritten(g) == IF g \in FnShapes THEN RewriteTable[g] ELSE RewriteFn(g)
LoopsOf(g) == IF g \in FnShapes THEN LoopsTable[g] ELSE Loops(g)

-----------------------------------------------------------------------------

Init ==
    /\ prog \in Programs
    /\ fns = prog
    /\ descs = NoDescs
    /\ deprecated = "nil"
    /\ wg = 0
    /\ pc = [p \in Procs |-> IF p = "main" THEN "add" ELSE "idle"]
    /\ todo = FnIds
    /\ panicked = FALSE

\* wg.Add with one goroutine forgotten
MainAddOne ==
    /\ Running("main", "add")
    /\ wg' = wg + 1
    /\ Goto("main", "go1")
    /\ UNCHANGED <<prog, fns, descs, deprecated, todo, panicked>>

\* wg.Add with one goroutine too many
MainAddThree ==
    /\ Running("main", "add")
    /\ wg' = wg + 3
    /\ Goto("main", "go1")
    /\ UNCHANGED <<prog, fns, descs, deprecated, todo, panicked>>

\* wg.Add(2)
MainAdd ==
    /\ Running("main", "add")
    /\ wg' = wg + 2
    /\ Goto("main", "go1")
    /\ UNCHANGED <<prog, fns, descs, deprecated, todo, panicked>>

\* the two go statements
MainGo(p, next) ==
    /\ Running("main", IF p = "t1" THEN "go1" ELSE "go2")
    /\ pc' = [pc EXCEPT !["main"] = next, ![p] = "start"]
    /\ UNCHANGED <<prog, fns, descs, deprecated, wg, todo, panicked>>

\* wg.Wait() returns once the counter is zero; the checkers then run
MainWait ==
    /\ Running("main", "wait")
    /\ wg = 0
    /\ Goto("main", "checkers")
    /\ UNCHANGED <<prog, fns, descs, deprecated, wg, todo, panicked>>

\* c.funcDescs = functions.NewDescriptions(prog.SSA)
T1Descriptions ==
    /\ Running("t1", "start")
    /\ descs' = [f \in FnIds |-> LoopsOf(fns[f])]
    /\ Goto("t1", "loop")
    /\ UNCHANGED <<prog, fns, deprecated, wg, todo, panicked>>

\* a loop iteration that does not move on to the next function
T1RewriteNoAdvance ==
    /\ Running("t1", "loop")
    /\ todo # {}
    /\ LET f == CHOOSE g \in todo : TRUE
           r == Rewritten(fns[f])
       IN /\ todo' = todo
          /\ IF fns[f].live = {} THEN UNCHANGED <<fns, panicked>>
             ELSE /\ fns' = [fns EXCEPT ![f] = r.fn]
                  /\ panicked' = r.panic
    /\ UNCHANGED <<prog, descs, deprecated, wg, pc>>

(* One iteration of `for _, fn := range prog.AllFunctions`: a function     *)
(* with blocks is rewritten and optimised; a panic in the rewrite kills    *)
(* the process.                                                            *)
T1Rewrite ==
    /\ Running("t1", "loop")
    /\ todo # {}
    /\ LET f == CHOOSE g \in todo : TRUE
           r == Rewritten(fns[f])
       IN /\ todo' = todo \ {f}
          /\ IF fns[f].live = {} THEN UNCHANGED <<fns, panicked>>
             ELSE /\ fns' = [fns EXCEPT ![f] = r.fn]
                  /\ panicked' = r.panic
    /\ UNCHANGED <<prog, descs, deprecated, wg, pc>>

\* wg.Done() at the end of T1
T1Done ==
    /\ Running("t1", "loop")
    /\ todo = {}
    /\ WgDone
    /\ Goto("t1", "exit")
    /\ UNCHANGED <<prog, fns, descs, deprecated, todo>>

\* c.deprecatedObjs = map[types.Object]string{}
T2Alloc ==
    /\ Running("t2", "start")
    /\ deprecated' = "empty"
    /\ Goto("t2", "find")
    /\ UNCHANGED <<prog, fns, descs, wg, todo, panicked>>

\* c.findDeprecated(prog): the Deprecation walk
T2FindDeprecated ==
    /\ Running("t2", "find")
    /\ deprecated' = "built"
    /\ Goto("t2", "done")
    /\ UNCHANGED <<prog, fns, descs, wg, todo, panicked>>

\* wg.Done() at the end of T2
T2Done ==
    /\ Running("t2", "done")
    /\ WgDone
    /\ Goto("t2", "exit")
    /\ UNCHANGED <<prog, fns, descs, deprecated, todo>>

\* Init has returned and the checkers run, or the process has died
Stopped == (panicked \/ pc["main"] = "checkers") /\ UNCHANGED vars

Main == MainAdd \/ MainGo("t1", "go2") \/ MainGo("t2", "wait") \/ MainWait
T1 == T1Descriptions \/ T1Rewrite \/ T1Done
T2 == T2Alloc \/ T2FindDeprecated \/ T2Done

Next == Main \/ T1 \/ T2 \/ Stopped

(* Go's scheduler runs every runnable goroutine eventually: weak fairness  *)
(* for each goroutine.                                                     *)
Spec == Init /\ [][Next]_vars /\ WF_vars(Main) /\ WF_vars(T1) /\ WF_vars(T2)


-----------------------------------------------------------------------------
(* Properties.                                                             *)

\* type invariant
TypeOK ==
    /\ \A f \in FnIds : IsFn(prog[f]) /\ IsFn(fns[f])
    /\ descs \in {NoDescs} \cup [FnIds -> SUBSET BlockIds]
    /\ deprecated \in {"nil", "empty", "built"}
    /\ wg \in 0..2
    /\ pc \in [Procs -> {"add", "go1", "go2", "wait", "checkers", "idle",
                          "start", "loop", "find", "done", "exit"}]
    /\ todo \subseteq FnIds
    /\ panicked \in BOOLEAN

(* The rewrite keeps every function's control-flow graph consistent:       *)
(* after each T1 step, every edge of a live block leads to a live block     *)
(* and is in that block's Preds (RemovePred on the pruned successor, then  *)
(* OptimizeBlocks dropping the blocks that became unreachable).           *)
CfgStaysConsistent == \A f \in FnIds : CfgConsistent(fns[f])

(* The barrier of Init: wg.Wait lets main through to the checkers only     *)
(* after both goroutines have called wg.Done.                              *)
BarrierHolds ==
    [][pc'["main"] = "checkers" /\ pc["main"] # "checkers"
         => pc["t1"] = "exit" /\ pc["t2"] = "exit"]_vars

(* Init returns: under the Go scheduler's fairness both goroutines finish  *)
(* and wg.Wait returns.                                                    *)
InitEventuallyReturns == <>(pc["main"] = "checkers")

(* Checker.Init implements the atomic initialisation of AbstractInit (its  *)
(* safety part; InitEventuallyReturns is its liveness): as seen by the     *)
(* checkers, which run after the barrier, the SSA, the descriptions and    *)
(* the deprecation index change in one step from the program as loaded to  *)
(* its initialised form, with the descriptions taken before the rewrite.  *)
Phase ==
    IF panicked THEN "crashed"
    ELSE IF pc["main"] = "checkers" THEN "ready" ELSE "init"

Abstract == INSTANCE AbstractInit WITH
    fns <- IF Phase = "ready" THEN fns ELSE prog,
    descs <- IF Phase = "ready" THEN descs ELSE NoDescs,
    deprecated <- IF Phase = "ready" THEN deprecated ELSE "nil",
    phase <- Phase

RefinesAbstractInit == Abstract!Init /\ [][Abstract!Next]_(Abstract!vars)

=============================================================================
