--------------------------- MODULE StdlibKnowledge ---------------------------
(***************************************************************************)
(* applyStdlibKnowledge of staticcheck/lint.go and the ssa.OptimizeBlocks  *)
(* call that follows it in Checker.Init, as operators over one function.   *)
(*                                                                         *)
(* A function is a record: its live blocks (fn.Blocks, in id order, block  *)
(* 1 the entry), the instructions, successors and predecessors of each.    *)
(* An instruction refers to a value by the position, in its own block, of *)
(* the instruction that defines it.  Instructions are abstracted to:      *)
(*   recv    an *ssa.UnOp with Op ARROW; tick says whether its operand is  *)
(*           a call to time.Tick                                           *)
(*   extract an *ssa.Extract of component `index` of tuple `tuple`         *)
(*   if      an *ssa.If on `cond`; jump an *ssa.Jump; ret a return;        *)
(*   debug   an *ssa.DebugRef; other anything else                         *)
(***************************************************************************)
EXTENDS Integers, Sequences, SequencesExt, FiniteSets

CONSTANTS
    BlockIds,     \* the ids of a function's blocks
    MaxBlockLen   \* the most instructions a block has

Recv(t) == [op |-> "recv", tick |-> t]
Extract(t, i) == [op |-> "extract", tuple |-> t, index |-> i]
If(c) == [op |-> "if", cond |-> c]
Jump == [op |-> "jump"]
Ret == [op |-> "ret"]
DebugRef == [op |-> "debug"]
OtherInstr == [op |-> "other"]

Instr == {Recv(t) : t \in BOOLEAN} \cup {Jump, Ret, DebugRef, OtherInstr} \cup
         {Extract(t, i) : t \in 1..MaxBlockLen, i \in {0, 1}} \cup {If(c) : c \in 1..MaxBlockLen}

\* the shape of a function record
IsFn(f) ==
    /\ DOMAIN f = {"live", "instrs", "succs", "preds"}
    /\ f.live \subseteq BlockIds
    /\ \A b \in BlockIds :
        /\ f.instrs[b] \in Seq(Instr) /\ Len(f.instrs[b]) <= MaxBlockLen
        /\ f.succs[b] \in Seq(BlockIds) /\ f.preds[b] \in Seq(BlockIds)

\* positions of the instructions that are not *ssa.DebugRef
NonDebugRefs(s) == SelectSeq([j \in 1..Len(s) |-> j], LAMBDA j : s[j].op # "debug")

(* BasicBlock.RemovePred (ssa, spec 4.2): drop every edge from p out of  *)
(* b's predecessors.                                                       *)
RemovePred(f, b, p) ==
    [f EXCEPT !.preds[b] = SelectSeq(@, LAMBDA q : q # p)]

\* the rewrite without the RemovePred on the dropped successor
PruneKeepPred(f, b, k) ==
    [f EXCEPT !.instrs[b][k] = Jump, !.succs[b] = <<@[1]>>]

\* the rewrite of the matched If at position k of block b
Prune(f, b, k) ==
    LET succ == f.succs[b][2]
        g == [f EXCEPT !.instrs[b][k] = Jump, !.succs[b] = <<@[1]>>]
    IN RemovePred(g, succ, b)

(* The scan of block b's non-debug instructions from index i (ix holds     *)
(* their positions): a receive from time.Tick, then the Extract of its ok  *)
(* component, then an If on it, is pruned.  instrs[i+1] and instrs[i+2]    *)
(* are read without a bounds check, so a result records whether an index  *)
(* was out of range (a panic).                                             *)
RECURSIVE ScanTick(_, _, _, _)
ScanTick(f, b, ix, i) ==
    LET ins == f.instrs[b][ix[i]]
        ex  == f.instrs[b][ix[i + 1]]
        ifs == f.instrs[b][ix[i + 2]]
    IN IF i > Len(ix) THEN [fn |-> f, panic |-> FALSE]
       ELSE IF ~(ins.op = "recv" /\ ins.tick) THEN ScanTick(f, b, ix, i + 1)
       ELSE IF i + 1 > Len(ix) THEN [fn |-> f, panic |-> TRUE]
       ELSE IF ~(ex.op = "extract" /\ ex.tuple = ix[i] /\ ex.index = 1)
            THEN ScanTick(f, b, ix, i + 1)
       ELSE IF i + 2 > Len(ix) THEN [fn |-> f, panic |-> TRUE]
       ELSE IF ~(ifs.op = "if" /\ ifs.cond = ix[i + 1]) THEN ScanTick(f, b, ix, i + 1)
       ELSE ScanTick(Prune(f, b, ix[i + 2]), b, ix, i + 1)

\* one iteration of `for _, block := range fn.Blocks`
RewriteBlock(r, b) ==
    IF r.panic \/ Len(r.fn.instrs[b]) < 3 \/ Len(r.fn.succs[b]) # 2 THEN r
    ELSE ScanTick(r.fn, b, NonDebugRefs(r.fn.instrs[b]), 1)

\* applyStdlibKnowledge(fn): every block in order (none when fn has none)
RECURSIVE RewriteBlocks(_, _)
RewriteBlocks(r, bs) ==
    IF bs = {} THEN r
    ELSE LET b == CHOOSE x \in bs : \A y \in bs : x <= y
         IN RewriteBlocks(RewriteBlock(r, b), bs \ {b})

ApplyStdlibKnowledge(f) == RewriteBlocks([fn |-> f, panic |-> FALSE], f.live)

\* the live blocks one edge away from the blocks of s
SuccsOf(f, s) == UNION {ToSet(f.succs[a]) : a \in s} \cap f.live

(* The blocks reachable from s in one or more edges, as a fixpoint (the    *)
(* Graphs module's Descendants, whose closure over subsets TLC does not    *)
(* cache when it evaluates ENABLED for the fairness conditions).          *)
RECURSIVE ReachFrom(_, _)
ReachFrom(f, s) ==
    IF SuccsOf(f, s) \subseteq s THEN s ELSE ReachFrom(f, s \cup SuccsOf(f, s))

Descendants(f, b) == ReachFrom(f, SuccsOf(f, {b}))

(* ssa.OptimizeBlocks (spec_modelled): the blocks not reachable from the   *)
(* entry are deleted and removed from their successors' predecessors.      *)
(* Jump threading and block fusion are not modelled.                       *)
OptimizeBlocks(f) ==
    LET reach == IF 1 \in f.live THEN {1} \cup Descendants(f, 1) ELSE {}
    IN [f EXCEPT !.live = reach,
                 !.preds = [b \in BlockIds |-> SelectSeq(@[b], LAMBDA q : q \in reach)]]

\* the blocks of f that lie on a cycle (the loop sets of the descriptions)
Loops(f) == {b \in f.live : b \in Descendants(f, b)}

\* every edge is recorded at both ends, between live blocks
CfgConsistent(f) ==
    \A a \in f.live :
        /\ ToSet(f.succs[a]) \subseteq f.live
        /\ \A c \in f.live : (c \in ToSet(f.succs[a])) <=> (a \in ToSet(f.preds[c]))

=============================================================================
