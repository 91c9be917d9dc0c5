--------------------------- MODULE MCInitBarrier ---------------------------
(* Programs of two functions, each external (no blocks) or one of the      *)
(* control-flow shapes below, with the entry or loop-header block ending   *)
(* in one of the receive/extract/if sequences applyStdlibKnowledge tells   *)
(* apart.                                                                  *)
EXTENDS InitBarrier

CONSTANTS f1, f2

MCFnIds == {f1, f2}
MCBlockIds == 1..4

\* the last instructions of the branching block
Heads ==
    { <<Recv(TRUE), Extract(1, 1), If(2)>>,             \* for range time.Tick
      <<Recv(TRUE), DebugRef, Extract(1, 1), If(3)>>,   \* the same, with a DebugRef
      <<Recv(FALSE), Extract(1, 1), If(2)>>,            \* comma-ok on another channel
      <<Recv(TRUE), Extract(1, 1), OtherInstr, If(3)>>, \* if ok && x
      <<OtherInstr, If(1)>> }                           \* a short block

JumpBlock == <<OtherInstr, Jump>>

\* predecessors as the SSA builder records them, in block order
PredsOf(live, succs) ==
    [b \in MCBlockIds |-> SelectSeq(<<1, 2, 3, 4>>,
                                    LAMBDA a : a \in live /\ b \in ToSet(succs[a]))]

MkFn(live, instrs, succs) ==
    [live |-> live, instrs |-> instrs, succs |-> succs, preds |-> PredsOf(live, succs)]

\* entry branches to 2 and 3; 2 returns or jumps to 3, 3 returns or jumps to 2
Straight ==
    {MkFn(1..3, <<h, IF s2 = <<>> THEN <<Ret>> ELSE JumpBlock,
                     IF s3 = <<>> THEN <<Ret>> ELSE JumpBlock, <<>> >>,
          <<<<2, 3>>, s2, s3, <<>> >>) :
        h \in Heads, s2 \in {<<>>, <<3>>}, s3 \in {<<>>, <<2>>}}

\* a loop: entry jumps to header 2, which branches to body 3 (back to 2)
\* and exit 4, which returns or jumps into the body
Loop ==
    {MkFn(1..4, <<<<Jump>>, h, JumpBlock, IF s4 = <<>> THEN <<Ret>> ELSE JumpBlock>>,
          <<<<2>>, <<3, 4>>, <<2>>, s4>>) :
        h \in Heads, s4 \in {<<>>, <<3>>}}

External == MkFn({}, [b \in MCBlockIds |-> <<>>], [b \in MCBlockIds |-> <<>>])

MCPrograms == [MCFnIds -> Straight \cup Loop \cup {External}]

=============================================================================
