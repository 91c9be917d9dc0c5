---------------------------- MODULE AdjacentLock ----------------------------
(***************************************************************************)
(* The block-scanning checkers of staticcheck/lint.go, run one after the   *)
(* other over the same program: CheckDeferLock (SA2003: a lock call        *)
(* followed by a deferred lock of the same operand), CheckUnlockAfterLock  *)
(* (SA2004: a lock call followed by an unlock call of the same operand),   *)
(* and CheckPrimitiveUsage (SA2008: a tally of the synchronisation         *)
(* primitives used).  Each scans the FilterDebug'ed instructions of every  *)
(* block of the initial functions: SA2003 and SA2004 one pair (i, i+1) at  *)
(* a time, SA2008 one instruction at a time.  The analysed blocks are part *)
(* of the state, drawn from Programs by Init.                              *)
(*                                                                         *)
(* A call is abstracted to what the checkers read of it: whether it is a   *)
(* *ssa.Call or a *ssa.Defer, its method name, the full name of its static *)
(* callee, whether it is an interface invoke, and its Args (for an invoke, *)
(* the receiver is not among them).  Channel operations are a send, a      *)
(* receive (an *ssa.UnOp with Op ARROW) and a select with its states.      *)
(***************************************************************************)
EXTENDS Integers, Sequences, SequencesExt, FiniteSets

CONSTANTS
    Receivers,   \* SSA values a lock method is called on
    Programs     \* candidate sequences of blocks (each a sequence of instrs)

VARIABLES
    blocks,      \* the blocks of the initial functions, in order
    checker,     \* the checker running: "SA2003", "SA2004" or "done"
    bi,          \* index of the block being scanned
    ii,          \* index i of the pair (instrs[i], instrs[i+1])
    diags,       \* diagnostics emitted by j.Errorf
    crashed,     \* an index out of range panicked the run
    tally        \* SA2008's eight counters

vars == <<blocks, checker, bi, ii, diags, crashed, tally>>

Methods == {"Lock", "RLock", "Unlock", "RUnlock", "AddInt32", "atomicSwap"}
CallInstr == [kind : {"call", "defer"}, m : Methods, callee : STRING,
              invoke : BOOLEAN, args : Seq(Receivers)]
Instr == CallInstr \cup [kind : {"select"}, states : Nat] \cup
         {[kind |-> k] : k \in {"debug", "other", "send", "recv"}}

\* IsCallTo (lintdsl): a static callee with this full name
IsCallTo(c, name) == ~c.invoke /\ c.callee = name

(* isCallToLock: a sync lock method by its qualified name, or a rendering  *)
(* containing ".lock(" or ".rlock(" when the call has at most one Arg.     *)
IsCallToLock(c) ==
    \/ \E n \in {"(*sync.Mutex).Lock", "(*sync.RWMutex).RLock", "(*sync.RWMutex).Lock"} :
          IsCallTo(c, n)
    \/ c.m \in {"Lock", "RLock"} /\ Len(c.args) <= 1

(* isCallToUnlock: a sync unlock method, or a rendering containing         *)
(* ".unlock" or ".runlock".                                                *)
IsCallToUnlock(c) == c.m \in {"Unlock", "RUnlock"}

\* shortCallName: "" for an invoke
ShortCallName(c) == IF c.invoke THEN "" ELSE c.m

\* the switch on name choosing the suggested method
Alt(name) == CASE name = "Lock" -> "Unlock" [] name = "RLock" -> "RUnlock" [] OTHER -> ""

\* a scan over block.Instrs itself, debug instructions included
NonDebugUnfiltered(b) == [j \in 1..Len(b) |-> j]

(* FilterDebug (lintdsl, spec 4.1): the indices of the non-debug           *)
(* instructions of a block, so that the filtered view keeps positions.     *)
NonDebug(b) == SelectSeq([j \in 1..Len(b) |-> j], LAMBDA j : b[j].kind # "debug")

(* The instruction the second test of each checker expects after the lock *)
(* call: a *ssa.Defer of a lock (SA2003) or a *ssa.Call of an unlock       *)
(* (SA2004).                                                               *)
SecondMatches(ck, nins) ==
    IF ck = "SA2003" THEN nins.kind = "defer" /\ IsCallToLock(nins)
    ELSE nins.kind = "call" /\ IsCallToUnlock(nins)

\* the pair (instrs[n], instrs[n+1]) of block b passes every test before
\* the comparison of the two calls' Args[0]
PairCandidate(ck, b, n) ==
    LET call == b[NonDebug(b)[n]]
        nins == b[NonDebug(b)[n + 1]]
    IN /\ call.kind = "call" /\ IsCallToLock(call)
       /\ SecondMatches(ck, nins)

\* `call.Common().Args[0] != nins.Call.Args[0]` indexes an empty Args
ArgsOutOfRange(b, n) ==
    Len(b[NonDebug(b)[n]].args) = 0 \/ Len(b[NonDebug(b)[n + 1]].args) = 0

\* j.Errorf(nins, ...): the position of nins and the two names of the message
Message(ck, call, at) ==
    [check |-> ck, name |-> ShortCallName(call), alt |-> Alt(ShortCallName(call)), at |-> at]

\* the last index each loop visits: instrs[:len(instrs)-1] for the pair
\* scans, every instruction for SA2008
LastIndex(ck, b) == IF ck = "SA2008" THEN Len(NonDebug(b)) ELSE Len(NonDebug(b)) - 1

Primitives == {"mutex", "rwmutex", "cond", "pool", "waitgroup", "atomic", "once", "channel"}

\* the callee names each test of CheckPrimitiveUsage's if-chain compares with
SyncNames ==
    [mutex     |-> {"(*sync.Mutex).Lock", "(*sync.Mutex).Unlock"},
     rwmutex   |-> {"(*sync.RWMutex).Lock", "(*sync.RWMutex).Unlock",
                    "(*sync.RWMutex).RLock", "(*sync.RWMutex).RUnlock"},
     waitgroup |-> {"(*sync.WaitGroup).Add", "(*sync.WaitGroup).Done", "(*sync.WaitGroup).Wait"},
     once      |-> {"(*sync.Once).Do"},
     cond      |-> {"(*sync.Cond).Broadcast", "(*sync.Cond).Signal", "(*sync.Cond).Wait"},
     pool      |-> {"(*sync.Pool).Get", "(*sync.Pool).Put"}]

\* strings.Contains
HasSubstring(s, w) == \E k \in 0..(Len(s) - Len(w)) : SubSeq(s, k + 1, k + Len(w)) = w

\* _CallName: the full name of a static callee, the rendering of an invoke
CallName(c) == IF c.invoke THEN "invoke t." \o c.m \o "()" ELSE c.callee

\* the counter a call name increments: the sync tests, then "atomic"
CallPrimitive(name) ==
    IF \E p \in DOMAIN SyncNames : name \in SyncNames[p]
    THEN CHOOSE p \in DOMAIN SyncNames : name \in SyncNames[p]
    ELSE IF HasSubstring(name, "atomic") THEN "atomic" ELSE "none"

\* `call` is set for a *ssa.Call only, the *ssa.Defer branch dropped
HasCallNoDefer(ins) == ins.kind = "call"

\* `call` is set for a *ssa.Call and for a *ssa.Defer
HasCall(ins) == ins.kind \in {"call", "defer"}

(* One iteration of SA2008's loop body: the counter it increments and by   *)
(* how much.  A send or a receive counts one channel use, a select one per *)
(* state; a call or deferred call counts by its name.                     *)
Counted(ins) ==
    CASE ins.kind \in {"send", "recv"} -> <<"channel", 1>>
      [] ins.kind = "select"            -> <<"channel", ins.states>>
      [] HasCall(ins)                   -> <<CallPrimitive(CallName(ins)), 1>>
      [] OTHER                          -> <<"none", 0>>

-----------------------------------------------------------------------------

Init ==
    /\ blocks \in Programs
    /\ checker = "SA2003"
    /\ bi = 1
    /\ ii = 1
    /\ diags = <<>>
    /\ crashed = FALSE
    /\ tally = [p \in Primitives |-> 0]

(* One iteration of `for i, ins := range instrs[:len(instrs)-1]`: the pair *)
(* is reported when every test passes and the operands are equal.          *)
ScanPair ==
    /\ checker \in {"SA2003", "SA2004"} /\ ~crashed
    /\ bi <= Len(blocks)
    /\ ii < Len(NonDebug(blocks[bi]))
    /\ LET b == blocks[bi]
           call == b[NonDebug(b)[ii]]
           nins == b[NonDebug(b)[ii + 1]]
       IN /\ ~(PairCandidate(checker, b, ii) /\ ArgsOutOfRange(b, ii))
          /\ diags' = IF PairCandidate(checker, b, ii) /\ call.args[1] = nins.args[1]
                      THEN Append(diags, Message(checker, call, <<bi, NonDebug(b)[ii + 1]>>))
                      ELSE diags
    /\ ii' = ii + 1
    /\ UNCHANGED <<blocks, checker, bi, crashed, tally>>

(* The same iteration when a lock call without Args reaches the Args[0]   *)
(* comparison: the index is out of range and the goroutine panics.        *)
PanicOnArgs ==
    /\ checker \in {"SA2003", "SA2004"} /\ ~crashed
    /\ bi <= Len(blocks)
    /\ ii < Len(NonDebug(blocks[bi]))
    /\ PairCandidate(checker, blocks[bi], ii)
    /\ ArgsOutOfRange(blocks[bi], ii)
    /\ crashed' = TRUE
    /\ UNCHANGED <<blocks, checker, bi, ii, diags, tally>>

(* One iteration of CheckPrimitiveUsage's `for _, ins := range instrs`.    *)
CountInstr ==
    /\ checker = "SA2008" /\ ~crashed
    /\ bi <= Len(blocks)
    /\ ii <= Len(NonDebug(blocks[bi]))
    /\ LET c == Counted(blocks[bi][NonDebug(blocks[bi])[ii]])
       IN tally' = IF c[1] = "none" THEN tally ELSE [tally EXCEPT ![c[1]] = @ + c[2]]
    /\ ii' = ii + 1
    /\ UNCHANGED <<blocks, checker, bi, diags, crashed>>

\* the next block scanned from the pair index the last block ended at
NextBlockNoReset ==
    /\ checker # "done" /\ ~crashed
    /\ bi <= Len(blocks)
    /\ ii > LastIndex(checker, blocks[bi])
    /\ bi' = bi + 1
    /\ UNCHANGED <<blocks, checker, ii, diags, crashed, tally>>

\* the block is done (for a pair scan, a block with fewer than 2
\* instructions at once)
NextBlock ==
    /\ checker # "done" /\ ~crashed
    /\ bi <= Len(blocks)
    /\ ii > LastIndex(checker, blocks[bi])
    /\ bi' = bi + 1
    /\ ii' = 1
    /\ UNCHANGED <<blocks, checker, diags, crashed, tally>>

\* the checker has scanned every block; the next registered one starts
NextChecker ==
    /\ checker # "done" /\ ~crashed
    /\ bi > Len(blocks)
    /\ checker' = CASE checker = "SA2003" -> "SA2004"
                     [] checker = "SA2004" -> "SA2008"
                     [] OTHER              -> "done"
    /\ bi' = 1
    /\ ii' = 1
    /\ UNCHANGED <<blocks, diags, crashed, tally>>

\* every checker has returned, or the run has died
Stopped == (checker = "done" \/ crashed) /\ UNCHANGED vars

Next == ScanPair \/ PanicOnArgs \/ CountInstr \/ NextBlock \/ NextChecker \/ Stopped

Spec == Init /\ [][Next]_vars /\ WF_vars(Next)

-----------------------------------------------------------------------------
(* Reference definitions and properties.                                   *)

\* positions j < k of block b with only debug instructions strictly between
AdjacentPairs(b) ==
    {<<j, k>> \in (1..Len(b)) \X (1..Len(b)) :
        /\ j < k
        /\ b[j].kind # "debug" /\ b[k].kind # "debug"
        /\ \A m \in (j + 1)..(k - 1) : b[m].kind = "debug"}

\* the reference test of the pair (b[j], b[k]) under checker ck
LockPairReported(ck, b, j, k) ==
    /\ b[j].kind = "call" /\ IsCallToLock(b[j])
    /\ SecondMatches(ck, b[k])
    /\ b[j].args # <<>> /\ b[k].args # <<>>
    /\ b[j].args[1] = b[k].args[1]

\* what each checker should report: the second call of every adjacent
\* lock/defer-lock (SA2003) or lock/unlock (SA2004) pair on one operand
Expected ==
    UNION {{Message(ck, blocks[x][p[1]], <<x, p[2]>>) :
              p \in {q \in AdjacentPairs(blocks[x]) :
                        LockPairReported(ck, blocks[x], q[1], q[2])}} :
           ck \in {"SA2003", "SA2004"}, x \in 1..Len(blocks)}

Diag == [check : {"SA2003", "SA2004"}, name : Methods \cup {""},
         alt : {"Unlock", "RUnlock", ""}, at : Nat \X Nat]

\* type invariant
TypeOK ==
    /\ blocks \in Seq(Seq(Instr))
    /\ checker \in {"SA2003", "SA2004", "SA2008", "done"}
    /\ bi \in 1..(Len(blocks) + 1)
    /\ ii \in Nat \ {0}
    /\ bi <= Len(blocks) => ii \in {1} \cup 1..(LastIndex(checker, blocks[bi]) + 1)
    /\ diags \in Seq(Diag)
    /\ crashed \in BOOLEAN
    /\ tally \in [Primitives -> Nat]

(* The two pair scans (CheckDeferLock, CheckUnlockAfterLock) report        *)
(* exactly the adjacent pairs: every diagnostic is the second call of a   *)
(* lock pair on one operand with only debug instructions between them, no *)
(* pair is reported twice, and when both checkers have returned every     *)
(* such pair of every block has been reported.  It is about the           *)
(* FilterDebug view, the instrs[:len(instrs)-1] range and the per-block    *)
(* restart of the index.                                                  *)
AdjacentReportsExact ==
    /\ Range(diags) \subseteq Expected
    /\ IsInjective(diags)
    /\ checker = "done" => Range(diags) = Expected

(* The uses of primitive p one instruction makes (spec 4.7): a call or    *)
(* deferred call of a static callee among p's operations (for "atomic",    *)
(* a function of package sync/atomic), and for "channel" a send, a receive *)
(* or a select case.                                                       *)
Uses(p, ins) ==
    IF p = "channel"
    THEN CASE ins.kind \in {"send", "recv"} -> 1 [] ins.kind = "select" -> ins.states [] OTHER -> 0
    ELSE IF /\ ins.kind \in {"call", "defer"} /\ ~ins.invoke
            /\ IF p = "atomic" THEN SubSeq(ins.callee, 1, 12) = "sync/atomic."
               ELSE p \in DOMAIN SyncNames /\ ins.callee \in SyncNames[p]
         THEN 1 ELSE 0

(* CheckPrimitiveUsage reports the program's use of each primitive (spec  *)
(* 4.7): when it has returned, the counter of every primitive but atomic   *)
(* holds exactly the uses of that primitive summed over every instruction  *)
(* of every block, and the atomic counter misses no use of sync/atomic.    *)
(* The atomic counter may exceed its uses: strings.Contains(callName,      *)
(* "atomic") at line 1304 also counts a user method whose full name     *)
(* contains atomic (main.T.atomicSwap, in the alphabet); that over-count is *)
(* the recorded divergence from the spec.  The property is about the       *)
(* if-chain with its `continue`s, the *ssa.Defer branch that sets `call`,  *)
(* the invoke rendering of _CallName and the per-state count of a select.  *)
PrimitiveTally ==
    checker = "done" =>
        \A p \in Primitives :
            LET n == MapThenSumSet(LAMBDA q : Uses(p, blocks[q[1]][q[2]]),
                                   UNION {{<<x, j>> : j \in 1..Len(blocks[x])} : x \in 1..Len(blocks)})
            IN  IF p = "atomic" THEN tally[p] >= n ELSE tally[p] = n

(* Spec 7: checkers never fail the analysis, and a dynamic invoke is an    *)
(* opaque callee the check skips.  The Args[0] comparisons of              *)
(* CheckDeferLock and CheckUnlockAfterLock must therefore never index an   *)
(* empty argument list.                                                    *)
NoCheckerPanics == ~crashed

=============================================================================
