----------------------------- MODULE DoubleLock -----------------------------
(***************************************************************************)
(* The double-lock checker SA2005 of staticcheck/lint.go: CheckDoubleLock  *)
(* and everything it calls (collectLockInstrs, _isDoubleLock,              *)
(* isLockToLockInSameBlock, findPath, isUnlockBeforeLock, getLockPrefix).  *)
(*                                                                         *)
(* The analysed program is part of the state: Init picks one SSA program   *)
(* out of the bounded set Programs (instructions per block and successor   *)
(* edges), and the checker then runs over it step by step: one step per    *)
(* initial function collected, per lock key taken from the map, and per    *)
(* iteration (i, t) of the pair loop.  An instruction is identified by its *)
(* position <<block, index>>; its lock key is the abstract value getLock-  *)
(* Prefix renders for it.  The basic-block call graph search and the       *)
(* function call graph search live in packages outside src/ and are        *)
(* modelled from the spec (sections 4.4 and 4.5).                          *)
(***************************************************************************)
EXTENDS Integers, Graphs

CONSTANTS
    Funcs,            \* SSA functions of the program
    InitialFunctions, \* sequence: j.Program.InitialFunctions, in order
    Blocks,           \* all basic blocks
    BlockOrder,       \* sequence of Blocks: fn.Blocks order, entry first
    Parent,           \* [Blocks -> Funcs]: bb.Parent()
    Keys,             \* lock keys, as rendered by getLockPrefix
    Methods,          \* lock method names seen by shortCallName
    Programs,         \* candidate programs [code, succs]
    NoKey             \* model value: no key is being iterated

VARIABLES
    code,             \* [Blocks -> Seq(Instr)]: bb.Instrs
    succs,            \* [Blocks -> SUBSET Blocks]: bb.Succs
    lockInstructions, \* [Keys -> Seq(Pos)]: the map built in CheckDoubleLock
    fnIdx,            \* next index into InitialFunctions to collect
    visited,          \* keys the map range has already yielded
    key,              \* key whose pair loop is running, or NoKey
    i, t,             \* the pair loop indices (1-based)
    diags             \* sequence of diagnostics emitted by j.Errorf

vars == <<code, succs, lockInstructions, fnIdx, visited, key, i, t, diags>>

(* Instructions, abstracted to what the checker distinguishes: a call the  *)
(* lock taxonomy classifies as a lock (with key and method name) or an     *)
(* unlock (with key), a static call, a go statement, a deferred unlock     *)
(* (a *ssa.Defer, not a *ssa.Call) and anything else.                     *)
Instr ==
    [op : {"lock"}, key : Keys, name : Methods]
      \cup [op : {"unlock", "deferunlock"}, key : Keys]
      \cup [op : {"call", "go"}, fn : Funcs]
      \cup {[op |-> "other"]}

Ins(p) == code[p[1]][p[2]]
PositionsIn(b) == {<<b, j>> : j \in 1..Len(code[b])}
\* the instructions of the program, by position
Pos == UNION {PositionsIn(b) : b \in Blocks}
FnBlocks(fn) == SelectSeq(BlockOrder, LAMBDA b : Parent[b] = fn)
FnBlockSet(fn) == {b \in Blocks : Parent[b] = fn}
AllPositions(fn) == UNION {PositionsIn(b) : b \in FnBlockSet(fn)}

IsLockOf(ins, k)   == ins.op = "lock" /\ ins.key = k
IsUnlockOf(ins, k) == ins.op = "unlock" /\ ins.key = k

\* shortCallName of a lock call
ShortCallName(p) == Ins(p).name

(***************************************************************************)
(* collectLockInstrs: the lock calls of one function with key k, in block  *)
(* order and instruction order.                                            *)
(***************************************************************************)
LocksIn(b, k) ==
    SelectSeq([j \in 1..Len(code[b]) |-> <<b, j>>], LAMBDA p : IsLockOf(Ins(p), k))
CollectLockInstrs(fn, k) ==
    FlattenSeq([n \in 1..Len(FnBlocks(fn)) |-> LocksIn(FnBlocks(fn)[n], k)])

(***************************************************************************)
(* isLockToLockInSameBlock: the scan over the block's instructions, with   *)
(* 0 standing for the code's -1 (indices here are 1-based).                *)
(***************************************************************************)
RECURSIVE ScanSameBlock(_, _, _, _, _)
ScanSameBlock(fLock, sLock, j, fIdx, sIdx) ==
    LET b == fLock[1] IN
    IF j > Len(code[b]) THEN fIdx < sIdx
    ELSE LET fI   == IF <<b, j>> = fLock THEN j ELSE fIdx
             stop == /\ IsUnlockOf(code[b][j], Ins(fLock).key)
                     /\ \/ fI < j /\ sIdx = 0 /\ fI # 0
                        \/ sIdx < j /\ fI = 0 /\ sIdx # 0
             sI   == IF <<b, j>> = sLock THEN j ELSE sIdx
         IN ~stop /\ ScanSameBlock(fLock, sLock, j + 1, fI, sI)

\* mutation: the unlock check of the scan dropped
IsLockToLockInSameBlockNoUnlockCheck(fLock, sLock) == fLock[2] < sLock[2]

IsLockToLockInSameBlock(fLock, sLock) == ScanSameBlock(fLock, sLock, 1, 0, 0)

\* isUnlockBeforeLock: the last unlock index against the last lock index,
\* 0 (the code's -1) when there is none
IsUnlockBeforeLock(b, k) ==
    SelectLastInSeq(code[b], LAMBDA ins : IsUnlockOf(ins, k))
        < SelectLastInSeq(code[b], LAMBDA ins : IsLockOf(ins, k))

\* the prune predicate findPath hands to LockPathSearch: no unlock of k
\* before the first lock of k in the block
NoUnlockBeforeLock(b, k) ==
    LET u == SelectInSeq(code[b], LAMBDA ins : IsUnlockOf(ins, k))
        l == SelectInSeq(code[b], LAMBDA ins : IsLockOf(ins, k))
    IN u = 0 \/ (l # 0 /\ l < u)

(* bbcallgraph.LockPathSearch (spec 4.4): a path of successor edges of     *)
(* src's function from src to dst, every intermediate node satisfying the  *)
(* prune predicate.                                                        *)
LockPathSearch(src, dst, k) ==
    LET G == [node |-> FnBlockSet(Parent[src]),
              edge |-> {e \in FnBlockSet(Parent[src]) \X FnBlockSet(Parent[src]) :
                          /\ e[2] \in succs[e[1]]
                          /\ e[1] = src \/ NoUnlockBeforeLock(e[1], k)}]
    IN dst \in Descendants(G, src)

\* mutation: findPath without the "unlock is in fNode's block" check
FindPathNoFirstBlockCheck(fB, sB, k) ==
    ~IsUnlockBeforeLock(sB, k) /\ LockPathSearch(fB, sB, k)

\* findPath
FindPath(fB, sB, k) ==
    /\ ~\E p \in PositionsIn(fB) : IsUnlockOf(Ins(p), k)
    /\ ~IsUnlockBeforeLock(sB, k)
    /\ LockPathSearch(fB, sB, k)

(* isInLoop over funcDescs loops (spec 3): b lies on a cycle of its        *)
(* function's control-flow graph.                                          *)
InLoop(b) ==
    LET G == [node |-> FnBlockSet(Parent[b]),
              edge |-> {e \in FnBlockSet(Parent[b]) \X FnBlockSet(Parent[b]) : e[2] \in succs[e[1]]}]
    IN b \in Descendants(G, b)

(* The function call graph without goroutine-launch edges (spec 4.5).      *)
CallEdges == {<<Parent[p[1]], Ins(p).fn>> : p \in {q \in Pos : Ins(q).op = "call"}}

(* callgraph.PathSearchIgnoreGoCall from fFn to sFn, with a seen set: the  *)
(* first edge of the path it returns is a call site of fFn whose callee is *)
(* sFn or reaches sFn without passing through fFn.  Which one comes first  *)
(* depends on the order of fFn's out-edges, so every candidate is allowed. *)
(* fFn = sFn matches at the start and yields the empty path.               *)
\* mutation: the search follows goroutine-launch edges too
FirstEdgesWithGo(fFn, sFn) ==
    IF fFn = sFn THEN {}
    ELSE {c \in AllPositions(fFn) : Ins(c).op \in {"call", "go"} /\ Ins(c).fn = sFn}

FirstEdges(fFn, sFn) ==
    LET G == [node |-> Funcs \ {fFn}, edge |-> {e \in CallEdges : fFn \notin {e[1], e[2]}}]
    IN IF fFn = sFn THEN {}
       ELSE {c \in AllPositions(fFn) :
               /\ Ins(c).op = "call"
               /\ Ins(c).fn = sFn \/ (Ins(c).fn # fFn /\ sFn \in Descendants(G, Ins(c).fn))}

(***************************************************************************)
(* _isDoubleLock: the set of results it can return (one per first edge    *)
(* the call-graph search may find).                                        *)
(***************************************************************************)
IsDoubleLock(fInstr, sInstr, lockKey) ==
    LET fB == fInstr[1]
        sB == sInstr[1]
        fFunc == Parent[fB]
        sFunc == Parent[sB]
        isNotNeedFindPathSearch ==
            IF fB = sB
            THEN IsLockToLockInSameBlock(fInstr, sInstr)
                   \/ (InLoop(fB) /\ FindPath(fB, sB, lockKey))
            ELSE fFunc = sFunc /\ FindPath(fB, sB, lockKey)
        viaCall(c) ==
            IF fB = c[1] THEN IsLockToLockInSameBlock(fInstr, c)
            ELSE FindPath(fB, c[1], lockKey)
    IN CASE ShortCallName(fInstr) # ShortCallName(sInstr) -> {FALSE}
         [] isNotNeedFindPathSearch -> {TRUE}
         [] FirstEdges(fFunc, sFunc) = {} -> {FALSE}
         [] IsUnlockBeforeLock(sB, lockKey) -> {FALSE}
         [] OTHER -> {viaCall(c) : c \in FirstEdges(fFunc, sFunc)}

-----------------------------------------------------------------------------

Init ==
    /\ \E p \in Programs : code = p.code /\ succs = p.succs
    /\ lockInstructions = [k \in Keys |-> <<>>]
    /\ fnIdx = 1
    /\ visited = {}
    /\ key = NoKey
    /\ i = 1
    /\ t = 1
    /\ diags = <<>>

\* CheckDoubleLock, first loop: collectLockInstrs of the next initial
\* function, appended per key
CollectLocks ==
    /\ fnIdx <= Len(InitialFunctions)
    /\ lockInstructions' = [k \in Keys |->
                              lockInstructions[k] \o CollectLockInstrs(InitialFunctions[fnIdx], k)]
    /\ fnIdx' = fnIdx + 1
    /\ UNCHANGED <<code, succs, visited, key, i, t, diags>>

\* the range over lockInstructions yields a key it has not yielded yet, in
\* the map's unspecified order
NextKey ==
    /\ fnIdx > Len(InitialFunctions)
    /\ key = NoKey
    /\ \E k \in Keys \ visited :
          /\ lockInstructions[k] # <<>>
          /\ key' = k
          /\ visited' = visited \cup {k}
    /\ i' = 1
    /\ t' = 1
    /\ UNCHANGED <<code, succs, lockInstructions, fnIdx, diags>>

\* mutation: the inner loop restarts at 1 instead of at i
PairAfterFromOne(n) == IF t < n THEN <<i, t + 1>> ELSE <<i + 1, 1>>

\* the indices after iteration (i, t) of `for t := i; t < n`
\* nested in `for i := 0; i < n` (1-based here)
PairAfter(n) == IF t < n THEN <<i, t + 1>> ELSE <<i + 1, i + 1>>

\* one iteration (i, t) of the pair loop: both orders of the pair
CheckPair ==
    /\ key # NoKey
    /\ i <= Len(lockInstructions[key])
    /\ LET L == lockInstructions[key]
           fInstr == L[i]
           sInstr == L[t]
       IN \E r1 \in IsDoubleLock(fInstr, sInstr, key),
             r2 \in IsDoubleLock(sInstr, fInstr, key) :
            diags' = diags
                     \o (IF r1 THEN <<[at |-> fInstr, again |-> sInstr]>> ELSE <<>>)
                     \o (IF fInstr # sInstr /\ r2
                         THEN <<[at |-> sInstr, again |-> fInstr]>> ELSE <<>>)
    /\ i' = PairAfter(Len(lockInstructions[key]))[1]
    /\ t' = PairAfter(Len(lockInstructions[key]))[2]
    /\ UNCHANGED <<code, succs, lockInstructions, fnIdx, visited, key>>

\* the pair loop for the current key is over
EndKey ==
    /\ key # NoKey
    /\ i > Len(lockInstructions[key])
    /\ key' = NoKey
    /\ UNCHANGED <<code, succs, lockInstructions, fnIdx, visited, i, t, diags>>

Finished ==
    /\ fnIdx > Len(InitialFunctions)
    /\ key = NoKey
    /\ \A k \in Keys \ visited : lockInstructions[k] = <<>>

\* CheckDoubleLock has returned; the state no longer changes
Done == Finished /\ UNCHANGED vars

Next == CollectLocks \/ NextKey \/ CheckPair \/ EndKey \/ Done

Spec == Init /\ [][Next]_vars /\ WF_vars(Next)

-----------------------------------------------------------------------------
(***************************************************************************)
(* Reference definitions: what executing the analysed program does, to     *)
(* compare the checker's verdicts with.                                    *)
(***************************************************************************)
\* the blocks reachable in one or more successor steps from b
BlocksAfter(b) ==
    Descendants([node |-> FnBlockSet(Parent[b]),
                 edge |-> {e \in FnBlockSet(Parent[b]) \X FnBlockSet(Parent[b]) :
                             e[2] \in succs[e[1]]}], b)

\* positions that may execute after p in p's function
LaterInFn(p) ==
    {q \in PositionsIn(p[1]) : q[2] > p[2]} \cup UNION {PositionsIn(b) : b \in BlocksAfter(p[1])}

\* functions entered, directly or transitively, by calls (not go) among P
CalledFrom(P) ==
    LET direct == {Ins(q).fn : q \in {q \in P : Ins(q).op = "call"}}
        G == [node |-> Funcs, edge |-> CallEdges]
    IN direct \cup UNION {Descendants(G, g) : g \in direct}

\* the positions that may execute after p in p's goroutine, below p's frame
SequentiallyAfter(p) ==
    LaterInFn(p) \cup UNION {AllPositions(g) : g \in CalledFrom(LaterInFn(p))}

\* an unlock of k strictly between positions a and b of one block
UnlockBetween(a, b, k) ==
    \E j \in (a[2] + 1)..(b[2] - 1) : IsUnlockOf(code[a[1]][j], k)

\* lock f is still held when lock s, of the same function, is acquired:
\* some control-flow path from f to s executes no unlock of k
HeldPath(f, s, k) ==
    \/ f[1] = s[1] /\ f[2] < s[2] /\ ~UnlockBetween(f, s, k)
    \/ LET fn == Parent[f[1]]
           noUnlock(b) == ~\E p \in PositionsIn(b) : IsUnlockOf(Ins(p), k)
           G == [node |-> FnBlockSet(fn),
                 edge |-> {e \in FnBlockSet(fn) \X FnBlockSet(fn) :
                             /\ e[2] \in succs[e[1]]
                             /\ e[1] = f[1] \/ noUnlock(e[1])}]
       IN /\ ~UnlockBetween(f, <<f[1], Len(code[f[1]]) + 1>>, k)
          /\ ~UnlockBetween(<<s[1], 0>>, s, k)
          /\ s[1] \in Descendants(G, f[1])

Reported(f, s) == \E n \in 1..Len(diags) : diags[n].at = f /\ diags[n].again = s

-----------------------------------------------------------------------------
TypeOK ==
    /\ code \in [Blocks -> Seq(Instr)]
    /\ succs \in [Blocks -> SUBSET Blocks]
    /\ lockInstructions \in [Keys -> Seq(Pos)]
    /\ fnIdx \in 1..(Len(InitialFunctions) + 1)
    /\ visited \subseteq Keys
    /\ key \in Keys \cup {NoKey}
    /\ i \in Nat /\ t \in Nat
    /\ key # NoKey => /\ i \in 1..(Len(lockInstructions[key]) + 1)
                      /\ t \in i..(Len(lockInstructions[key]) + 1)
    /\ \A n \in 1..Len(diags) : diags[n] \in [at : Pos, again : Pos]

(* Every diagnostic names a second acquisition that can execute after the  *)
(* first in the same goroutine: in the same block after it, in a later     *)
(* block, or in a function called (not launched with go) from there.  The  *)
(* checker must never pair a lock with one reached only through a go       *)
(* statement (PathSearchIgnoreGoCall) or only before the first lock.       *)
ReportsFollowControlFlow ==
    \A n \in 1..Len(diags) : diags[n].again \in SequentiallyAfter(diags[n].at)

(* No diagnostic pairs two acquisitions of one block that an unlock of the *)
(* same key separates, whichever route _isDoubleLock takes (same-block     *)
(* scan, the loop search of findPath, or the call-graph leg).              *)
NoReportAcrossUnlock ==
    \A n \in 1..Len(diags) :
        LET d == diags[n] IN
        d.at[1] = d.again[1] /\ d.at[2] < d.again[2]
            => ~UnlockBetween(d.at, d.again, Ins(d.at).key)

(* isLockToLockInSameBlock, with its early-return on an unlock between a   *)
(* seen and an unseen lock, decides exactly "the first lock precedes the   *)
(* second and no unlock of the key lies between them".                     *)
SameBlockScanIsExact ==
    \A b \in Blocks : \A f, s \in PositionsIn(b) :
        (Ins(f).op = "lock" /\ Ins(s).op = "lock" /\ Ins(f).key = Ins(s).key)
            => (IsLockToLockInSameBlock(f, s)
                  <=> f[2] < s[2] /\ ~UnlockBetween(f, s, Ins(f).key))

(* Spec section 8, scenario 4: f locks m and then calls g, whose entry     *)
(* block locks m with no unlock before it; the checker reports the pair.   *)
CrossFunctionDoubleLockReported ==
    Finished =>
      \A f \in Pos :
        \A c \in PositionsIn(f[1]) : \A s \in Pos :
          (/\ Ins(f).op = "lock" /\ Ins(s).op = "lock"
           /\ Ins(f).key = Ins(s).key /\ Ins(f).name = Ins(s).name
           /\ f[2] < c[2] /\ Ins(c).op = "call" /\ Ins(c).fn = Parent[s[1]]
           /\ s[1] = FnBlocks(Parent[s[1]])[1]
           /\ Ins(c).fn # Parent[f[1]]
           /\ ~UnlockBetween(f, c, Ins(f).key)
           /\ ~UnlockBetween(<<s[1], 0>>, s, Ins(f).key))
             => Reported(f, s)

(* A diagnostic for two acquisitions in one function is a real double      *)
(* lock: some path from the first to the second releases nothing.          *)
SameFunctionReportsAreReal ==
    \A n \in 1..Len(diags) :
        LET d == diags[n] IN
        Parent[d.at[1]] = Parent[d.again[1]] => HeldPath(d.at, d.again, Ins(d.at).key)

(* Spec section 8: is_double_lock(L, L) holds when L's block is in a loop  *)
(* and the loop comes back to L without an unlock of its key.              *)
SelfDoubleLockInLoopReported ==
    Finished =>
      \A b \in Blocks : \A l \in PositionsIn(b) :
        (Ins(l).op = "lock" /\ InLoop(b)
           /\ ~UnlockBetween(l, <<b, Len(code[b]) + 1>>, Ins(l).key)
           /\ ~UnlockBetween(<<b, 0>>, l, Ins(l).key))
          => Reported(l, l)

=============================================================================
