# TLA+ models of the GCBDetector staticcheck checkers

This directory holds TLA+ models of `src/staticcheck/lint.go`, the checker package of
GCBDetector. GCBDetector is a static analyser that looks for concurrency bugs in the SSA
form of Go programs. Each model is translated from the Go source. The analysed program
is part of the model's state: `Init` picks one SSA program out of a bounded set. TLC
then runs the checker over every program in that set and compares its verdicts with
what executing the program would do.

## 1. Inventory

### Components and their state

| Component | Code (lint.go) | State it keeps | Operations |
|---|---|---|---|
| Checker object and registry | `Checker`, `Funcs`, `Name`, `Prefix` (37-62) | `CheckGenerated`, `funcDescs`, `deprecatedObjs` | registration only |
| Parallel initialisation | `Init` (163-184) | a WaitGroup, two goroutines, writes to `funcDescs` and `deprecatedObjs` | `Add(2)`, T1, T2, `Wait` |
| Stdlib-knowledge rewrite | `applyStdlibKnowledge` (196-249) | the SSA blocks: `Instrs`, `Succs`, `Preds` | replaces the `If` on the `ok` of `<-time.Tick(..)` with a `Jump` |
| Deprecation scan | `findDeprecated` (77-161) | the `docs` and `names` accumulators, `deprecatedObjs` | one `ast.Inspect` visit per node |
| Lock taxonomy | `isCallToLock`, `isCallToUnlock`, `getLockPrefix`, `shortCallName` (384-500) | none (pure) | classify a call, render its lock key |
| Double-lock checker SA2005 | `CheckDoubleLock`, `_isDoubleLock`, `findPath`, `isUnlockBeforeLock`, `isLockToLockInSameBlock`, `collectLockInstrs` (502-565, 814-1064) | map `key -> [lock instrs]`, loop indices, diagnostics | collect, range over keys, pair loop |
| Graph searches (outside src/) | `bbcallgraph.LockPathSearch`, `callgraph.PathSearchIgnoreGoCall`, `funcDescs.Loops` | the basic-block graph and the call graph | path search with a prune predicate; path search that skips `go` edges |
| Adjacent-lock checkers SA2003, SA2004 | `CheckDeferLock`, `CheckUnlockAfterLock` (730-812) | none | scan of consecutive non-debug instructions |
| Empty critical section SA2001 | `CheckEmptyCriticalSection` (607-670) | none | scan of adjacent AST statements |
| Test-fatal in goroutine SA2002 | `CheckConcurrentTesting` (672-728) | none | go targets and their `*testing.common` calls |
| WaitGroup Add SA2000 | `CheckWaitgroupAdd` (567-605) | none | an AST shape match |
| WaitGroup blocking (unregistered) | `CheckWaitgroupBlocking` (1083-1161) | two flags per loop | scan of loop blocks |
| Anonymous race SA2006 | `CheckAnonRace` (1066-1081) | none | delegates to `util`, outside src/ |
| Primitive tally SA2008 | `CheckPrimitiveUsage`, `ignoreFunc` (1182-1314) | eight counters | count and print |

### How they interact

`Init` runs two goroutines and waits for both with a WaitGroup:
- T1 builds `funcDescs`, which holds the loop sets and the call graph. It then rewrites
  every function with `applyStdlibKnowledge` and `ssa.OptimizeBlocks`.
- T2 builds `deprecatedObjs`.

After `Init` returns, the checkers run one after another over the program, which they
only read. Every checker reports through `j.Errorf`, except SA2006 and SA2008, which print.
The double-lock checker is built from three helpers:
- the lock taxonomy, which says what counts as a lock or an unlock and gives each lock
  its key;
- `funcDescs`, for the loop sets and the call graph;
- the basic-block graph of `bbcallgraph`.

### What is hard

- **The double-lock decision procedure.** `_isDoubleLock` combines several steps:
  - a scan inside one block, with an early return;
  - two index comparisons that use `-1` for "none";
  - a reachability search whose prune predicate skips blocks;
  - a call-graph search whose first edge decides the cross-function case.

  Each pair of locks takes one of three routes: same block, same function, or a callee.
  Whether a program is reported depends on which route it takes. Unit tests cover a
  handful of shapes. TLC covers every program up to a bound.
- **Ordering.** The keys come from a Go map, so diagnostics across keys come out in an
  order that changes from run to run. The cross-function verdict looks only at the first
  edge the call-graph search returns.
- **Concurrency** exists only in `Init`. The two goroutines write different fields, and
  the barrier orders them before every checker.
- **Stale state.** `funcDescs` is computed before T1 rewrites and fuses blocks, and it is
  read afterwards.
- **Boundaries.** `Args[0]` is read on lock calls that may have no arguments (SA2003,
  SA2004). `instrs[i+2]` is read in the Tick rewrite.

### What makes each component correct

- **Double-lock checker:**
  - A report names a second lock that can run after the first, in the same goroutine.
  - No report pairs two locks that an unlock separates.
  - Within one function, reports are real double locks.
  - The spec's scenarios are reported: a lock followed by a call to a function that locks
    the same key, and a lock repeated in a loop.
- **Initialisation:** no checker reads `funcDescs` or `deprecatedObjs` before both
  goroutines are done, and `Init` always returns.
- **Tick rewrite:** successors and predecessors stay consistent, the rewrite is
  idempotent, and no index goes out of range.
- **Deprecation scan:** a name is marked deprecated exactly when its own doc group, or its
  declaration's group, says so.
- **Adjacent-lock checkers:** they never crash, and they fire exactly on the adjacent pairs.
- **Primitive tally:** each counter counts exactly the uses of its primitive: channel
  operations, and the calls and defers of that primitive's functions.

## 2. Plan

The modules, in order of importance:

1. **DoubleLock** (done): the SA2005 checker, with its helpers as operators. The graph
   searches from outside src/ are modelled from spec 4.4 and 4.5.
2. **AdjacentLock** (SA2003, SA2004 and SA2008 done; SA2001 not modelled, see section 4): the lock calls are records
   that say whether the call is an invoke and what its Args are, so the `Args[0]` read
   on a zero-argument invoke shows up as a violation.
3. **LockTaxonomy** (not modelled, see section 4): `isCallToLock`, `isCallToUnlock` and `getLockPrefix` over abstract
   renderings, which are short token sequences. A run will check the classifiers against
   the spec's list of methods. DoubleLock's `Instr` will then be stated as an abstraction
   of it.
4. **StdlibKnowledge** (done): the Tick rewrite over blocks with terminators, checked for
   successor/predecessor consistency inside InitBarrier.
5. **InitBarrier** (done): the two `Init` goroutines and the WaitGroup, composed with the
   StdlibKnowledge rewrite. It checks the barrier, that `Init` returns, and a refinement
   of AbstractInit.
6. **Deprecation** (done): the `ast.Inspect` walk over a bounded file, with a violation
   run for the doc that leaks across an empty `GenDecl`.
7. **ConcurrentTesting** (done): SA2002, with a violation run for the spec's
   "transitively".
8. **DoubleLockRerun** (done): the same checker run twice over one program with two
   keys. A property on the two sequences of diagnostics shows the map-order
   nondeterminism against spec section 5.

Abstract specifications:
- **AbstractDoubleLock** (planned): the set of lock pairs that executing the program
  double-locks. DoubleLock cannot refine it, because the checker is neither sound nor
  complete. The refinement will instead be stated for the part where the code and the
  spec agree: the same-block route.
- **AbstractInit** (done): an abstract atomic `Init` step, refined by the
  two-goroutine InitBarrier.

## 3. Modules and runs

### DoubleLock (`DoubleLock.tla`, instance `MCDoubleLock.tla`)

**State:**
- `code` and `succs` hold the analysed program: each block's instructions and its
  successors. Init picks them from `Programs`, and they never change afterwards.
- `lockInstructions` is the map that `CheckDoubleLock` builds.
- `fnIdx` is the position of the collect loop.
- `visited` and `key` track the `range` over the map.
- `i` and `t` are the indices of the pair loop.
- `diags` is the sequence of `j.Errorf` reports.

**Instructions** are abstracted to what the checker can tell apart:
- a lock, with its key and method name;
- an unlock, with its key;
- a deferred unlock, which is a `*ssa.Defer`, so no scan sees it;
- a static call or a `go` statement, with its callee;
- anything else.

The key stands for the string `getLockPrefix` renders.

**Actions:**

| Action | Code |
|---|---|
| `CollectLocks` | `CheckDoubleLock` lines 1024-1036, with `collectLockInstrs` |
| `NextKey` | `range lockInstructions`. The map's order is open: any remaining key may come next. |
| `CheckPair` | one iteration `(i, t)` of lines 1040-1061, which evaluates both orders of the pair |
| `EndKey` | the pair loop of the current key ends |
| `Done` | the checker has returned |

**Verdict.** `IsDoubleLock` translates `_isDoubleLock`. It returns the set of results
the code can produce, with one result per call site that `PathSearchIgnoreGoCall` may
return as its first edge. That order depends on the call graph's edge order, which is
outside src/, so every order is checked.

**Graph searches.** `LockPathSearch` is a path of successor edges whose intermediate
blocks pass the prune predicate of `findPath`. `InLoop` means the block lies on a cycle.
Both are modelled from the spec.

**Universe** (`MCDoubleLock.tla`):
- Function F has blocks b1 (the entry) and b2. Function G has block b3.
- b2 is always reachable from b1, because the SSA builder removes unreachable blocks.
- Every successor relation inside each function is allowed.
- There is one key. Every operator filters by key, so locks of other keys behave like
  "other" instructions.
- `IntraPrograms`: b1 holds up to 4 instructions, drawn from Lock, Unlock and call G.
  b2 and b3 hold up to 2, drawn from Lock and Unlock. Four instructions is the fewest that
  lets an unlock separate two locks of one block while another unlock follows them
  (`[L, U, L, U]`), which is the shape that gets past `isUnlockBeforeLock`. The run
  covers 94,864 programs and about 1.0M states, in about 2 minutes.
- `InterPrograms`: F's blocks hold up to 2 instructions, drawn from Lock, Unlock, call G
  and go G. G holds up to 2, drawn from Lock, Unlock, deferred Unlock and call F (mutual
  recursion). The run covers 148,176 programs and about 0.96M states.

**Runs:**

| Run | Expect | Properties | What it shows |
|---|---|---|---|
| `doublelock_intra` | pass | `TypeOK`, `NoReportAcrossUnlock`, `SameBlockScanIsExact` | The early-return scan of `isLockToLockInSameBlock` decides exactly "first before second, with no unlock between". No route reports two locks of one block that an unlock separates. On the loop route this holds only because `findPath` gives up when the first block unlocks. |
| `doublelock_inter` | pass | `ReportsFollowControlFlow` | For every edge order of the call-graph search, each report names a second lock that runs after the first in the same goroutine. It is never reached only through `go`, and never only before the first lock. |
| `doublelock_scenario4` | violation | `CrossFunctionDoubleLockReported` | Spec scenario 4 is missed. F `[Lock, call G]` with G `[Lock]` gives no report, because `isUnlockBeforeLock` treats "no unlock" (-1) as an unlock before the lock. The same happens when G's unlock is deferred. |
| `doublelock_falsepos` | violation | `SameFunctionReportsAreReal` | b1 `[Lock]` followed by b2 `[Unlock, Lock, Unlock]` is reported as a double lock. `isUnlockBeforeLock` compares only the last unlock with the last lock. |
| `doublelock_loop` | violation | `SelfDoubleLockInLoopReported` | A lock in a loop with no unlock is never reported against itself (spec section 8). `findPath(b, b)` always stops early: either the block unlocks, or the -1 sentinel makes `isUnlockBeforeLock` true. |

Each property of a passing run has a mutant in `PROJECT.json`, and TLC finds that mutant
violated:
- `FindPath` without the first-block check breaks `NoReportAcrossUnlock`.
- The scan without its unlock check breaks `SameBlockScanIsExact`.
- A call-graph search that follows `go` edges breaks `ReportsFollowControlFlow`.
- A pair loop whose inner index restarts at 1 breaks `TypeOK`.

**Fairness.** `Spec` has weak fairness on `Next`. The checker is sequential code with no
blocking, so each step it can take, it takes. No liveness property is checked yet.

### DoubleLockRerun (`DoubleLockRerun.tla`, instance `MCDoubleLockRerun.tla`)

Spec section 8 says that running the checker twice yields identical diagnostic sets.
Section 5 says that diagnostics come in the deterministic order of the IR traversal.
`DoubleLockRerun` composes two `INSTANCE`s of DoubleLock:
- Both share the analysed program (`code`, `succs`).
- Each keeps its own checker state (`lockInstructions1`, `diags1`, and so on).
- `Run1` steps the first run until it has returned, then `Run2` steps the second.

Each run's `NextKey` picks the next key of `range lockInstructions` freely. Go
randomises the order of every range over a map, so the two runs may take different
orders.

**Universe:** function F has blocks b1 and b2, G has block b3, and there are two keys.
F's blocks hold up to two of `Lock(k1)`, `Lock(k2)` and `Unlock(k1)`, and G's block
holds up to one `Lock(k2)`. b1 branches to b2 and may loop, and b2 may jump back to b1.
There are no calls, so the only free choice of a run is the order of the keys.

| Run | Expect | Properties | What it shows |
|---|---|---|---|
| `doublelock_rerun_order` | violation | `DiagnosticOrderDeterministic` | TLC's trace has b1 `[Lock(k1), Lock(k1)]` and b2 `[Lock(k2), Lock(k2)]`. One run reports b1's pair first and the other reports b2's pair first. The sets of diagnostics agree, but their sequence depends on the map order (line 1038). |

### AdjacentLock (`AdjacentLock.tla`, instance `MCAdjacentLock.tla`)

`CheckDeferLock` (SA2003), `CheckUnlockAfterLock` (SA2004) and `CheckPrimitiveUsage`
(SA2008) are one scan each over the `FilterDebug` view of every block of the initial
functions. SA2003 and SA2004 look at adjacent pairs, and SA2008 counts single instructions.

**State:** `blocks` (the analysed blocks, chosen by Init from `Programs`), `checker`
(SA2003, then SA2004, then SA2008, then done), `bi` and `ii` (the block and the index of
the `range instrs[:len(instrs)-1]` loop, or of the `range instrs` loop for SA2008, as
`LastIndex` says), `diags`, `crashed`, and `tally` (the eight counters of lines 1202-1209).

**Calls** are records: `*ssa.Call` or `*ssa.Defer`, the method name, whether the callee
as its static full name (`callee`, what `IsCallTo` and `_CallName` compare), whether it is an
interface invoke, and its `Args`. Sends, receives and selects with their number of
channel states are instructions too. An invoke's receiver is not among its `Args`, so `l.Lock()` on a `sync.Locker`
has none. `IsCallToLock` keeps the code's "at most one Arg" condition on the textual
route. `NonDebug` models `FilterDebug` (outside src/) from spec 4.1 as the positions of
the non-debug instructions, so a report names the raw position of `nins`.

**Actions:** `ScanPair` is one loop iteration, with every `continue` folded into its
guard on `diags'`. `PanicOnArgs` is the same iteration when a candidate pair has an empty
`Args`: Go panics with index out of range. `NextBlock` ends a block (at once when it has
fewer than 2 instructions), `NextChecker` hands over from SA2003 to SA2004, and
`Stopped` is the end, after the three checkers or after the panic. `CountInstr` is one
iteration of SA2008's loop: `Counted` follows the type switch of lines 1224-1308 in order
(send, receive, each select state with a channel, then a `*ssa.Call` or `*ssa.Defer`),
and `CallPrimitive` is the `_CallName` if-chain with its `continue`s, ending in the
`strings.Contains(callName, "atomic")` test, which `HasSubstring` models over the name.
An invoke is rendered `invoke t.M()`, as `call.String()` does, so an interface `Lock` is
not a mutex use. The final `Printf` is output, not state. The registry runs the
checkers independently; they share no state, so running them one after the other loses
nothing but the order of their diagnostics, which no property reads.

**Universe:** operands r1 and r2; the calls `Lock(r1)`, `Lock(r2)`, `RLock(r1)`,
`Unlock(r1)`, `Unlock(r2)`, `RUnlock(r1)`, `defer Lock(r1)`, an invoke `Unlock`, an
invoke `Lock`, a user method `Lock(x)` with a parameter (two Args, so not a lock) and a
debug instruction; for SA2008 also `sync/atomic.AddInt32`, a user method
`(*main.T).atomicSwap`, a send, a receive and a select
with two channel states; one block of up to 3 instructions or two blocks of up to 2. That is
enough for a debug instruction inside a pair, for a pair split across blocks (not a
pair), for operands that differ, and for the index restart between blocks. For SA2008
it holds a defer next to a call, an atomic call after the sync names, and a select
counted by its states, and a user callee that the `"atomic"` substring counts. The run
has about 79,000 initial programs and 1,270,000 states, and takes about a minute.

| Run | Expect | Properties | What it shows |
|---|---|---|---|
| `adjacent_exact` | pass | `TypeOK`, `AdjacentReportsExact`, `PrimitiveTally` | Until a panic, the reports are exactly the adjacent pairs on one operand, each reported once; when both checkers return, every such pair has been reported. When SA2008 returns, every counter but atomic equals the number of uses of its primitive in the program, computed per instruction by `Uses` (a declarative count that matches a primitive by its names and package, not by a substring), and the atomic counter is at least the number of sync/atomic calls. It may be larger: the substring test also counts `atomicSwap`, and the strict equality fails on it (see section 4). |
| `adjacent_panic` | violation | `NoCheckerPanics` | `l.Lock()` on an interface, followed by `defer m.Lock()` or by an unlock, passes `isCallToLock` by its rendering and then `Args[0]` of its empty `Args` is read (lines 754 and 797). Spec section 7 says a dynamic invoke is skipped and checkers never fail. |

Mutants: scanning `block.Instrs` without `FilterDebug` breaks `AdjacentReportsExact`; a
block loop that does not restart the pair index breaks `TypeOK`; an SA2008 that takes
only `*ssa.Call` and drops the `*ssa.Defer` branch breaks `PrimitiveTally`.

### Deprecation (`Deprecation.tla`, instance `MCDeprecation.tla`)

`Checker.findDeprecated` (lines 77-161) walks every file with `ast.Inspect` and
records in `c.deprecatedObjs` the replacement text of every object whose doc comment
ends in a `Deprecated: ` paragraph.

**State:** `file` (the file walked, chosen by Init), `stack` (the nodes Inspect has
still to hand to `fn`, next first), `docs` and `names` (the two slices the closure
keeps across calls), and `objs` (`deprecatedObjs`). A doc group is abstracted to
whether it has the paragraph and the text after it. An identifier is the object it
resolves to.

**Actions:** one per case of `fn`: `VisitFile`, `VisitGenDecl` (type/const/var add
their doc and descend, an import is skipped), `VisitFuncDecl`, `VisitTypeSpec`,
`VisitValueSpec`, `VisitFields` (struct and interface types: `doDocs` per field, with
`DoFields` as a RECURSIVE operator), `VisitOther` and `Done`. The shared tail of the
declaration cases, `doDocs` followed by the reset of both slices unless one is empty,
is `Flush`. It is part of each action, never a step of its own. Returning true is
`Descend` (the children are pushed in front), returning false is `Skip`.

**Universe:** doc groups with no paragraph, `Deprecated: m1` and `Deprecated: m2`. A
`Deprecated: ` with nothing after it is left out: `CommentGroup.Text()` trims the
paragraph and ends it with a newline, so the message is never empty. Files of up to two declarations from functions,
imports, `var`/`const`/`type` groups of zero to two specs, and struct types with
documented fields, plus three-declaration files that carry a doc across an empty
group. That is 107,000 states in about 16 s.

| Run | Expect | Properties | What it shows |
|---|---|---|---|
| `deprecation` | pass | `TypeOK`, `DeprecatedNamesComplete` | When the walk ends, every name whose own doc is deprecated (with a text) is in `deprecatedObjs`. |
| `deprecation_leak` | violation | `NoDeprecationFromUnrelatedDoc` | `// Deprecated: m1` on an empty `var ()`, then `func F()`: the group's doc stays in `docs`, since no names were collected, and `doDocs` gives F the text m1 (line 117, with the reset at 149-156 skipped). |

Mutants: a `Flush` that does not clear `names` breaks `TypeOK`, and a `TypeSpec` case
that returns false (fields never visited) breaks `DeprecatedNamesComplete`.

### StdlibKnowledge, InitBarrier and AbstractInit (instance `MCInitBarrier.tla`)

**StdlibKnowledge** holds operators over one function: a record of its live blocks and
the instructions, `Succs` and `Preds` of each. `ApplyStdlibKnowledge` is
`applyStdlibKnowledge` (lines 196-249). It checks the two block guards, which count
DebugRefs, and filters the DebugRefs (`NonDebugRefs`). `ScanTick` is the scan: a
receive from `time.Tick`, the `Extract` of its ok component, and an `If` on it. A match
is rewritten by `Prune`: the `If` becomes a `Jump`, `Succs` is cut to its first
element, and `RemovePred` is applied to the dropped successor. `ScanTick` records a
panic when `instrs[i+1]` or `instrs[i+2]` is out of range. In SSA a block with two
successors ends in its `If`, so no modelled program reaches that panic.
`OptimizeBlocks` (outside src/) is modelled from spec 4.2 as the deletion of blocks
unreachable from the entry, with their edges. `Loops` stands for the loop sets of
`functions.NewDescriptions`: the blocks on a cycle. Reachability is a RECURSIVE
fixpoint, `ReachFrom`, because TLC re-evaluates the Graphs module's closure every time
it checks ENABLED for fairness.

**InitBarrier** is `Checker.Init` (lines 163-184), with a `pc` per goroutine:
- `MainAdd` is `wg.Add(2)`.
- `MainGo` is the two `go` statements.
- `MainWait` is `wg.Wait`.
- T1's steps are `T1Descriptions`, then one `T1Rewrite` per function of
  `AllFunctions`: `applyStdlibKnowledge` followed by `OptimizeBlocks`, with a function
  without blocks left alone. T1 ends with `T1Done`.
- T2's steps are `T2Alloc`, `T2FindDeprecated` and `T2Done`.

`T2FindDeprecated` is one step: the walk is the Deprecation module, and it shares no
state with T1. `WgDone` panics on a negative counter, as `sync.WaitGroup` does.

**AbstractInit** is what the checkers may assume. In one step, the descriptions are
built from the program as loaded, every function with blocks is rewritten and
optimised, and the deprecation index is built. If a rewrite panics, the process dies
instead. InitBarrier maps onto it: while main has not passed `wg.Wait`, the abstract
state is the program as loaded. `RefinesAbstractInit` checks the abstract `Init` and
`[Next]_vars`. Its liveness is `InitEventuallyReturns`.

**Universe:** functions of up to 4 blocks. Each is either external (no blocks) or one of
30 shapes: a diamond whose arms may jump into each other, or a loop with an exit that
may jump back into the body. The branching block ends in one of five sequences:
- the `for range time.Tick` match;
- the same with a DebugRef inside;
- a receive on another channel;
- an `Extract` followed by something other than the `If`;
- a short block.

The `init` run takes every program of two functions: 961 programs, 26,908 states, about
11 s. It checks safety and liveness together. T1 rewrites each function once, while the
function is still as loaded, so the rewrite and the loop sets are tabulated once for the
function shapes of `Programs`: `RewriteTable`, `LoopsTable`, `Rewritten` and `LoopsOf`.
Any other input is computed directly. Without the tables, TLC recomputes the rewrite
every time it evaluates `ENABLED T1` for the fairness condition.

**Fairness:** weak fairness for each goroutine (`WF_vars(Main)`, `WF_vars(T1)`,
`WF_vars(T2)`). Go's scheduler eventually runs a runnable goroutine. None of these
steps blocks except `wg.Wait`, which the model guards on the counter.

| Run | Expect | Properties | What it shows |
|---|---|---|---|
| `init` | pass | `TypeOK`, `CfgStaysConsistent`, `BarrierHolds`, `RefinesAbstractInit`, `InitEventuallyReturns` | In every interleaving, each function's edges stay recorded at both ends through the rewrite and the optimisation. Main reaches the checkers only after both goroutines are done. Seen from the checkers, Init is the atomic step of AbstractInit, with the descriptions taken before the rewrite. Under the goroutines' fairness, `wg.Wait` returns. |

Mutants:

| Mutant | Property it breaks |
|---|---|
| `wg.Add(3)` | `TypeOK` |
| the rewrite without `RemovePred` | `CfgStaysConsistent` |
| `wg.Add(1)` | `BarrierHolds` |
| `OptimizeBlocks` before the rewrite | `RefinesAbstractInit` |
| a T1 loop that does not advance | `InitEventuallyReturns` |

### ConcurrentTesting (`ConcurrentTesting.tla`, instance `MCConcurrentTesting.tla`)

`CheckConcurrentTesting` (SA2002, lines 672-728) visits every instruction of the
initial functions. For each `*ssa.Go`, it takes the target (a `*ssa.Function`, or the
function of a `*ssa.MakeClosure`; anything else is skipped). It then reports, at the go
instruction, every static non-invoke call in the target's own blocks to a
`*testing.common` method in its list.

**State:** `prog` (a function table and the initial functions, chosen by Init), `todo`
(the instructions still to visit) and `diags`. **Actions:** `ScanOther`, `ScanGo`
(the whole inner scan as `GoDiags`) and `Done`.

**Universe:** a test of up to two go statements, each starting `worker` by name or as a
closure, or starting a func value. The worker calls `t.Fatal`, calls a helper that calls
`t.Fatal`, calls `t.Log`, makes an interface call, or calls `t.Fatal` twice: 55
programs.

| Run | Expect | Properties | What it shows |
|---|---|---|---|
| `concurrent_testing_transitive` | violation | `FatalGoroutinesReported` | `go worker()` where `worker` calls `helper` and `helper` calls `t.Fatal` is not reported. Spec 4.7 asks for a target that "transitively contains" the call. |

## 4. What is not modelled, and why

- **SA2000** has no ordering and no reachable bound. It is a single AST-shape match.
- **SA2008's `ignoreFunc`** skips a function whose first positioned instruction lies in a
  `_test.go` file. The model has no source positions, so every function it scans is a
  non-test one. Builtin callees (named by `v.Name()`) and select states with a nil
  channel are not in the alphabet. The counters are unbounded Go `int`s that a real
  program cannot overflow.
- **The `"atomic"` substring at line 1304** counts any callee whose full name contains
  `atomic`, such as a user method `(*T).atomicSwap`, as a sync/atomic use. Spec 4.7
  asks for the uses of the synchronization primitives. The `adjacent_exact` alphabet
  contains such a method, and an exact count by package fails on it. A violation run
  that shows this would need a thirteenth run, so `PrimitiveTally` states only what holds:
  the atomic counter never misses a sync/atomic call. The over-count is a hazard with no
  property that checks it.
- **SA2001** (`CheckEmptyCriticalSection`) is an AST walk over statement lists and shares
  no state with any other checker. Its overlap with SA2004, which reports
  `m.Lock(); m.Unlock()` from the SSA view, could only be stated through a model of the
  SSA builder, which is outside src/. A module of its own would need a run of its own.
  The project has twelve runs, each answering a distinct question, and that is the
  number of runs it keeps.
- **SA2007** (`CheckWaitgroupBlocking`) is commented out of `Funcs`. It reads the loop
  sets of `funcDescs`, which `T1Descriptions` computes from the program as loaded.
  InitBarrier therefore already shows what the checker would see: loop sets that can
  name blocks `OptimizeBlocks` has deleted. Since no analysis runs SA2007, that is not a
  hazard of the program; the staleness it would read is the one at line 167.
- **Deferred calls to functions, and calls that are both a lock and an unlock** (hazards
  at lines 993 and 475) are not in DoubleLock's alphabet. Each would show a missed
  report, so each would need a violation run of its own. Adding the instruction to the
  passing doublelock runs, which take up to about four minutes, would push them past the
  time limit.
- **SA2006** delegates its logic to `util`, which is outside src/.
- **Unused helpers and `filterGenerated`**: no registered checker calls them.
- **String rendering.** Keys and names are model values, not strings, until LockTaxonomy
  models the substring tests.
- **Loop sets and the call graph** come from the `functions` package, outside src/. They
  are modelled from the spec: `InLoop` is a cycle, and `CallEdges` are the static call
  sites.
- **The basic-block graph** uses intra-function successor edges only. That is spec 4.4's
  "nodes are that function's basic blocks".
- **Jump threading and block fusion** in `ssa.OptimizeBlocks` are not modelled, only the
  removal of unreachable blocks. Whether `isInLoop` later reads a block that fusion
  removed is therefore not checked.
- **findDeprecated** walks one file per run. `docs` and `names` are declared once
  (lines 78-79) and live across every file and package, so the doc leak of
  `deprecation_leak` also crosses file boundaries. The model shows it within one file.
- **`ast.Inspect`'s nil call** after a node's children returns without effect in `fn`,
  so it is not a step.
