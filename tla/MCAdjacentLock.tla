--------------------------- MODULE MCAdjacentLock ---------------------------
(* A model of AdjacentLock: two operands and a small alphabet of calls     *)
(* covering each way isCallToLock/isCallToUnlock classify a call.          *)
EXTENDS AdjacentLock

CONSTANTS r1, r2

MCReceivers == {r1, r2}

\* sync.Mutex / sync.RWMutex methods on an operand (Args[0] = the mutex)
StdCall(k, m, r) ==
    [kind |-> k, m |-> m, invoke |-> FALSE, args |-> <<r>>,
     callee |-> IF m \in {"RLock", "RUnlock"} THEN "(*sync.RWMutex)." \o m ELSE "(*sync.Mutex)." \o m]
\* l.Lock() / l.Unlock() on a sync.Locker interface: an invoke, no Args
InvokeCall(m) == [kind |-> "call", m |-> m, callee |-> "", invoke |-> TRUE, args |-> <<>>]
\* a user method Lock(x) with a parameter: Args = receiver and x
UserLock2 == [kind |-> "call", m |-> "Lock", callee |-> "(*main.T).Lock", invoke |-> FALSE,
              args |-> <<r1, r2>>]
\* atomic.AddInt32(&x, 1): a package function
AtomicAdd == [kind |-> "call", m |-> "AddInt32", callee |-> "sync/atomic.AddInt32",
              invoke |-> FALSE, args |-> <<r1>>]
\* t.atomicSwap(): a user method whose full name contains "atomic"
UserAtomic == [kind |-> "call", m |-> "atomicSwap", callee |-> "(*main.T).atomicSwap",
               invoke |-> FALSE, args |-> <<r1>>]
\* channel operations: ch <- v, <-ch, and a select of two cases
Send == [kind |-> "send"]
Recv == [kind |-> "recv"]
Select2 == [kind |-> "select", states |-> 2]
Debug == [kind |-> "debug"]

\* every call but the zero-Args invoke lock
SafeAlphabet ==
    {StdCall("call", "Lock", r1), StdCall("call", "Lock", r2),
     StdCall("call", "RLock", r1), StdCall("call", "Unlock", r1),
     StdCall("call", "Unlock", r2), StdCall("call", "RUnlock", r1),
     StdCall("defer", "Lock", r1), InvokeCall("Unlock"), UserLock2, Debug,
     AtomicAdd, UserAtomic, Send, Recv, Select2}

FullAlphabet == SafeAlphabet \cup {InvokeCall("Lock")}

\* one block of up to 3 instructions, or two blocks of up to 2
ProgramsOver(A) ==
    {<<b>> : b \in BoundedSeq(A, 3)} \cup
    {<<b, c>> : b \in BoundedSeq(A, 2), c \in BoundedSeq(A, 2)}

SafePrograms == ProgramsOver(SafeAlphabet)
FullPrograms == ProgramsOver(FullAlphabet)
=============================================================================
