------------------------ MODULE MCConcurrentTesting ------------------------
(* A test function that starts goroutines on a worker, by name or as a     *)
(* closure, or on a func value; the worker calls T.Fatal itself, through a *)
(* helper, calls T.Log, or makes an interface call.                        *)
EXTENDS ConcurrentTesting

MCFuncIds == {"test", "worker", "helper", "tFatal", "tLog"}

Call(f) == [op |-> "call", invoke |-> FALSE, callee |-> f]
Invoke == [op |-> "call", invoke |-> TRUE, callee |-> "none"]
Go(via, at) == [op |-> "go", target |-> [via |-> via, fn |-> "worker"], at |-> at]
Other == [op |-> "other"]

Method(n) == [blocks |-> "nil", recv |-> "*testing.common", name |-> n]
Plain(n, b) == [blocks |-> b, recv |-> "none", name |-> n]

\* the test's body: one block of up to two instructions, positions 1 and 2
TestBodies ==
    {<<>>} \cup {<<i>> : i \in {Go(v, 1) : v \in {"func", "closure", "value"}} \cup {Other}}
    \cup {<<i, j>> : i \in {Go(v, 1) : v \in {"func", "closure"}} \cup {Other},
                     j \in {Go(v, 2) : v \in {"func", "closure"}}}

WorkerBodies ==
    {<<Call("tFatal")>>, <<Call("helper")>>, <<Call("tLog")>>, <<Invoke>>,
     <<Other, Call("tFatal"), Call("tFatal")>>}

MCPrograms ==
    {[fns |-> [f \in MCFuncIds |->
                 CASE f = "test"   -> Plain("test", <<t>>)
                   [] f = "worker" -> Plain("worker", <<w>>)
                   [] f = "helper" -> Plain("helper", <<<<Call("tFatal")>>>>)
                   [] f = "tFatal" -> Method("Fatal")
                   [] f = "tLog"   -> Method("Log")],
      initial |-> <<"test">>] :
        t \in TestBodies, w \in WorkerBodies}
=============================================================================
