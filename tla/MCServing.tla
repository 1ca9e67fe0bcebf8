------------------------------ MODULE MCServing -----------------------------
(* Small inputs for the modules around a served engine: the cache of         *)
(* rerankers, the shares of a parallel region, the backends of an embedder   *)
(* and the handlers.                                                         *)
EXTENDS Cache, Shares, Backends, MCHandler

MCScore == [k \in Keys |-> <<"score", k>>]
MCNoScore == <<"none", 0>>

\* A component of each kind of backend, and those that wrap others by number.
Node(type) ==
    [names |-> ("type" :> type), inner |-> 0, primary |-> 0, secondary |-> 0, attempts |-> 0,
     argv |-> TRUE]
RetryNode(n, i) == [Node("retry") EXCEPT !.inner = i, !.attempts = n]
FallbackNode(p, s) == [Node("fallback") EXCEPT !.primary = p, !.secondary = s]
PluginDir ==
    <<[path |-> "a.so", library |-> TRUE, loads |-> TRUE, names |-> {"hash", "mine"}],
      [path |-> "b.so", library |-> TRUE, loads |-> FALSE, names |-> {"ollama"}],
      [path |-> "c.txt", library |-> FALSE, loads |-> TRUE, names |-> {"retry"}]>>
PlanFor(nodeList) == [spec |-> nodeList, io |-> [http |-> TRUE, spawn |-> TRUE], plugins |-> << >>]
BackendPlans ==
    {PlanFor(<<FallbackNode(2, 4), RetryNode(2, 3), Node("process"), Node("hash")>>),
     PlanFor(<<FallbackNode(2, 3), Node("ollama"), Node("process")>>),
     PlanFor(<<FallbackNode(2, 3), Node("ollama"), Node("ollama")>>),
     PlanFor(<<RetryNode(0, 2), Node("rest")>>),
     PlanFor(<<RetryNode(2, 2), Node("rest")>>),
     PlanFor(<<FallbackNode(2, 3), Node("onnx"), Node("rest")>>),
     PlanFor(<<FallbackNode(2, 3), [Node("process") EXCEPT !.names = "name" :> "process"],
               Node("hash")>>),
     [PlanFor(<<FallbackNode(2, 3), Node("process"), Node("mine")>>) EXCEPT !.plugins = PluginDir],
     [PlanFor(<<Node("process")>>) EXCEPT !.io.spawn = FALSE]}
BackendRest == {PlanFor(<<Node("hash")>>)}
=============================================================================
