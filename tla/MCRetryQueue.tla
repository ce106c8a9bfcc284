---------------------------- MODULE MCRetryQueue ----------------------------
(* Three items over two operations, with budgets of two, one and zero.       *)
EXTENDS RetryQueue

CONSTANTS a, b, c, post, sync, p1, p2

MCItems == {a, b, c}
MCOperations == {post, sync}
MCOperation == (a :> post) @@ (b :> post) @@ (c :> sync)
MCMaxAttempts == (a :> 2) @@ (b :> 1) @@ (c :> 0)
MCHandlers == {post}
MCPasses == {p1, p2}
=============================================================================
