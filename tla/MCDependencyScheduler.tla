------------------------ MODULE MCDependencyScheduler ------------------------
(* The graphs of four tasks in which each task has one of these lists: chains, *)
(* joins, self-loops, cycles, a dependency listed twice and an unknown one.    *)
EXTENDS DependencyScheduler

CONSTANTS a, b, c, d, unknown

MCTaskOrder == <<a, b, c, d>>
MCDepLists ==
  {<<>>, <<a>>, <<b>>, <<d>>, <<a, b>>, <<c, a>>, <<d, b>>, <<a, a>>, <<unknown>>}
MCRetries == (a :> 1) @@ (b :> 0) @@ (c :> 0) @@ (d :> 1)
MCHasTimeout == {a, b}
==============================================================================
