---------------------------- MODULE MCTaskQueue ----------------------------
(* Small instances of TaskQueue: jobs of two types, with mixed priorities   *)
(* and attempt budgets, one of them with a budget of zero.                  *)
EXTENDS TaskQueue

CONSTANTS a, b, c, d, mail, report

MCJobs == {a, b, c, d}
MCTypes == {mail, report}
MCJobType == (a :> mail) @@ (b :> report) @@ (c :> mail) @@ (d :> mail)
MCPriority == (a :> 0) @@ (b :> 1) @@ (c :> 0) @@ (d :> 2)
MCMaxAttempts == (a :> 3) @@ (b :> 1) @@ (c :> 2) @@ (d :> 0)
MCNoHandlers == {}
MCHandlerOfMail == {mail}
MCFaults == {"job:enqueued", "job:started"}
============================================================================
