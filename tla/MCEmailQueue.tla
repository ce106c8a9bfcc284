---------------------------- MODULE MCEmailQueue ----------------------------
(* Three emails: one tried twice, one with a budget of zero and one for later. *)
EXTENDS EmailQueue

CONSTANTS e1, e2, e3

MCEmails == {e1, e2, e3}
MCMaxAttempts == (e1 :> 2) @@ (e2 :> 0) @@ (e3 :> 1)
MCScheduled == {e3}
=============================================================================
