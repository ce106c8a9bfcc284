---------------------------- MODULE MCEventQueue ----------------------------
(* Two topics; the busy one has two subscribers, enough messages to trigger  *)
(* redeliveries, and one message scheduled for later.                        *)
EXTENDS EventQueue

CONSTANTS m1, m2, m3, n1, s1, s2, u1, orders, users

MCMessages == {m1, m2, m3, n1}
MCTopics == {orders, users}
MCTopic == (m1 :> orders) @@ (m2 :> orders) @@ (m3 :> orders) @@ (n1 :> users)
MCMaxAttempts == (m1 :> 2) @@ (m2 :> 1) @@ (m3 :> 1) @@ (n1 :> 1)
MCScheduled == {m2}
MCSubs == {s1, s2, u1}
MCSubTopic == (s1 :> orders) @@ (s2 :> orders) @@ (u1 :> users)
=============================================================================
