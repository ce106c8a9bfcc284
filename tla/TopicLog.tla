------------------------------ MODULE TopicLog -------------------------------
(***************************************************************************)
(* What the event queue promises publishers about first deliveries,        *)
(* without saying how: every topic is a first-in first-out log.  A message *)
(* stays unseen until it is delivered for the first time, which happens in *)
(* the order of the log and only along with a publication on its topic, or *)
(* until its topic is cleared as a whole.  There are no subscribers,       *)
(* redeliveries or due times here.                                         *)
(***************************************************************************)
EXTENDS Integers, Sequences

CONSTANTS
  Messages,  \* every message that can ever be published
  Topics,    \* topic names
  Topic      \* topic of each message

VARIABLES
  log,       \* messages in the order they were published
  unseen     \* messages that are queued and were never delivered

vars == <<log, unseen>>

Published == {log[i] : i \in 1 .. Len(log)}

Init ==
  /\ log = <<>>
  /\ unseen = {}

\* Of the unseen messages of its topic, m was published first.
Foremost(m, l, u) ==
  /\ m \in u
  /\ \A x \in u : Topic[x] = Topic[m] =>
       \A i, k \in 1 .. Len(l) : l[i] = m /\ l[k] = x => i <= k

Publish(m) ==
  /\ m \notin Published
  /\ log' = Append(log, m)
  /\ unseen' = unseen \union {m}

\* The publication has the foremost message h of the topic delivered.
PublishAndDeliver(m, h) ==
  /\ m \notin Published
  /\ log' = Append(log, m)
  /\ Topic[h] = Topic[m]
  /\ Foremost(h, log', unseen \union {m})
  /\ unseen' = (unseen \union {m}) \ {h}

Clear(t) ==
  /\ unseen' = {m \in unseen : Topic[m] # t}
  /\ UNCHANGED log

Next ==
  \/ \E m \in Messages : Publish(m) \/ \E h \in Messages : PublishAndDeliver(m, h)
  \/ \E t \in Topics : Clear(t)

Spec == Init /\ [][Next]_vars
=============================================================================
