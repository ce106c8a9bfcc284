---------------------------- MODULE DeadLetterQueue ----------------------------
(***************************************************************************)
(* The dead letter queue of src/services/queue/deadLetterQueue.ts.         *)
(*                                                                         *)
(* Time is abstracted to the order of death, in which the clock does not   *)
(* go back, and to how many letters are older than the time to live, which *)
(* is one and the same for all purges.                                     *)
(***************************************************************************)
EXTENDS Integers, FiniteSets, Sequences, SequencesExt

CONSTANT Messages  \* messages that may be put there, each once

VARIABLES
  dead,          \* messages ever enqueued, in the order of deadAt
  messages,      \* the messages map, which keeps that order
  acknowledged,  \* messages with acknowledged = true
  aged           \* how many of `dead` died before the cutoff of a purge

dlqVars == <<dead, messages, acknowledged, aged>>

DlqInit == dead = <<>> /\ messages = {} /\ acknowledged = {} /\ aged = 0

EnqueueDead(m) ==
  /\ m \notin ToSet(dead)
  /\ dead' = Append(dead, m)
  /\ messages' = messages \union {m}
  /\ UNCHANGED <<acknowledged, aged>>

Acknowledge(m) ==
  /\ m \in messages
  /\ acknowledged' = acknowledged \union {m}
  /\ UNCHANGED <<dead, messages, aged>>

\* replay hands out the payload; whether it is processed, the queue is not told.
Replay(m) == Acknowledge(m)

GrowsOld ==
  /\ aged < Len(dead)
  /\ aged' = aged + 1
  /\ UNCHANGED <<dead, messages, acknowledged>>

\* Mutant: the comparison with the cutoff is the other way round.
PurgeYoung ==
  /\ messages' = messages \ (acknowledged \ {dead[k] : k \in 1 .. aged})
  /\ UNCHANGED <<dead, acknowledged, aged>>

PurgeAcknowledged ==
  /\ messages' = messages \ (acknowledged \cap {dead[k] : k \in 1 .. aged})
  /\ UNCHANGED <<dead, acknowledged, aged>>

Pending == messages \ acknowledged

\* The oldest `limit` letters, 100 unless the caller says otherwise.
GetMessages(limit) ==
  LET pending == FlattenSeq([k \in DOMAIN dead |->
                               IF dead[k] \in Pending THEN <<dead[k]>> ELSE <<>>])
  IN  IF limit >= Len(pending) THEN pending ELSE SubSeq(pending, 1, limit)

GetStats ==
  [total |-> Cardinality(messages),
   acknowledged |-> Cardinality(messages) - Cardinality(Pending),
   pending |-> Cardinality(Pending),
   oldest |-> {dead[k] : k \in {i \in DOMAIN dead :
                 dead[i] \in Pending /\ \A j \in 1 .. i - 1 : dead[j] \notin Pending}}]

DlqNext == GrowsOld \/ \E m \in Messages : EnqueueDead(m) \/ Acknowledge(m) \/ Replay(m)

DlqTypeOK ==
  /\ dead \in Seq(Messages) /\ IsInjective(dead)
  /\ messages \subseteq ToSet(dead) /\ acknowledged \subseteq ToSet(dead)
  /\ aged \in 0 .. Len(dead)

\* A message leaves the queue only after somebody acknowledged or replayed it, and
\* not before its time to live is over.  Every other one is among the first `limit`
\* messages as soon as fewer than `limit` that died before it are unhandled, and
\* what getStats counts and calls the oldest is what getMessages shows.
UnhandledStay ==
  /\ \A k \in DOMAIN dead :
       dead[k] \notin messages => dead[k] \in acknowledged /\ k <= aged
  /\ \A limit \in 0 .. Len(dead) : \A k \in DOMAIN dead :
       dead[k] \in ToSet(GetMessages(limit))
         <=> /\ dead[k] \notin acknowledged
             /\ Cardinality({i \in 1 .. k - 1 : dead[i] \notin acknowledged}) < limit
  /\ GetStats.acknowledged = Cardinality(messages \cap acknowledged)
  /\ GetStats.pending = Len(GetMessages(Len(dead)))
  /\ GetStats.oldest = ToSet(GetMessages(1))
=============================================================================
