------------------------------ MODULE EventQueue ------------------------------
(***************************************************************************)
(* The in-memory event queue of src/services/queue/eventQueue.ts.          *)
(*                                                                         *)
(* enqueue pushes a message and then, unless a delivery is under way on    *)
(* any topic, takes ONE message from that topic and awaits each subscriber *)
(* in turn.  Nothing else starts a delivery.  Between two awaits anything  *)
(* may be enqueued, subscribed, unsubscribed or cleared; what the delivery *)
(* holds are references to the queue array and to the subscriber array of  *)
(* its topic, which unsubscribe and clearTopic replace by new arrays.      *)
(***************************************************************************)
EXTENDS Integers, Sequences, FiniteSets, SequencesExt

CONSTANTS
  Messages,       \* messages callers may enqueue, each once
  Topics,         \* topic names
  Topic,          \* topic of each message
  MaxAttempts,    \* maxAttempts of each message
  Scheduled,      \* messages enqueued with a scheduledAt in the future
  Subs,           \* subscriptions callers may make, each once
  SubTopic,       \* topic of each subscription
  NoMessage,      \* value of `current` between deliveries
  FaultyListener  \* a listener of "message" may throw

ASSUME EventAssumption ==
  /\ IsFiniteSet(Messages) /\ IsFiniteSet(Subs)
  /\ Topic \in [Messages -> Topics]
  /\ MaxAttempts \in [Messages -> Int]
  /\ Scheduled \subseteq Messages
  /\ SubTopic \in [Subs -> Topics]
  /\ NoMessage \notin Messages
  /\ FaultyListener \in BOOLEAN

VARIABLES
  queues,      \* this.queues: the messages waiting on each topic
  subs,        \* this.subscriptions: the subscribers of each topic, in order
  processing,  \* this.processing
  attempts,    \* message.attempts, shared by all queued copies of a message
  mature,      \* scheduled messages whose time has come
  current,     \* the message being delivered
  waiting,     \* subscribers it has still to be awaited on, the first one running
  subsHeld,    \* the delivery still holds the topic's subscriber array
  queueHeld,   \* the delivery still holds the topic's queue array
  made,        \* history: subscriptions made so far
  sent,        \* history: messages in the order they were enqueued
  cleared      \* history: messages removed by clearTopic

vars == <<queues, subs, processing, attempts, mature, current, waiting,
          subsHeld, queueHeld, made, sent, cleared>>

Init ==
  /\ queues = [t \in Topics |-> <<>>]
  /\ subs = [t \in Topics |-> <<>>]
  /\ processing = FALSE
  /\ attempts = [m \in Messages |-> 0]
  /\ mature = {}
  /\ current = NoMessage
  /\ waiting = <<>>
  /\ subsHeld = FALSE
  /\ queueHeld = FALSE
  /\ made = {}
  /\ sent = <<>>
  /\ cleared = {}

-----------------------------------------------------------------------------
\* Subscribing during a delivery on the topic also adds to that delivery, which
\* iterates over the same array.
Subscribe(s) ==
  /\ s \notin made
  /\ made' = made \union {s}
  /\ subs' = [subs EXCEPT ![SubTopic[s]] = Append(@, s)]
  /\ waiting' = IF processing /\ subsHeld /\ Topic[current] = SubTopic[s]
                THEN Append(waiting, s)
                ELSE waiting
  /\ UNCHANGED <<queues, processing, attempts, mature, current, subsHeld, queueHeld, sent, cleared>>

\* unsubscribe replaces the array of every topic by a filtered copy, also when no
\* topic has the id: a delivery goes on with the array it holds, the removed
\* subscriber included.
Unsubscribe(s) ==
  /\ subs' = [t \in Topics |-> RemoveFirst(subs[t], s)]
  /\ subsHeld' = FALSE
  /\ UNCHANGED <<queues, processing, attempts, mature, current, waiting, queueHeld, made, sent, cleared>>

\* clearTopic installs a new array, also for an empty one; a delivery keeps
\* pushing to the old one.
ClearTopic(t) ==
  /\ cleared' = cleared \union ToSet(queues[t])
  /\ queues' = [queues EXCEPT ![t] = <<>>]
  /\ queueHeld' = (queueHeld /\ Topic[current] # t)
  /\ UNCHANGED <<subs, processing, attempts, mature, current, waiting, subsHeld, made, sent>>

\* The scheduledAt of a message passes.
Mature(m) ==
  /\ m \in Scheduled \ mature
  /\ mature' = mature \union {m}
  /\ UNCHANGED <<queues, subs, processing, attempts, current, waiting, subsHeld, queueHeld,
                 made, sent, cleared>>

-----------------------------------------------------------------------------
NotDue(m) == m \in Scheduled \ mature

\* Mutant: the message goes to the front of the queue.
PushedInFront(m) == <<m>> \o queues[Topic[m]]

\* What processQueue finds on the topic after the push.
Pushed(m) == Append(queues[Topic[m]], m)
CanDeliver(m) ==
  /\ ~ processing
  /\ subs[Topic[m]] # <<>>
  /\ ~ NotDue(Head(Pushed(m)))

\* Mutant: a first message that is not due is not put back.
EnqueueDroppingHead(m) ==
  /\ m \notin ToSet(sent)
  /\ ~ CanDeliver(m)
  /\ sent' = Append(sent, m)
  /\ queues' = [queues EXCEPT ![Topic[m]] =
                  IF processing \/ subs[Topic[m]] = <<>> THEN Pushed(m) ELSE Tail(Pushed(m))]
  /\ UNCHANGED <<subs, processing, attempts, mature, current, waiting, subsHeld, queueHeld,
                 made, cleared>>

\* A delivery is under way, or there is no subscriber, or the first message is
\* not due and is put back at the front: the message stays in the queue.  So it
\* does when a listener of "message" throws before processQueue is called.
EnqueueOnly(m) ==
  /\ m \notin ToSet(sent)
  /\ FaultyListener \/ ~ CanDeliver(m)
  /\ sent' = Append(sent, m)
  /\ queues' = [queues EXCEPT ![Topic[m]] = Pushed(m)]
  /\ UNCHANGED <<subs, processing, attempts, mature, current, waiting, subsHeld, queueHeld,
                 made, cleared>>

EnqueueAndDeliver(m) ==
  LET head == Head(Pushed(m))
  IN  /\ m \notin ToSet(sent)
      /\ CanDeliver(m)
      /\ sent' = Append(sent, m)
      /\ queues' = [queues EXCEPT ![Topic[m]] = Tail(Pushed(m))]
      /\ processing' = TRUE
      /\ current' = head
      /\ attempts' = [attempts EXCEPT ![head] = @ + 1]
      /\ waiting' = subs[Topic[m]]
      /\ subsHeld' = TRUE
      /\ queueHeld' = TRUE
      /\ UNCHANGED <<subs, mature, made, cleared>>

\* Mutants: the finally block is missing; it belongs to each subscriber's call.
NextWithoutFinally ==
  /\ waiting # <<>>
  /\ waiting' = Tail(waiting)
  /\ UNCHANGED <<processing, current, subsHeld, queueHeld>>
NextReleasingEarly ==
  /\ waiting' = Tail(waiting)
  /\ processing' = FALSE
  /\ IF Len(waiting) > 1
     THEN UNCHANGED <<current, subsHeld, queueHeld>>
     ELSE current' = NoMessage /\ subsHeld' = FALSE /\ queueHeld' = FALSE

\* The loop goes on to the next subscriber, or ends and releases the flag.
NextSubscriber ==
  /\ waiting' = Tail(waiting)
  /\ IF Len(waiting) > 1
     THEN UNCHANGED <<processing, current, subsHeld, queueHeld>>
     ELSE /\ processing' = FALSE
          /\ current' = NoMessage
          /\ subsHeld' = FALSE
          /\ queueHeld' = FALSE

HandlerResolves ==
  /\ processing
  /\ NextSubscriber
  /\ UNCHANGED <<queues, subs, attempts, mature, made, sent, cleared>>

\* Mutant: one redelivery too many.
HandlerRejectsOnceMore ==
  /\ processing
  /\ queues' = IF attempts[current] <= MaxAttempts[current] /\ queueHeld
               THEN [queues EXCEPT ![Topic[current]] = Append(@, current)]
               ELSE queues
  /\ NextSubscriber
  /\ UNCHANGED <<subs, attempts, mature, made, sent, cleared>>

\* Every subscriber that rejects puts a copy back while attempts are left.
HandlerRejects ==
  /\ processing
  /\ queues' = IF attempts[current] < MaxAttempts[current] /\ queueHeld
               THEN [queues EXCEPT ![Topic[current]] = Append(@, current)]
               ELSE queues
  /\ NextSubscriber
  /\ UNCHANGED <<subs, attempts, mature, made, sent, cleared>>

HandlerSettles == HandlerResolves \/ HandlerRejects

Next ==
  \/ \E s \in Subs : Subscribe(s) \/ Unsubscribe(s)
  \/ \E t \in Topics : ClearTopic(t)
  \/ \E m \in Messages : Mature(m) \/ EnqueueOnly(m) \/ EnqueueAndDeliver(m)
  \/ HandlerSettles

Spec == Init /\ [][Next]_vars

\* A subscriber's handler is assumed to settle.
FairSpec == Spec /\ WF_vars(HandlerSettles)

-----------------------------------------------------------------------------
TypeOK ==
  /\ queues \in [Topics -> Seq(Messages)]
  /\ subs \in [Topics -> Seq(Subs)]
  /\ processing \in BOOLEAN
  /\ attempts \in [Messages -> Nat]
  /\ mature \subseteq Scheduled
  /\ current \in Messages \union {NoMessage}
  /\ processing <=> current # NoMessage
  /\ waiting \in Seq(Subs) /\ (processing <=> waiting # <<>>)
  /\ subsHeld \in BOOLEAN /\ queueHeld \in BOOLEAN
  /\ made \subseteq Subs
  /\ sent \in Seq(Messages)
  /\ cleared \subseteq Messages

\* Queued messages that no delivery has taken yet.
Unseen == {m \in Messages : attempts[m] = 0 /\ m \in ToSet(queues[Topic[m]])}

Log == INSTANCE TopicLog WITH log <- sent, unseen <- Unseen

\* Every topic is a first-in first-out log: putting back a message that is not
\* due, redeliveries and the array that clearTopic replaces under a delivery
\* neither lose a message nor let one overtake another before its first delivery.
ImplementsTopicLog == Log!Spec

\* Messages of one topic are first delivered in the order they were enqueued:
\* neither putting back a message that is not due nor a redelivery lets a later
\* message overtake an earlier one that was never delivered.
FirstDeliveryInOrder ==
  \A i, k \in 1 .. Len(sent) :
    i < k /\ Topic[sent[i]] = Topic[sent[k]] /\ attempts[sent[k]] > 0
      => attempts[sent[i]] > 0 \/ sent[i] \in cleared

\* A message that was never delivered nor cleared is in its queue, once.
UndeliveredStayQueued ==
  \A m \in ToSet(sent) \ cleared :
    attempts[m] = 0 =>
      Cardinality({i \in 1 .. Len(queues[Topic[m]]) : queues[Topic[m]][i] = m}) = 1

\* Several rejecting subscribers multiply a message, and its copies share one
\* attempts counter, so it can be delivered more often than maxAttempts; but
\* deliveries made and copies queued never exceed one per subscriber and
\* allowed retry, plus the first.
RedeliveryBound ==
  \A m \in Messages :
    LET copies == {i \in 1 .. Len(queues[Topic[m]]) : queues[Topic[m]][i] = m}
        listeners == {s \in Subs : SubTopic[s] = Topic[m]}
        retries == Max({0, MaxAttempts[m] - 1})
    IN  attempts[m] + Cardinality(copies) <= 1 + retries * Cardinality(listeners)

\* The single processing flag, which blocks every topic, is always released.
FlagReleased == processing ~> ~ processing
=============================================================================
