----------------------------- MODULE EventLogger -----------------------------
(***************************************************************************)
(* The event logger of src/services/logger/eventLogger.ts and the audit    *)
(* log of auditLogger.ts, in a process with the global error handlers.     *)
(*                                                                         *)
(* emit calls the listeners synchronously, and a listener may log an event *)
(* itself or throw: `emitting` is the stack of logEvent calls in progress. *)
(* Events are numbered in the order in which they are logged.              *)
(***************************************************************************)
EXTENDS ErrorHandler, Integers, Sequences, SequencesExt

CONSTANTS
  MaxEvents,   \* bound on the events logged
  MaxHistory,  \* maxHistorySize
  MaxAudits    \* bound on the audit events recorded

ASSUME LoggerAssumption == MaxEvents \in Nat /\ MaxHistory \in Nat /\ MaxAudits \in Nat

VARIABLES
  logged,        \* number of events logged
  eventHistory,  \* the recent events
  emitting,      \* calls in progress: the event, its kind, the emit it is in
  observed,      \* events the last of the '*' listeners was given, in that order
  completed,     \* events whose duration or error has been set
  lost,          \* history: events whose emission was cut off by an exception
  auditLog       \* the audit log, oldest first

loggerVars == <<logged, eventHistory, emitting, observed, completed, lost, auditLog, processVars>>

LoggerInit ==
  /\ logged = 0 /\ eventHistory = <<>> /\ emitting = <<>> /\ observed = <<>>
  /\ completed = {} /\ lost = {} /\ auditLog = <<>>
  /\ ProcessInit

Innermost == Last(emitting)
Idle == emitting = <<>>

\* Mutant: the length is compared before the push.
RememberedLate(e) ==
  IF Len(eventHistory) > MaxHistory THEN Tail(Append(eventHistory, e)) ELSE Append(eventHistory, e)

Remembered(e) ==
  LET pushed == Append(eventHistory, e)
  IN  IF Len(pushed) > MaxHistory THEN Tail(pushed) ELSE pushed

\* logEvent ("plain"), or pipelineCompleted and pipelineFailed ("ending"), called
\* from outside or by a listener.
LogEvent(kind) ==
  /\ processUp /\ logged < MaxEvents
  /\ logged' = logged + 1
  /\ eventHistory' = Remembered(logged + 1)
  /\ emitting' = Append(emitting, [event |-> logged + 1, kind |-> kind, to |-> "type"])
  /\ UNCHANGED <<observed, completed, lost, auditLog, processVars>>

\* The listeners of the type have returned; those of '*' are next.
TypeListenersReturn ==
  /\ ~ Idle /\ Innermost.to = "type"
  /\ emitting' = [emitting EXCEPT ![Len(emitting)].to = "*"]
  /\ UNCHANGED <<logged, eventHistory, observed, completed, lost, auditLog, processVars>>

StarListenersReturn ==
  /\ ~ Idle /\ Innermost.to = "*"
  /\ observed' = Append(observed, Innermost.event)
  /\ completed' = IF Innermost.kind = "ending" THEN completed \union {Innermost.event}
                                              ELSE completed
  /\ emitting' = Front(emitting)
  /\ UNCHANGED <<logged, eventHistory, lost, auditLog, processVars>>

\* The exception passes through every logEvent call up to a listener or a caller
\* that catches it, or to none; toAppError may have wrapped it on the way.
ListenerThrows(e) ==
  /\ ~ Idle
  /\ \E n \in 0 .. Len(emitting) - 1 :
       /\ emitting' = SubSeq(emitting, 1, n)
       /\ lost' = lost \union {emitting[i].event : i \in n + 1 .. Len(emitting)}
       /\ UNCHANGED processVars \/ (n = 0 /\ \E f \in {e, ToAppError(e)} : Uncaught(f))
  /\ UNCHANGED <<logged, eventHistory, observed, completed, auditLog>>

RecordAuditEvent(category, outcome) ==
  /\ processUp /\ Len(auditLog) < MaxAudits
  /\ auditLog' = Append(auditLog, [id |-> Len(auditLog) + 1, category |-> category,
                                   outcome |-> outcome])
  /\ UNCHANGED <<logged, eventHistory, emitting, observed, completed, lost, processVars>>

\* auditLogin, auditLoginFailure and auditDataModification.
Audit ==
  \/ \E outcome \in {"success", "failure"} : RecordAuditEvent("authentication", outcome)
  \/ RecordAuditEvent("data_modification", "success")

\* Mutant: slice(0, limit).
NewestFromFront(s, limit) == IF limit >= Len(s) THEN s ELSE SubSeq(s, 1, limit)

\* slice(-limit); slice(-0) is the whole array.
Newest(s, limit) ==
  IF limit = 0 \/ limit >= Len(s) THEN s ELSE SubSeq(s, Len(s) - limit + 1, Len(s))

GetEventHistory(limit) == Newest(eventHistory, limit)

\* The filters a caller leaves out are "any".
QueryAuditLog(category, outcome, limit) ==
  LET matches(a) == category \in {"any", a.category} /\ outcome \in {"any", a.outcome}
  IN  Newest(FlattenSeq([i \in DOMAIN auditLog |->
                          IF matches(auditLog[i]) THEN <<auditLog[i]>> ELSE <<>>]), limit)

LoggerNext ==
  \/ \E kind \in {"plain", "ending"} : LogEvent(kind)
  \/ TypeListenersReturn \/ StarListenersReturn
  \/ \E e \in Errors : ListenerThrows(e)
  \/ Audit
  \/ RegisterGlobalErrorHandlers
       /\ UNCHANGED <<logged, eventHistory, emitting, observed, completed, lost, auditLog>>

LoggerSpec == LoggerInit /\ [][LoggerNext]_loggerVars

LoggerTypeOK ==
  /\ logged \in 0 .. MaxEvents
  /\ eventHistory \in Seq(1 .. logged) /\ observed \in Seq(1 .. logged)
  /\ \A i \in DOMAIN emitting : emitting[i].event \in 1 .. logged
  /\ completed \subseteq 1 .. logged /\ lost \subseteq 1 .. logged
  /\ Len(auditLog) <= MaxAudits
  /\ handlersOn \in BOOLEAN /\ processUp \in BOOLEAN

\* The history is the newest events in the order they were logged, never more
\* than its size, however listeners nest and throw.
HistoryIsNewest ==
  /\ Len(eventHistory) = (IF logged < MaxHistory THEN logged ELSE MaxHistory)
  /\ \A i \in DOMAIN eventHistory : eventHistory[i] = logged - Len(eventHistory) + i

\* A logged event is being emitted, was given to '*' listeners once, or was cut
\* off by an exception; only an event all listeners have seen gets its duration.
EmittedOnce ==
  /\ IsInjective(observed)
  /\ LET inProgress == {emitting[i].event : i \in DOMAIN emitting}
     IN  /\ 1 .. logged = ToSet(observed) \union lost \union inProgress
         /\ ToSet(observed) \cap lost = {}
         /\ inProgress \cap (ToSet(observed) \union lost) = {}
  /\ completed \subseteq ToSet(observed)

\* A listener is given an event before an older one only if the newer was logged
\* while the older was being emitted.  So if it is given c before a, it is given
\* before a also what it is ever given of the events between the two.
NestedFirst ==
  \A i, j, k \in DOMAIN observed :
    i < j /\ j < k => ~ (observed[j] < observed[k] /\ observed[k] < observed[i])

\* Queries return the newest matches, and at most `limit` unless that is 0.
QueriesReturnNewest ==
  \A category \in {"any", "authentication"} : \A limit \in 0 .. MaxAudits :
    LET answer == QueryAuditLog(category, "any", limit)
        matches == {i \in DOMAIN auditLog : category \in {"any", auditLog[i].category}}
    IN  /\ limit > 0 => Len(answer) <= limit
        /\ \A i \in matches : (\E j \in DOMAIN answer : answer[j].id = i)
             <=> limit = 0 \/ Cardinality({k \in matches : k > i}) < limit
=============================================================================
