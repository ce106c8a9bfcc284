------------------------------ MODULE EmailQueue ------------------------------
(***************************************************************************)
(* The email queue of src/services/email/queueEmail.ts, together with      *)
(* sendEmail and the retry loop of sendEmailWithRetry in sendEmail.ts.     *)
(*                                                                         *)
(* One pass at a time (processQueue) walks the map of emails in insertion  *)
(* order.  `due` is what the pass still has to visit: an email is visited  *)
(* when it is pending and its scheduledAt is not after the `now` the pass  *)
(* took at its start.  An email queued during the pass is usually later    *)
(* than that `now`, but not if its scheduledAt lies in the past or falls   *)
(* in the same millisecond.  From "scanning" the code runs on without an   *)
(* await, so nothing else happens there.                                   *)
(***************************************************************************)
EXTENDS Integers, Sequences, FiniteSets, SequencesExt

CONSTANTS
  Emails,       \* emails callers may queue, each once
  MaxAttempts,  \* maxAttempts of each email
  Scheduled,    \* emails queued with a scheduledAt in the future
  NoEmail       \* value of `current` outside a send

ASSUME EmailAssumption ==
  /\ IsFiniteSet(Emails)
  /\ MaxAttempts \in [Emails -> Int]
  /\ Scheduled \subseteq Emails
  /\ NoEmail \notin Emails

VARIABLES
  emailQueue,  \* keys of the emailQueue map, in insertion order
  status,      \* item.status; "absent" before queueEmail
  attempts,    \* item.attempts: times a pass has taken the email up
  mature,      \* scheduled emails whose time has come
  ticks,       \* setImmediate(processQueue) callbacks that have not run
  stage,       \* where the pass is: "idle" is isProcessing = false
  due,         \* emails the pass still has to visit
  current,     \* the email it is sending
  try,         \* loop variable of sendEmailWithRetry
  transporter, \* initializeEmailService was called
  sends,       \* history: calls of sendEmail for each email
  delivered    \* history: times the mail server took each email

mailVars == <<transporter, sends, delivered>>
vars == <<emailQueue, status, attempts, mature, ticks, stage, due, current, try, mailVars>>

IsProcessing == stage # "idle"
Ripe(e) == e \notin Scheduled \ mature
Pending == {e \in ToSet(emailQueue) : status[e] = "pending"}

Init ==
  /\ emailQueue = <<>>
  /\ status = [e \in Emails |-> "absent"]
  /\ attempts = [e \in Emails |-> 0]
  /\ mature = {}
  /\ ticks = 0
  /\ stage = "idle"
  /\ due = {}
  /\ current = NoEmail
  /\ try = 0
  /\ transporter = FALSE
  /\ sends = [e \in Emails |-> 0]
  /\ delivered = [e \in Emails |-> 0]

-----------------------------------------------------------------------------
\* A callback is scheduled only when no pass is under way.
QueueEmail(e) ==
  /\ status[e] = "absent"
  /\ stage # "scanning"
  /\ emailQueue' = Append(emailQueue, e)
  /\ status' = [status EXCEPT ![e] = "pending"]
  /\ ticks' = IF IsProcessing THEN ticks ELSE ticks + 1
  /\ \/ due' = due
     \/ IsProcessing /\ Ripe(e) /\ due' = due \union {e}
  /\ UNCHANGED <<attempts, mature, stage, current, try, mailVars>>

\* The scheduledAt of an email passes.
Mature(e) ==
  /\ e \in Scheduled \ mature
  /\ stage # "scanning"
  /\ mature' = mature \union {e}
  /\ UNCHANGED <<emailQueue, status, attempts, ticks, stage, due, current, try, mailVars>>

\* Until then a send fails in the same macrotask, so nothing comes in between.
InitializeEmailService ==
  /\ stage \notin {"scanning", "sending"} /\ ~ transporter
  /\ transporter' = TRUE
  /\ UNCHANGED <<emailQueue, status, attempts, mature, ticks, stage, due, current, try>>
  /\ UNCHANGED <<sends, delivered>>

-----------------------------------------------------------------------------
\* Mutants: the status of the emails is not looked at; the pass breaks off
\* after one email; the flag is not looked at.
BeginPassOverAll ==
  /\ ~ IsProcessing
  /\ stage' = "scanning"
  /\ due' = {e \in ToSet(emailQueue) : Ripe(e)}
BeginPassOverFirst ==
  /\ ~ IsProcessing
  /\ stage' = "scanning"
  /\ due' = {e \in Pending : Ripe(e) /\ emailQueue[1] = e}
BeginPassRegardless ==
  /\ stage' = "scanning"
  /\ due' = {e \in Pending : Ripe(e)}

\* processQueue takes the flag and its `now`.
BeginPass ==
  /\ ~ IsProcessing
  /\ stage' = "scanning"
  /\ due' = {e \in Pending : Ripe(e)}

\* A setImmediate callback runs; it returns at once during a pass.
CallbackRuns ==
  /\ ticks > 0
  /\ stage # "scanning"
  /\ ticks' = ticks - 1
  /\ BeginPass \/ (IsProcessing /\ UNCHANGED <<stage, due>>)
  /\ UNCHANGED <<emailQueue, status, attempts, mature, current, try, mailVars>>

\* processQueue is exported and may be called directly.
CallProcessQueue ==
  /\ BeginPass
  /\ UNCHANGED <<emailQueue, status, attempts, mature, ticks, current, try, mailVars>>

NextDue == emailQueue[Min({k \in 1 .. Len(emailQueue) : emailQueue[k] \in due})]

TakeUp ==
  /\ stage = "scanning"
  /\ due # {}
  /\ due' = due \ {NextDue}
  /\ current' = NextDue
  /\ status' = [status EXCEPT ![NextDue] = "sending"]
  /\ attempts' = [attempts EXCEPT ![NextDue] = @ + 1]
  /\ try' = 1
  /\ stage' = "sending"
  /\ UNCHANGED <<emailQueue, mature, ticks, mailVars>>

\* Mutant: the flag is not released in a finally block.
PassEndsSilently ==
  /\ stage = "scanning"
  /\ due = {}
  /\ stage' = "pausing"
  /\ UNCHANGED <<emailQueue, status, attempts, mature, ticks, due, current, try, mailVars>>

PassEnds ==
  /\ stage = "scanning"
  /\ due = {}
  /\ stage' = "idle"
  /\ UNCHANGED <<emailQueue, status, attempts, mature, ticks, due, current, try, mailVars>>

-----------------------------------------------------------------------------
(* sendEmailWithRetry and what processQueue does with its outcome.         *)

\* Mutant: the outcome is not recorded on the item.
ConcludeUnrecorded(outcome) ==
  /\ stage' = "pausing"
  /\ current' = NoEmail
  /\ try' = 0
  /\ UNCHANGED status

\* The email is sent, or the try block fails; then the rate-limit pause starts.
Conclude(outcome) ==
  /\ status' = [status EXCEPT ![current] = outcome]
  /\ stage' = "pausing"
  /\ current' = NoEmail
  /\ try' = 0

\* Mutant: an email is given up one pass late.
AfterFailureOnceMore(e) == IF attempts[e] > MaxAttempts[e] THEN "failed" ELSE "pending"

AfterFailure(e) == IF attempts[e] >= MaxAttempts[e] THEN "failed" ELSE "pending"

SendSucceeds ==
  /\ stage = "sending" /\ transporter
  /\ try <= MaxAttempts[current]
  /\ sends' = [sends EXCEPT ![current] = @ + 1]
  /\ delivered' = [delivered EXCEPT ![current] = @ + 1]
  /\ Conclude("sent")
  /\ UNCHANGED <<emailQueue, attempts, mature, ticks, due, transporter>>

\* The call fails; the server may have taken the email nevertheless.  Without a
\* transporter every call does.
SendFails ==
  /\ stage = "sending"
  /\ try <= MaxAttempts[current]
  /\ sends' = [sends EXCEPT ![current] = @ + 1]
  /\ delivered' = delivered
       \/ (transporter /\ delivered' = [delivered EXCEPT ![current] = @ + 1])
  /\ IF try < MaxAttempts[current]
     THEN stage' = "backoff" /\ UNCHANGED <<status, current, try>>
     ELSE Conclude(AfterFailure(current))
  /\ UNCHANGED <<emailQueue, attempts, mature, ticks, due, transporter>>

\* With maxAttempts below one the loop body never runs and undefined is thrown.
SendNothing ==
  /\ stage = "sending"
  /\ try > MaxAttempts[current]
  /\ Conclude(AfterFailure(current))
  /\ UNCHANGED <<emailQueue, attempts, mature, ticks, due, mailVars>>

BackoffEnds ==
  /\ stage = "backoff"
  /\ try' = try + 1
  /\ stage' = "sending"
  /\ UNCHANGED <<emailQueue, status, attempts, mature, ticks, due, current, mailVars>>

PauseEnds ==
  /\ stage = "pausing"
  /\ stage' = "scanning"
  /\ UNCHANGED <<emailQueue, status, attempts, mature, ticks, due, current, try, mailVars>>

PassSteps ==
  TakeUp \/ PassEnds \/ SendSucceeds \/ SendFails \/ SendNothing \/ BackoffEnds \/ PauseEnds

Next ==
  \/ \E e \in Emails : QueueEmail(e) \/ Mature(e)
  \/ CallbackRuns
  \/ InitializeEmailService
  \/ CallProcessQueue
  \/ PassSteps

Spec == Init /\ [][Next]_vars

\* Callbacks and timers run, time passes, and the mail server answers or the
\* connection times out.  No one is assumed to call processQueue.
FairSpec ==
  /\ Spec
  /\ WF_vars(CallbackRuns) /\ WF_vars(PassSteps)
  /\ \A e \in Emails : WF_vars(Mature(e))

-----------------------------------------------------------------------------
\* What callers see of an email: it waits, is being processed, or has ended.
Seen == [e \in Emails |-> IF status[e] = "sending" THEN "running"
                          ELSE IF status[e] = "sent" THEN "completed" ELSE status[e]]

Pool == INSTANCE JobPool WITH Jobs <- Emails, Workers <- 1, status <- Seen

TypeOK ==
  /\ emailQueue \in Seq(Emails) /\ IsInjective(emailQueue)
  /\ status \in [Emails -> {"absent", "pending", "sending", "sent", "failed"}]
  /\ \A e \in Emails : status[e] = "absent" <=> e \notin ToSet(emailQueue)
  /\ \A e \in Emails : status[e] = "sending" <=> e = current
  /\ attempts \in [Emails -> Nat]
  /\ mature \subseteq Scheduled
  /\ ticks \in Nat
  /\ stage \in {"idle", "scanning", "sending", "backoff", "pausing"}
  /\ current \in Emails \union {NoEmail}
  /\ current # NoEmail <=> stage \in {"sending", "backoff"}
  /\ due \subseteq Pending /\ (due # {} => IsProcessing)
  /\ try \in Nat /\ transporter \in BOOLEAN
  /\ sends \in [Emails -> Nat] /\ delivered \in [Emails -> Nat]

\* The two retry loops multiply: an email that fails for good was sent exactly
\* maxAttempts times in each of maxAttempts passes, and no email costs more.  A
\* maxAttempts below one means no send at all.
SendBudget ==
  \A e \in Emails :
    LET budget == Max({0, MaxAttempts[e]})
    IN  /\ sends[e] <= budget * budget
        /\ status[e] = "failed" => sends[e] = budget * budget
        /\ status[e] = "pending" => sends[e] = budget * attempts[e]
        /\ status[e] = "sent" => sends[e] > budget * (attempts[e] - 1)

\* An email that was sent or given up is never sent again, whatever passes are
\* started afterwards.
SettledIsFinal ==
  [][\A e \in Emails : status[e] \in {"sent", "failed"} =>
       status'[e] = status[e] /\ sends'[e] = sends[e]]_vars

\* However callbacks and direct calls of processQueue interleave with the sends,
\* the queue is a pool of one worker: one email is processed at a time, each is
\* taken up at most maxAttempts times (once, if that is less than one), and it is
\* given up exactly when the passes it may have are used up.
ImplementsJobPool == Pool!Spec

\* A pass ends, so that the flag cannot block the queue for ever.
PassesEnd == IsProcessing ~> ~ IsProcessing

\* An email that is due while no pass is under way and a callback is scheduled
\* is taken up, by that callback or by a pass that gets in before it.
IdleQueueServesDueEmails ==
  \A e \in Emails :
    (e \in Pending /\ Ripe(e) /\ attempts[e] = 0 /\ ~ IsProcessing /\ ticks > 0)
      ~> attempts[e] > 0

\* Every pending email is processed: it ends sent or failed.
AllPendingProcessed ==
  \A e \in Emails : status[e] = "pending" ~> status[e] \in {"sent", "failed"}
=============================================================================
