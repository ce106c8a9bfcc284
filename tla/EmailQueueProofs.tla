--------------------------- MODULE EmailQueueProofs ---------------------------
(***************************************************************************)
(* Theorems about EmailQueue, for any finite set of emails and any budgets *)
(* (also zero and negative ones), however often processQueue is called.    *)
(*                                                                         *)
(* The budget of sends is a product, and it is spent one send at a time:   *)
(* the invariant follows the two loop counters, attempts (one per pass)    *)
(* and try (within a pass), through every stage of the pass.               *)
(***************************************************************************)
EXTENDS EmailQueue, SharedLemmas

Budget(e) == Max({0, MaxAttempts[e]})

\* Sends made by the pass that is at email e.
SendsOfThisPass == IF stage = "backoff" THEN try ELSE try - 1

\* What the counters of an email are, by its status.
Counted(e) ==
  /\ status[e] = "absent" => sends[e] = 0 /\ attempts[e] = 0
  /\ status[e] = "pending" =>
       /\ sends[e] = Budget(e) * attempts[e]
       /\ attempts[e] = 0 \/ attempts[e] < MaxAttempts[e]
  /\ status[e] = "sending" =>
       /\ attempts[e] > 0 /\ (attempts[e] = 1 \/ attempts[e] <= MaxAttempts[e])
       /\ try > 0 /\ (stage = "sending" => try = 1 \/ try <= MaxAttempts[e])
       /\ stage = "backoff" => try < MaxAttempts[e]
       /\ sends[e] = Budget(e) * (attempts[e] - 1) + SendsOfThisPass
  /\ status[e] = "sent" =>
       sends[e] > Budget(e) * (attempts[e] - 1) /\ sends[e] <= Budget(e) * Budget(e)
  /\ status[e] = "failed" => sends[e] = Budget(e) * Budget(e)

EveryEmailCounted == \A e \in Emails : Counted(e)

IInv == TypeOK /\ EveryEmailCounted

-----------------------------------------------------------------------------
\* The budget is maxAttempts, or zero if that is negative.
LEMMA BudgetIsMaximum ==
  ASSUME NEW e \in Emails
  PROVE  /\ Budget(e) \in Nat
         /\ Budget(e) = IF MaxAttempts[e] > 0 THEN MaxAttempts[e] ELSE 0
<1>1. MaxAttempts[e] \in Int
  BY EmailAssumption
<1>. QED  BY <1>1, MaxWithZero DEF Budget

\* One more pass costs one more budget, and n passes no more than b budgets if
\* n is at most b.
LEMMA PassesCostBudgets ==
  ASSUME NEW b \in Nat, NEW n \in Nat
  PROVE  /\ b * n \in Nat /\ b * b \in Nat /\ b * 0 = 0
         /\ b * (n - 1) + b = b * n
         /\ n <= b => b * n <= b * b
<1>1. b * n \in Nat /\ b * b \in Nat /\ b * 0 = 0
  OBVIOUS
<1>2. b * (n - 1) + b = b * n
  OBVIOUS
<1>3. ASSUME n <= b PROVE b * n <= b * b
  <2>1. b - n \in Nat /\ b * (b - n) \in Nat
    BY <1>3
  <2>2. b * b = b * n + b * (b - n)
    OBVIOUS
  <2>. QED  BY <1>1, <2>1, <2>2
<1>. QED  BY <1>1, <1>2, <1>3

\* The counters imply the budget that the run checks.
LEMMA CountedWithinBudget == IInv => SendBudget
<1> SUFFICES ASSUME IInv, NEW e \in Emails
             PROVE  /\ sends[e] <= Budget(e) * Budget(e)
                    /\ status[e] = "failed" => sends[e] = Budget(e) * Budget(e)
                    /\ status[e] = "pending" => sends[e] = Budget(e) * attempts[e]
                    /\ status[e] = "sent" => sends[e] > Budget(e) * (attempts[e] - 1)
  BY DEF SendBudget, Budget
<1> DEFINE b == Budget(e)
           n == attempts[e]
<1>1. /\ b \in Nat /\ b = IF MaxAttempts[e] > 0 THEN MaxAttempts[e] ELSE 0
      /\ MaxAttempts[e] \in Int
  BY BudgetIsMaximum, EmailAssumption
<1>2. TypeOK /\ Counted(e) /\ n \in Nat /\ sends[e] \in Nat /\ try \in Nat
  BY DEF IInv, EveryEmailCounted, TypeOK
<1> HIDE DEF b, n
<1>3. /\ b * n \in Nat /\ b * b \in Nat /\ b * 0 = 0
      /\ b * (n - 1) + b = b * n
      /\ n <= b => b * n <= b * b
  BY <1>1, <1>2, PassesCostBudgets
<1>4. sends[e] <= b * b
  <2>1. CASE status[e] = "absent"
    BY <1>2, <1>3, <2>1 DEF Counted
  <2>2. CASE status[e] = "pending"
    <3>1. sends[e] = b * n /\ (n = 0 \/ n < MaxAttempts[e])
      BY <1>2, <2>2 DEF Counted, b, n
    <3>. QED  BY <1>1, <1>2, <1>3, <3>1
  <2>3. CASE status[e] = "sending"
    <3>1. /\ sends[e] = b * (n - 1) + SendsOfThisPass
          /\ n > 0 /\ (n = 1 \/ n <= MaxAttempts[e]) /\ try > 0
          /\ stage = "sending" => try = 1 \/ try <= MaxAttempts[e]
          /\ stage = "backoff" => try < MaxAttempts[e]
      BY <1>2, <2>3 DEF Counted, b, n
    <3>2. stage \in {"sending", "backoff"}
      BY <1>2, <2>3, EmailAssumption DEF TypeOK
    <3>3. SendsOfThisPass <= b /\ SendsOfThisPass \in Int
      BY <1>1, <1>2, <3>1, <3>2 DEF SendsOfThisPass
    <3>4. CASE n <= b
      <4> DEFINE before == b * (n - 1)
                 after == b * n
                 most == b * b
      <4>1. before \in Int /\ after \in Int /\ most \in Int
        BY <1>1, <1>2
      <4>2. sends[e] = before + SendsOfThisPass /\ before + b = after /\ after <= most
        BY <1>3, <3>1, <3>4
      <4> HIDE DEF before, after, most
      <4>3. sends[e] <= most
        BY <1>1, <3>3, <4>1, <4>2
      <4>. QED  BY <4>3 DEF most
    <3>5. CASE ~ (n <= b)
      <4>1. b = 0 /\ n = 1
        BY <1>1, <1>2, <3>1, <3>5
      <4>2. SendsOfThisPass = 0
        BY <1>1, <1>2, <3>1, <3>2, <4>1 DEF SendsOfThisPass
      <4>. QED  BY <3>1, <4>1, <4>2
    <3>. QED  BY <3>4, <3>5
  <2>4. CASE status[e] \in {"sent", "failed"}
    BY <1>2, <1>3, <2>4 DEF Counted, b
  <2>. QED  BY <1>2, <2>1, <2>2, <2>3, <2>4 DEF TypeOK
<1>. QED  BY <1>2, <1>4 DEF Counted, b, n

-----------------------------------------------------------------------------
\* The inductive invariant holds at the start.
LEMMA InitEstablishesIInv == Init => IInv
<1> SUFFICES ASSUME Init PROVE IInv
  OBVIOUS
<1>1. emailQueue \in Seq(Emails) /\ IsInjective(emailQueue) /\ ToSet(emailQueue) = {}
  BY DEF Init, IsInjective, ToSet
<1>2. TypeOK
  BY <1>1, EmailAssumption DEF Init, TypeOK, IsProcessing
<1>3. EveryEmailCounted
  BY DEF Init, EveryEmailCounted, Counted
<1>. QED  BY <1>2, <1>3 DEF IInv

\* What the pass takes up is in the queue and pending.
LEMMA NextDueIsPending ==
  ASSUME TypeOK, due # {}
  PROVE  NextDue \in due /\ NextDue \in Emails /\ status[NextDue] = "pending"
<1>1. emailQueue \in Seq(Emails) /\ ToSet(emailQueue) \cap due # {}
  BY DEF TypeOK, Pending
<1>2. NextDue \in ToSet(emailQueue) \cap due
  BY <1>1, FirstMatch DEF NextDue
<1>3. due \subseteq Pending /\ ToSet(emailQueue) \subseteq Emails
  BY DEF TypeOK, ToSet
<1>. QED  BY <1>2, <1>3 DEF Pending

\* During a send the current email is the one whose status is "sending".
LEMMA CurrentIsSending ==
  ASSUME TypeOK, stage \in {"sending", "backoff"}
  PROVE  current \in Emails /\ status[current] = "sending"
BY DEF TypeOK

\* Every step keeps the types.
LEMMA StepKeepsTypes == IInv /\ [Next]_vars => TypeOK'
<1> SUFFICES ASSUME IInv, [Next]_vars PROVE TypeOK'
  OBVIOUS
<1>0. TypeOK /\ NoEmail \notin Emails
  BY EmailAssumption DEF IInv
<1>1. ASSUME NEW e \in Emails, QueueEmail(e) PROVE TypeOK'
  <2>1. /\ emailQueue' \in Seq(Emails) /\ ToSet(emailQueue') = ToSet(emailQueue) \union {e}
        /\ IsInjective(emailQueue')
    BY <1>0, <1>1, AppendAdds DEF QueueEmail, TypeOK
  <2>2. Pending' = Pending \union {e}
    BY <1>0, <1>1, <2>1 DEF QueueEmail, TypeOK, Pending
  <2>. QED  BY <1>0, <1>1, <2>1, <2>2 DEF QueueEmail, TypeOK, IsProcessing, mailVars
<1>2. ASSUME NEW e \in Emails, Mature(e) PROVE TypeOK'
  BY <1>0, <1>2 DEF Mature, TypeOK, Pending, IsProcessing, mailVars
<1>3. CASE CallbackRuns
  BY <1>0, <1>3 DEF CallbackRuns, BeginPass, TypeOK, Pending, IsProcessing, mailVars
<1>4. CASE InitializeEmailService
  BY <1>0, <1>4 DEF InitializeEmailService, TypeOK, Pending, IsProcessing
<1>5. CASE CallProcessQueue
  BY <1>0, <1>5 DEF CallProcessQueue, BeginPass, TypeOK, Pending, IsProcessing, mailVars
<1>6. CASE TakeUp
  <2>1. NextDue \in due /\ NextDue \in Emails /\ status[NextDue] = "pending"
    BY <1>0, <1>6, NextDueIsPending DEF TakeUp
  <2> HIDE DEF NextDue
  <2>. QED  BY <1>0, <1>6, <2>1 DEF TakeUp, TypeOK, Pending, IsProcessing, mailVars
<1>7. CASE PassEnds
  BY <1>0, <1>7 DEF PassEnds, TypeOK, Pending, IsProcessing, mailVars
<1>8. ASSUME NEW outcome \in {"pending", "sent", "failed"}, Conclude(outcome),
             stage = "sending", sends' \in [Emails -> Nat], delivered' \in [Emails -> Nat],
             UNCHANGED <<emailQueue, attempts, mature, ticks, due, transporter>>
      PROVE  TypeOK'
  <2>1. current \in Emails /\ status[current] = "sending"
    BY <1>0, <1>8, CurrentIsSending
  <2>2. status' = [status EXCEPT ![current] = outcome] /\ stage' = "pausing"
        /\ current' = NoEmail /\ try' = 0
    BY <1>8 DEF Conclude
  <2>3. \A e \in Emails : status[e] = "pending" => status'[e] = "pending"
    BY <1>0, <2>1, <2>2 DEF TypeOK
  <2>4. due \subseteq Pending'
    <3>1. due \subseteq Emails /\ due \subseteq ToSet(emailQueue)
      BY <1>0 DEF TypeOK, Pending, ToSet
    <3>2. \A e \in due : status[e] = "pending"
      BY <1>0 DEF TypeOK, Pending
    <3>. QED  BY <1>8, <2>3, <3>1, <3>2 DEF Pending
  <2>. QED  BY <1>0, <1>8, <2>1, <2>2, <2>4 DEF TypeOK, IsProcessing
<1>9. /\ AfterFailure(current) \in {"pending", "sent", "failed"}
      /\ stage = "sending" => current \in Emails
  BY <1>0, CurrentIsSending DEF AfterFailure
<1>10. CASE SendSucceeds
  BY <1>0, <1>8, <1>9, <1>10 DEF SendSucceeds, TypeOK
<1>11. CASE SendFails
  <2>1. sends' \in [Emails -> Nat] /\ delivered' \in [Emails -> Nat]
    <3>1. current \in Emails /\ sends \in [Emails -> Nat] /\ delivered \in [Emails -> Nat]
      BY <1>0, <1>9, <1>11 DEF SendFails, TypeOK
    <3>2. sends' = [sends EXCEPT ![current] = @ + 1]
      BY <1>11 DEF SendFails
    <3>3. delivered' = delivered \/ delivered' = [delivered EXCEPT ![current] = @ + 1]
      BY <1>11 DEF SendFails
    <3>. QED  BY <3>1, <3>2, <3>3
  <2>2. CASE try < MaxAttempts[current]
    BY <1>0, <1>11, <2>1, <2>2 DEF SendFails, TypeOK, Pending, IsProcessing
  <2>3. CASE ~ (try < MaxAttempts[current])
    BY <1>8, <1>9, <1>11, <2>1, <2>3 DEF SendFails
  <2>. QED  BY <2>2, <2>3
<1>12. CASE SendNothing
  BY <1>0, <1>8, <1>9, <1>12 DEF SendNothing, TypeOK, mailVars
<1>13. CASE BackoffEnds
  BY <1>0, <1>13 DEF BackoffEnds, TypeOK, Pending, IsProcessing, mailVars
<1>14. CASE PauseEnds
  BY <1>0, <1>14 DEF PauseEnds, TypeOK, Pending, IsProcessing, mailVars
<1>15. CASE UNCHANGED vars
  BY <1>0, <1>15 DEF vars, mailVars, TypeOK, Pending, IsProcessing
<1>. QED
  BY <1>1, <1>2, <1>3, <1>4, <1>5, <1>6, <1>7, <1>10, <1>11, <1>12, <1>13, <1>14, <1>15
     DEF Next, PassSteps

-----------------------------------------------------------------------------
\* A step that leaves an email's counters and status alone, and the loop too if
\* it is the email being sent, keeps its account.
LEMMA UntouchedStaysCounted ==
  ASSUME NEW e \in Emails, Counted(e),
         status'[e] = status[e], sends'[e] = sends[e], attempts'[e] = attempts[e],
         status[e] = "sending" => stage' = stage /\ try' = try
  PROVE  Counted(e)'
BY DEF Counted, SendsOfThisPass, Budget

\* Every step keeps the account of every email.
LEMMA StepKeepsCounts == IInv /\ [Next]_vars => EveryEmailCounted'
<1> SUFFICES ASSUME IInv, [Next]_vars, NEW e \in Emails PROVE Counted(e)'
  BY DEF EveryEmailCounted
<1> DEFINE b == Budget(e)
           n == attempts[e]
           m == MaxAttempts[e]
<1>0. TypeOK /\ Counted(e) /\ NoEmail \notin Emails
  BY EmailAssumption DEF IInv, EveryEmailCounted
<1>1. b \in Nat /\ m \in Int /\ b = IF m > 0 THEN m ELSE 0
  BY BudgetIsMaximum, EmailAssumption
<1>2. Budget(e)' = b
  BY DEF Budget
<1>3. n \in Nat /\ sends[e] \in Nat /\ try \in Nat
  BY <1>0 DEF TypeOK
<1>4. /\ b * n \in Nat /\ b * b \in Nat /\ b * 0 = 0 /\ b * (n - 1) \in Int
      /\ b * (n - 1) + b = b * n
      /\ n <= b => b * n <= b * b
  <2> HIDE DEF b, n
  <2>. QED  BY <1>1, <1>3, PassesCostBudgets
<1>5. ASSUME NEW f \in Emails, QueueEmail(f) PROVE Counted(e)'
  <2>1. CASE e # f
    BY <1>0, <1>5, <2>1, UntouchedStaysCounted DEF QueueEmail, TypeOK, mailVars
  <2>2. CASE e = f
    <3>1. status[e] = "absent" /\ status'[e] = "pending" /\ sends'[e] = sends[e]
          /\ attempts'[e] = n
      BY <1>0, <1>5, <2>2 DEF QueueEmail, TypeOK, mailVars
    <3>. QED  BY <1>0, <1>2, <1>4, <3>1 DEF Counted
  <2>. QED  BY <2>1, <2>2
<1>6. ASSUME \/ \E f \in Emails : Mature(f)
             \/ CallbackRuns \/ InitializeEmailService \/ CallProcessQueue
             \/ PassEnds \/ PauseEnds \/ UNCHANGED vars
      PROVE  Counted(e)'
  <2>1. UNCHANGED <<status, sends, attempts, try>>
    BY <1>6 DEF Mature, CallbackRuns, InitializeEmailService, CallProcessQueue, PassEnds,
                PauseEnds, vars, mailVars
  <2>2. status[e] = "sending" => stage \in {"sending", "backoff"}
    BY <1>0 DEF TypeOK
  <2>3. stage \in {"sending", "backoff"} => stage' = stage
    BY <1>6 DEF Mature, CallbackRuns, InitializeEmailService, CallProcessQueue, PassEnds,
                PauseEnds, BeginPass, IsProcessing, vars
  <2>. QED  BY <1>0, <2>1, <2>2, <2>3, UntouchedStaysCounted
<1>7. CASE TakeUp
  <2> DEFINE d == NextDue
  <2>1. d \in due /\ d \in Emails /\ status[d] = "pending"
    BY <1>0, <1>7, NextDueIsPending DEF TakeUp
  <2>2. /\ status' = [status EXCEPT ![d] = "sending"] /\ try' = 1 /\ stage' = "sending"
        /\ attempts' = [attempts EXCEPT ![d] = @ + 1] /\ sends' = sends /\ stage = "scanning"
    BY <1>7 DEF TakeUp, mailVars
  <2> HIDE DEF d
  <2>3. CASE e # d
    <3>1. status[e] # "sending"
      BY <1>0, <2>2 DEF TypeOK
    <3>. QED  BY <1>0, <2>1, <2>2, <2>3, <3>1, UntouchedStaysCounted DEF TypeOK
  <2>4. CASE e = d
    <3>1. status'[e] = "sending" /\ attempts'[e] = n + 1 /\ sends'[e] = sends[e]
      BY <1>0, <2>1, <2>2, <2>4 DEF TypeOK
    <3>2. sends[e] = b * n /\ (n = 0 \/ n < m)
      BY <1>0, <2>1, <2>4 DEF Counted
    <3>3. b * (n + 1 - 1) = b * n /\ SendsOfThisPass' = 0
      BY <1>1, <1>3, <2>2 DEF SendsOfThisPass
    <3> HIDE DEF b, n, m
    <3>4. attempts'[e] > 0 /\ (attempts'[e] = 1 \/ attempts'[e] <= m)
      BY <1>1, <1>3, <3>1, <3>2
    <3>5. sends'[e] = b * (attempts'[e] - 1) + SendsOfThisPass'
      <4>1. attempts'[e] - 1 = n
        BY <1>3, <3>1
      <4>. QED  BY <1>3, <3>1, <3>2, <3>3, <4>1
    <3>. QED  BY <1>2, <2>2, <3>1, <3>4, <3>5 DEF Counted, m
  <2>. QED  BY <2>3, <2>4
<1>8. ASSUME stage = "sending", e # current,
             SendSucceeds \/ SendFails \/ SendNothing
      PROVE  Counted(e)'
  <2>1. status[e] # "sending" /\ current \in Emails
    BY <1>0, <1>8, CurrentIsSending DEF TypeOK
  <2>2. attempts' = attempts /\ sends'[e] = sends[e]
    BY <1>0, <1>8, <2>1 DEF SendSucceeds, SendFails, SendNothing, TypeOK, mailVars
  <2>3. status'[e] = status[e]
    BY <1>0, <1>8, <2>1 DEF SendSucceeds, SendFails, SendNothing, TypeOK, Conclude
  <2>. QED  BY <1>0, <2>1, <2>2, <2>3, UntouchedStaysCounted
<1>9. ASSUME stage = "sending", e = current
      PROVE  /\ status[e] = "sending" /\ n > 0 /\ (n = 1 \/ n <= m)
             /\ try > 0 /\ (try = 1 \/ try <= m)
             /\ sends[e] = b * (n - 1) + (try - 1)
  <2>1. status[e] = "sending"
    BY <1>0, <1>9, CurrentIsSending
  <2>. QED  BY <1>0, <1>9, <2>1 DEF Counted, SendsOfThisPass
<1>10. CASE SendSucceeds /\ e = current
  <2>1. /\ stage = "sending" /\ try <= m /\ attempts' = attempts
        /\ sends'[e] = sends[e] + 1 /\ status'[e] = "sent"
    BY <1>0, <1>10 DEF SendSucceeds, Conclude, TypeOK
  <2>2. sends'[e] > b * (n - 1) /\ sends'[e] <= b * b
    <3> HIDE DEF b, n, m
    <3>1. try <= b /\ n <= b
      BY <1>1, <1>3, <1>9, <1>10, <2>1
    <3>. QED  BY <1>1, <1>3, <1>4, <1>9, <1>10, <2>1, <3>1
  <2>. QED  BY <1>2, <2>1, <2>2 DEF Counted
<1>11. CASE SendFails /\ e = current
  <2>1. /\ stage = "sending" /\ try <= m /\ attempts'[e] = n /\ sends'[e] = sends[e] + 1
    BY <1>0, <1>11 DEF SendFails, TypeOK
  <2>2. CASE try < m
    <3>1. stage' = "backoff" /\ try' = try /\ status' = status
      BY <1>11, <2>2 DEF SendFails
    <3>2. SendsOfThisPass' = try
      BY <3>1 DEF SendsOfThisPass
    <3>3. sends'[e] = b * (attempts'[e] - 1) + SendsOfThisPass'
      <4> HIDE DEF b, n, m
      <4>. QED  BY <1>3, <1>4, <1>9, <1>11, <2>1, <3>2
    <3>. QED  BY <1>2, <1>9, <1>11, <2>1, <2>2, <3>1, <3>3 DEF Counted
  <2>3. CASE ~ (try < m)
    <3>1. status'[e] = AfterFailure(e)
      BY <1>0, <1>11, <2>3 DEF SendFails, Conclude, TypeOK
    <3>2. sends'[e] = b * n /\ n <= b
      <4> HIDE DEF b, n, m
      <4>1. try = b
        BY <1>1, <1>3, <1>9, <1>11, <2>1, <2>3
      <4>. QED  BY <1>1, <1>3, <1>4, <1>9, <1>11, <2>1, <4>1
    <3>3. CASE n >= m
      <4>1. status'[e] = "failed" /\ n = b
        <5>1. status'[e] = "failed"
          BY <3>1, <3>3 DEF AfterFailure
        <5> HIDE DEF b, n, m
        <5>2. n > 0
          BY <1>9, <1>11, <2>1
        <5>3. n = b
          BY <1>1, <1>3, <3>2, <3>3, <5>2
        <5>. QED  BY <5>1, <5>3
      <4>. QED  BY <1>2, <3>2, <4>1 DEF Counted
    <3>4. CASE ~ (n >= m)
      <4>1. status'[e] = "pending" /\ n < m
        BY <1>1, <1>3, <3>1, <3>4 DEF AfterFailure
      <4>. QED  BY <1>2, <2>1, <3>2, <4>1 DEF Counted
    <3>. QED  BY <3>3, <3>4
  <2>. QED  BY <2>2, <2>3
<1>12. CASE SendNothing /\ e = current
  <2>1. /\ stage = "sending" /\ try > m /\ sends' = sends /\ attempts' = attempts
        /\ status'[e] = AfterFailure(e)
    BY <1>0, <1>12 DEF SendNothing, Conclude, TypeOK, mailVars
  <2>2. m < 1 /\ n >= m /\ b = 0 /\ n = 1 /\ try = 1
    <3>1. try \in Nat /\ n \in Nat /\ m \in Int
      BY <1>1, <1>3
    <3>2. try > m
      BY <1>12, <2>1
    <3> HIDE DEF b, n, m
    <3>3. /\ try > 0 /\ (try = 1 \/ try <= m)
          /\ n > 0 /\ (n = 1 \/ n <= m)
      BY <1>9, <1>12, <2>1
    <3>4. try = 1 /\ m < 1
      BY <3>1, <3>2, <3>3
    <3>5. n = 1 /\ n >= m
      BY <3>1, <3>3, <3>4
    <3>6. b = 0
      BY <1>1, <3>1, <3>4
    <3>. QED  BY <3>4, <3>5, <3>6
  <2>3. status'[e] = "failed"
    BY <2>1, <2>2 DEF AfterFailure
  <2>4. sends'[e] = b * b
    <3> HIDE DEF b, n, m
    <3>. QED  BY <1>9, <1>12, <2>1, <2>2
  <2>. QED  BY <1>2, <2>3, <2>4 DEF Counted
<1>13. CASE BackoffEnds
  <2>1. stage = "backoff" /\ stage' = "sending" /\ try' = try + 1
        /\ UNCHANGED <<status, sends, attempts>>
    BY <1>13 DEF BackoffEnds, mailVars
  <2>2. CASE e # current
    <3>1. status[e] # "sending"
      BY <1>0, <2>2 DEF TypeOK
    <3>. QED  BY <1>0, <2>1, <3>1, UntouchedStaysCounted
  <2>3. CASE e = current
    <3>1. status[e] = "sending"
      BY <1>0, <2>1, <2>3, CurrentIsSending
    <3>2. SendsOfThisPass' = SendsOfThisPass
      BY <1>3, <2>1 DEF SendsOfThisPass
    <3>. QED  BY <1>0, <1>1, <1>2, <1>3, <2>1, <3>1, <3>2 DEF Counted
  <2>. QED  BY <2>2, <2>3
<1>14. SendSucceeds \/ SendFails \/ SendNothing => stage = "sending"
  BY DEF SendSucceeds, SendFails, SendNothing
<1>. QED
  BY <1>5, <1>6, <1>7, <1>8, <1>10, <1>11, <1>12, <1>13, <1>14 DEF Next, PassSteps

\* Every step preserves the inductive invariant.
LEMMA IInvIsInductive == IInv /\ [Next]_vars => IInv'
BY StepKeepsTypes, StepKeepsCounts DEF IInv

\* So the inductive invariant holds in every reachable state.
LEMMA Invariance == Spec => []IInv
BY InitEstablishesIInv, IInvIsInductive, PTL DEF Spec

-----------------------------------------------------------------------------
\* Types: at most one email is being sent, it is the one whose status says so,
\* and a pass only has pending emails left to visit.
THEOREM TypeCorrect == Spec => []TypeOK
BY Invariance, PTL DEF IInv

\* The two retry loops multiply, and no email costs more sends than their
\* product, whatever passes, callbacks and failures interleave.
THEOREM BudgetOfSends == Spec => []SendBudget
BY Invariance, CountedWithinBudget, PTL

\* An email that was sent or given up is never sent again.
THEOREM SettlingIsFinal == Spec => SettledIsFinal
<1> DEFINE Final == \A e \in Emails : status[e] \in {"sent", "failed"} =>
                      status'[e] = status[e] /\ sends'[e] = sends[e]
<1>1. ASSUME IInv, [Next]_vars PROVE Final
  <2> SUFFICES ASSUME NEW e \in Emails, status[e] \in {"sent", "failed"}
               PROVE  status'[e] = status[e] /\ sends'[e] = sends[e]
    OBVIOUS
  <2>0. TypeOK
    BY <1>1 DEF IInv
  <2>1. ASSUME NEW f \in Emails, QueueEmail(f)
        PROVE  status'[e] = status[e] /\ sends'[e] = sends[e]
    BY <2>0, <2>1 DEF QueueEmail, TypeOK, mailVars
  <2>2. CASE TakeUp
    <3>1. NextDue # e
      BY <2>0, <2>2, NextDueIsPending DEF TakeUp
    <3> HIDE DEF NextDue
    <3>. QED  BY <2>0, <2>2, <3>1 DEF TakeUp, TypeOK, mailVars
  <2>3. CASE SendSucceeds \/ SendFails \/ SendNothing
    <3>1. current # e
      BY <2>0, <2>3, CurrentIsSending DEF SendSucceeds, SendFails, SendNothing
    <3>2. status' = status \/ \E o : status' = [status EXCEPT ![current] = o]
      BY <2>3 DEF SendSucceeds, SendFails, SendNothing, Conclude
    <3>3. sends' = sends \/ sends' = [sends EXCEPT ![current] = @ + 1]
      BY <2>3 DEF SendSucceeds, SendFails, SendNothing, mailVars
    <3>. QED  BY <2>0, <3>1, <3>2, <3>3 DEF TypeOK
  <2>4. CASE \/ \E f \in Emails : Mature(f)
             \/ CallbackRuns \/ InitializeEmailService \/ CallProcessQueue
             \/ PassEnds \/ BackoffEnds \/ PauseEnds \/ UNCHANGED vars
    BY <2>4 DEF Mature, CallbackRuns, InitializeEmailService, CallProcessQueue, PassEnds,
                BackoffEnds, PauseEnds, vars, mailVars
  <2>. QED  BY <1>1, <2>1, <2>2, <2>3, <2>4 DEF Next, PassSteps
<1>2. IInv /\ [Next]_vars => [Final]_vars
  BY <1>1
<1>. QED  BY <1>2, Invariance, PTL DEF Spec, SettledIsFinal
-----------------------------------------------------------------------------
\* What callers see of an email that changes from one status to another.
LEMMA SeenChanges ==
  ASSUME TypeOK, NEW e \in Emails, NEW s,
         status' = [status EXCEPT ![e] = s]
  PROVE  Seen' = [Seen EXCEPT ![e] = IF s = "sending" THEN "running"
                                     ELSE IF s = "sent" THEN "completed" ELSE s]
BY DEF Seen, TypeOK

\* Between two sends nothing runs.
LEMMA NothingRuns ==
  ASSUME TypeOK, stage = "scanning"
  PROVE  Pool!Running = {}
<1>1. current = NoEmail /\ current \notin Emails
  BY EmailAssumption DEF TypeOK
<1>2. \A e \in Emails : status[e] # "sending"
  BY <1>1 DEF TypeOK
<1>. QED  BY <1>2 DEF Pool!Running, Seen, TypeOK

\* When a pass concludes an email with a failure, the pool tries the job again or
\* gives it up, by the budget of attempts.
LEMMA FailureIsSettled ==
  ASSUME TypeOK, stage \in {"sending", "backoff"}, Conclude(AfterFailure(current)),
         UNCHANGED attempts
  PROVE  Pool!Next
<1>1. current \in Emails /\ status[current] = "sending" /\ Seen[current] = "running"
  BY CurrentIsSending DEF Seen
<1>2. attempts[current] \in Nat /\ MaxAttempts[current] \in Int
  BY <1>1, EmailAssumption DEF TypeOK
<1>3. CASE attempts[current] >= MaxAttempts[current]
  <2>1. Seen' = [Seen EXCEPT ![current] = "failed"]
    BY <1>1, <1>3, SeenChanges DEF Conclude, AfterFailure
  <2>. QED  BY <1>1, <1>3, <2>1 DEF Pool!GiveUp, Pool!Settle, Pool!Next
<1>4. CASE ~ (attempts[current] >= MaxAttempts[current])
  <2>1. Seen' = [Seen EXCEPT ![current] = "pending"]
    BY <1>1, <1>4, SeenChanges DEF Conclude, AfterFailure
  <2>2. attempts[current] < MaxAttempts[current]
    BY <1>2, <1>4
  <2>. QED  BY <1>1, <2>1, <2>2 DEF Pool!Retry, Pool!Settle, Pool!Next
<1>. QED  BY <1>3, <1>4

\* The email queue implements a plain pool of one worker: whatever passes start
\* and wherever the sends fail, every step is a step of JobPool or changes nothing.
THEOREM Refinement == Spec => ImplementsJobPool
<1>1. Init => Pool!Init
  BY DEF Init, Seen, Pool!Init
<1>2. IInv /\ [Next]_vars => [Pool!Next]_(Pool!vars)
  <2> SUFFICES ASSUME IInv, [Next]_vars PROVE [Pool!Next]_(Pool!vars)
    OBVIOUS
  <2>0. TypeOK
    BY DEF IInv
  <2>1. ASSUME NEW e \in Emails, QueueEmail(e) PROVE Pool!Next
    <3>1. Seen' = [Seen EXCEPT ![e] = "pending"] /\ Seen[e] = "absent" /\ attempts' = attempts
      <4>1. Seen' = [Seen EXCEPT ![e] = "pending"]
        BY <2>0, <2>1, SeenChanges DEF QueueEmail
      <4>. QED  BY <2>1, <4>1 DEF QueueEmail, Seen
    <3>. QED  BY <3>1 DEF Pool!Submit, Pool!Next
  <2>2. CASE TakeUp
    <3>1. NextDue \in Emails /\ status[NextDue] = "pending"
      BY <2>0, <2>2, NextDueIsPending DEF TakeUp
    <3> DEFINE e == NextDue
    <3>2. /\ status' = [status EXCEPT ![e] = "sending"]
          /\ attempts' = [attempts EXCEPT ![e] = @ + 1] /\ stage = "scanning"
      BY <2>2 DEF TakeUp
    <3> HIDE DEF e
    <3>3. Seen' = [Seen EXCEPT ![e] = "running"] /\ Seen[e] = "pending"
      <4>1. Seen' = [Seen EXCEPT ![e] = "running"]
        BY <2>0, <3>1, <3>2, SeenChanges DEF e
      <4>. QED  BY <3>1, <4>1 DEF Seen, e
    <3>4. Pool!Cardinality(Pool!Running) < 1
      <4>1. Pool!Cardinality(Pool!Running) = Cardinality(Pool!Running)
        BY Zenon DEF Pool!Cardinality, Cardinality
      <4>2. Cardinality(Pool!Running) = 0
        BY <2>0, <3>2, NothingRuns, FS_EmptySet
      <4>. QED  BY <4>1, <4>2
    <3>. QED  BY <3>1, <3>2, <3>3, <3>4 DEF Pool!Dispatch, Pool!Next, e
  <2>3. CASE SendSucceeds
    <3>1. current \in Emails /\ status[current] = "sending" /\ Seen[current] = "running"
      BY <2>0, <2>3, CurrentIsSending DEF SendSucceeds, Seen
    <3>2. Seen' = [Seen EXCEPT ![current] = "completed"]
      BY <2>0, <2>3, <3>1, SeenChanges DEF SendSucceeds, Conclude
    <3>. QED  BY <2>3, <3>1, <3>2 DEF SendSucceeds, Pool!Succeed, Pool!Settle, Pool!Next
  <2>4. CASE (SendFails /\ ~ (try < MaxAttempts[current])) \/ SendNothing
    <3>1. Conclude(AfterFailure(current)) /\ stage = "sending" /\ UNCHANGED attempts
      BY <2>4 DEF SendFails, SendNothing
    <3>. QED  BY <2>0, <3>1, FailureIsSettled
  <2>5. CASE \/ \E e \in Emails : Mature(e)
             \/ CallbackRuns \/ InitializeEmailService \/ CallProcessQueue
             \/ PassEnds \/ BackoffEnds \/ PauseEnds \/ UNCHANGED vars
             \/ SendFails /\ try < MaxAttempts[current]
    <3>1. status' = status /\ attempts' = attempts
      BY <2>5 DEF Mature, CallbackRuns, InitializeEmailService, CallProcessQueue, PassEnds,
                  BackoffEnds, PauseEnds, SendFails, vars
    <3>. QED  BY <3>1 DEF Seen, Pool!vars
  <2>. QED  BY <2>1, <2>2, <2>3, <2>4, <2>5 DEF Next, PassSteps
<1>. QED  BY <1>1, <1>2, Invariance, PTL DEF Spec, ImplementsJobPool, Pool!Spec
=============================================================================
