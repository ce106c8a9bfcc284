--------------------------- MODULE ServicesProofs ---------------------------
(***************************************************************************)
(* Proofs about the services without a database: the invariants of each,   *)
(* by its own induction, and their conjunction for the services side by    *)
(* side.                                                                   *)
(***************************************************************************)
EXTENDS Services, SharedLemmas

-----------------------------------------------------------------------------
(* The inductive invariants.                                               *)

SchedulerInv == SchedulerTypeOK /\ CronTimersMatch /\ OnceTimersMatch

\* A task that is not created has no run.
RecurringInv ==
  /\ RecurringTypeOK /\ IntervalsMatch
  /\ \A t \in RecTasks \ recCreated : running[t] = 0

DlqInv ==
  /\ DlqTypeOK
  /\ \A k \in 1 .. Len(dead) :
       dead[k] \notin messages => dead[k] \in acknowledged /\ k <= aged

VerifyInv == VerifyTypeOK /\ TokensSpentOnce

\* The records of a purpose are numbered, and only the last one is active.
KeyRecords == [version : Nat, expires : {"never", "later", "past"}, active : BOOLEAN]
KeyInv ==
  /\ keyStore \in [Purposes -> Seq(KeyRecords)]
  /\ \A p \in Purposes :
       /\ Len(keyStore[p]) <= MaxVersions
       /\ \A i \in 1 .. Len(keyStore[p]) :
            /\ keyStore[p][i].version = i
            /\ keyStore[p][i].active <=> i = Len(keyStore[p])

\* Calls of logEvent in progress are of ever newer events inwards, none of which
\* is settled.
Calls == [event : 1 .. logged, kind : {"plain", "ending"}, to : {"type", "*"}]
AuditEvents == [id : Nat, category : {"authentication", "data_modification"},
                outcome : {"success", "failure"}]
LoggerInv ==
  /\ LoggerTypeOK /\ HistoryIsNewest /\ EmittedOnce
  /\ auditLog \in Seq(AuditEvents) /\ emitting \in Seq(Calls)
  /\ \A i, k \in 1 .. Len(emitting) : i < k => emitting[i].event < emitting[k].event

\* No event that the last listener was given counts as newer and older than one that
\* is still in progress, in this order.
NestingInv ==
  /\ NestedFirst
  /\ \A n \in 1 .. Len(emitting) : \A i, j \in 1 .. Len(observed) :
       i < j => ~ (observed[j] < emitting[n].event /\ emitting[n].event < observed[i])

\* Audit events are numbered in the order of the log.
AuditsNumbered == \A i \in 1 .. Len(auditLog) : auditLog[i].id = i

CustomerInv ==
  /\ CustomerTypeOK /\ EmailsUnique /\ ImportAccounted
  /\ IsFiniteSet(importedIds)

\* The old backups are the first ones; a running prune still has every backup
\* before it that it may delete, and has one in directory format before it as
\* long as it has a later one.
Dumps == [format : Formats, compress : BOOLEAN, state : {"writing", "complete", "broken"}]
BackupInv ==
  /\ backups \in Seq(Dumps)
  /\ onDisk \subseteq 1 .. Len(backups)
  /\ \E k \in 0 .. Len(backups) : old = 1 .. k
  /\ listed \in [Pruners -> SUBSET (1 .. Len(backups))]
  /\ doomed \in [Pruners -> SUBSET old]
  /\ prune \in [Pruners -> {"idle", "running", "ok", "thrown"}]
  /\ PruneAccounted
  /\ \A p \in Pruners :
       prune[p] = "running" =>
         /\ doomed[p] \cap onDisk \subseteq listed[p]
         /\ \A n \in 1 .. Len(backups) : \A m \in doomed[p] :
              backups[n].format = "directory" /\ n <= m => n \in doomed[p] \cap listed[p]

\* The cache is recent, and the files are.
TemplatesInv ==
  /\ TemplatesTypeOK /\ CacheIsRecent
  /\ DOMAIN registered = Names
  /\ recent \in [Names -> SUBSET Sources]
  /\ \A n \in Names : files[n] \in recent[n]

\* What was shown last is what the passes make of the text it was made of.
Assigned == [Keys -> [defined : BOOLEAN, truthy : BOOLEAN, text : Seq(Pieces)]]
EmailTexts == [subject : Seq(Pieces), html : Seq(Pieces), text : Seq(Pieces)]
ShownRendered ==
  /\ registered \in [Names -> EmailTexts]
  /\ shown.by = "email" =>
       /\ shown.of \in EmailTexts /\ shown.with \in Assigned
       /\ shown.as.subject = SubstituteVariables(shown.of.subject, shown.with)
       /\ shown.as.html = SubstituteVariables(shown.of.html, shown.with)
       /\ shown.as.text = IF shown.of.text # NoText
                          THEN SubstituteVariables(shown.of.text, shown.with)
                          ELSE HtmlToPlainText(shown.of.html)
  /\ shown.by = "file" =>
       /\ shown.of.text \in Seq(Pieces) /\ shown.with \in Assigned
       /\ shown.as.text = Rendered(shown.of.text, shown.with)

\* The amounts of invoices were rounded from exact ones, or from the
\* discounted subtotal.
InvoiceRecords ==
  [customer : Payers, taxRate : Nat, status : {"draft", "paid"}, subtotal : Int,
   taxAmount : Int, total : Int, discounted : BOOLEAN]
Calculated(i) ==
  IF i.discounted
  THEN i.taxAmount = Round(i.subtotal * i.taxRate, 100) /\ i.total = i.subtotal + i.taxAmount
  ELSE \E s \in Int : /\ i.subtotal = Round(s, 100)
                      /\ i.taxAmount = Round(s * i.taxRate, 10000)
                      /\ i.total = Round(100 * s + s * i.taxRate, 10000)
BillingInv ==
  /\ invoices \in Seq(InvoiceRecords) /\ Len(invoices) <= MaxInvoices
  /\ payments \in Seq([invoice : Nat, amount : Int]) /\ Len(payments) <= MaxPayments
  /\ \A n \in DOMAIN invoices : Calculated(invoices[n])

IInv ==
  /\ SchedulerInv /\ RecurringInv /\ DlqInv /\ VerifyInv /\ KeyInv /\ SignerTypeOK
  /\ LoggerInv /\ CustomerInv /\ BillingInv /\ BackupInv /\ TemplatesInv
  /\ AuditsNumbered /\ NestingInv /\ ShownRendered

-----------------------------------------------------------------------------
(* Schedulers and the dead letter queue.                                   *)

\* The invariant of the job scheduler is inductive.
LEMMA SchedulerInduction ==
  /\ SchedulerInit => SchedulerInv
  /\ SchedulerInv /\ [SchedulerNext]_schedulerVars => SchedulerInv'
<1> USE DEF SchedulerInv, SchedulerTypeOK, CronTimersMatch, OnceTimersMatch
<1>1. SchedulerInit => SchedulerInv
  BY SchedulerAssumption DEF SchedulerInit
<1>2. SchedulerInv /\ [SchedulerNext]_schedulerVars => SchedulerInv'
  <2> SUFFICES ASSUME SchedulerInv, [SchedulerNext]_schedulerVars PROVE SchedulerInv'
    OBVIOUS
  <2>0. MaxOverlap \in Nat /\ FarTasks \subseteq OnceTasks
    BY SchedulerAssumption
  <2>1. ASSUME NEW j \in CronJobs, NEW enabled \in BOOLEAN, ScheduleCronJob(j, enabled)
        PROVE  SchedulerInv'
    BY <2>1 DEF ScheduleCronJob, onceVars
  <2>2. ASSUME NEW j \in CronJobs, RunJob(j) PROVE SchedulerInv'
    BY <2>0, <2>2 DEF RunJob, onceVars
  <2>3. ASSUME NEW j \in CronJobs, PauseJob(j) PROVE SchedulerInv'
    BY <2>3 DEF PauseJob, onceVars
  <2>4. ASSUME NEW j \in CronJobs, ResumeJob(j) PROVE SchedulerInv'
    BY <2>4 DEF ResumeJob, onceVars
  <2>5. CASE StopAll
    BY <2>5 DEF StopAll, onceVars
  <2>6. ASSUME NEW j \in CronJobs, JobSettles(j) PROVE SchedulerInv'
    BY <2>0, <2>6 DEF JobSettles, onceVars
  <2>7. ASSUME NEW t \in OnceTasks, ScheduleOneTimeTask(t) PROVE SchedulerInv'
    BY <2>7 DEF ScheduleOneTimeTask, cronVars
  <2>8. ASSUME NEW t \in OnceTasks, RunAtComes(t) PROVE SchedulerInv'
    BY <2>8 DEF RunAtComes, cronVars
  <2>9. ASSUME NEW t \in OnceTasks, RunOneTimeTask(t) PROVE SchedulerInv'
    BY <2>0, <2>9 DEF RunOneTimeTask, cronVars
  <2>10. ASSUME NEW t \in OnceTasks, OneTimeTaskSettles(t) PROVE SchedulerInv'
    BY <2>10 DEF OneTimeTaskSettles, cronVars
  <2>11. CASE UNCHANGED schedulerVars
    BY <2>11 DEF schedulerVars
  <2>. QED
    BY <2>1, <2>2, <2>3, <2>4, <2>5, <2>6, <2>7, <2>8, <2>9, <2>10, <2>11
    DEF SchedulerNext, CronStep, OnceStep
<1>. QED  BY <1>1, <1>2

\* The invariant of the recurring tasks is inductive.
LEMMA RecurringInduction ==
  /\ RecurringInit => RecurringInv
  /\ RecurringInv /\ [RecurringNext]_recurringVars => RecurringInv'
<1> USE DEF RecurringInv, RecurringTypeOK, IntervalsMatch
<1>0. MaxIntervals \in Nat \ {0} /\ MaxRuns \in Nat \ {0}
  BY RecurringAssumption
<1>1. RecurringInit => RecurringInv
  BY <1>0 DEF RecurringInit
<1>2. RecurringInv /\ [RecurringNext]_recurringVars => RecurringInv'
  <2> SUFFICES ASSUME RecurringInv, [RecurringNext]_recurringVars PROVE RecurringInv'
    OBVIOUS
  <2>1. ASSUME NEW t \in RecTasks, NEW enabled \in BOOLEAN, NEW immediately \in BOOLEAN,
               CreateRecurringTask(t, enabled, immediately)
        PROVE  RecurringInv'
    <3>1. t \notin recEnabled /\ t \notin doubled /\ t \notin intervals /\ alive[t] = 0
      BY <2>1 DEF CreateRecurringTask
    <3>2. running' \in [RecTasks -> 0 .. MaxRuns]
      <4>1. running[t] = 0
        BY <2>1 DEF CreateRecurringTask
      <4>. QED  BY <1>0, <2>1, <4>1 DEF CreateRecurringTask
    <3>3. CASE enabled
      <4>1. /\ recCreated' = recCreated \union {t} /\ recTasks' = recTasks \union {t}
            /\ recEnabled' = recEnabled \union {t} /\ intervals' = intervals \union {t}
            /\ alive' = [alive EXCEPT ![t] = @ + 1] /\ alive[t] < MaxIntervals
            /\ doubled' = doubled
        BY <2>1, <3>3 DEF CreateRecurringTask, StartTask
      <4>2. alive' \in [RecTasks -> 0 .. MaxIntervals]
        BY <1>0, <3>1, <4>1
      <4>3. alive'[t] = 1 /\ \A u \in RecTasks \ {t} : alive'[u] = alive[u]
        BY <3>1, <4>1
      <4>4. IntervalsMatch'
        BY <3>1, <4>1, <4>3
      <4>5. \A u \in RecTasks \ recCreated' : running'[u] = 0
        BY <2>1, <3>3, <4>1 DEF CreateRecurringTask
      <4>. QED  BY <3>2, <4>1, <4>2, <4>4, <4>5
    <3>4. CASE ~ enabled
      BY <2>1, <3>1, <3>4 DEF CreateRecurringTask
    <3>. QED  BY <3>3, <3>4
  <2>2. ASSUME NEW t \in RecTasks, RunTask(t) PROVE RecurringInv'
    BY <1>0, <2>2 DEF RunTask
  <2>3. ASSUME NEW t \in RecTasks, RunSettles(t) PROVE RecurringInv'
    BY <1>0, <2>3 DEF RunSettles
  <2>4. ASSUME NEW t \in RecTasks, PauseTask(t) PROVE RecurringInv'
    BY <1>0, <2>4 DEF PauseTask, StopTask
  <2>5. ASSUME NEW t \in RecTasks, ResumeTask(t) PROVE RecurringInv'
    BY <1>0, <2>5 DEF ResumeTask, StartTask
  <2>6. ASSUME NEW t \in RecTasks, RemoveTask(t) PROVE RecurringInv'
    BY <1>0, <2>6 DEF RemoveTask, StopTask
  <2>7. CASE UNCHANGED recurringVars
    BY <2>7 DEF recurringVars
  <2>. QED  BY <2>1, <2>2, <2>3, <2>4, <2>5, <2>6, <2>7 DEF RecurringNext
<1>. QED  BY <1>1, <1>2

\* The invariant of the dead letter queue is inductive.
LEMMA DlqInduction ==
  /\ DlqInit => DlqInv
  /\ DlqInv /\ [DlqNext \/ PurgeAcknowledged]_dlqVars => DlqInv'
<1>1. DlqInit => DlqInv
  <2> SUFFICES ASSUME DlqInit PROVE DlqInv
    OBVIOUS
  <2>1. dead = <<>> /\ Len(dead) = 0 /\ DOMAIN dead = {}
    BY DEF DlqInit
  <2>. QED  BY <2>1 DEF DlqInit, DlqInv, DlqTypeOK, IsInjective, ToSet
<1>2. DlqInv /\ [DlqNext \/ PurgeAcknowledged]_dlqVars => DlqInv'
  <2> SUFFICES ASSUME DlqInv, [DlqNext \/ PurgeAcknowledged]_dlqVars PROVE DlqInv'
    OBVIOUS
  <2>0. /\ dead \in Seq(Messages) /\ IsInjective(dead) /\ Len(dead) \in Nat
        /\ DOMAIN dead = 1 .. Len(dead) /\ ToSet(dead) = {dead[k] : k \in 1 .. Len(dead)}
        /\ messages \subseteq ToSet(dead) /\ acknowledged \subseteq ToSet(dead)
        /\ aged \in 0 .. Len(dead)
        /\ \A k \in 1 .. Len(dead) :
             dead[k] \notin messages => dead[k] \in acknowledged /\ k <= aged
    BY DEF DlqInv, DlqTypeOK, ToSet
  <2>1. ASSUME NEW m \in Messages, EnqueueDead(m) PROVE DlqInv'
    <3> DEFINE r == Append(dead, m)
    <3>1. /\ dead' = r /\ m \notin ToSet(dead) /\ messages' = messages \union {m}
          /\ acknowledged' = acknowledged /\ aged' = aged
      BY <2>1 DEF EnqueueDead
    <3>2. /\ r \in Seq(Messages) /\ Len(r) = Len(dead) + 1 /\ r[Len(dead) + 1] = m
          /\ \A k \in 1 .. Len(dead) : r[k] = dead[k]
          /\ DOMAIN r = 1 .. Len(dead) + 1
          /\ \A k \in 1 .. Len(dead) + 1 : k \in 1 .. Len(dead) \/ k = Len(dead) + 1
      BY <2>0
    <3>3. ToSet(r) = ToSet(dead) \union {m}
      BY <2>0, AppendAdds
    <3> HIDE DEF r
    <3>4. IsInjective(r)
      BY <2>0, <3>1, <3>2 DEF IsInjective
    <3>5. aged \in 0 .. Len(dead) + 1
      BY <2>0
    <3>6. DlqTypeOK'
      BY <2>0, <3>1, <3>2, <3>3, <3>4, <3>5 DEF DlqTypeOK
    <3>7. \A k \in 1 .. Len(r) :
            r[k] \notin messages' => r[k] \in acknowledged' /\ k <= aged'
      BY <2>0, <3>1, <3>2
    <3>. QED  BY <3>1, <3>6, <3>7 DEF DlqInv
  <2>2. ASSUME NEW m \in Messages, Acknowledge(m) PROVE DlqInv'
    BY <2>0, <2>2 DEF Acknowledge, DlqInv, DlqTypeOK
  <2>3. CASE GrowsOld
    <3>1. /\ UNCHANGED <<dead, messages, acknowledged>> /\ aged' = aged + 1
          /\ aged + 1 \in 0 .. Len(dead) /\ \A k \in 1 .. Len(dead) : k <= aged => k <= aged + 1
      BY <2>0, <2>3 DEF GrowsOld
    <3>. QED  BY <2>0, <3>1 DEF DlqInv, DlqTypeOK
  <2>4. CASE PurgeAcknowledged
    <3>1. /\ messages' = messages \ (acknowledged \cap {dead[k] : k \in 1 .. aged})
          /\ UNCHANGED <<dead, acknowledged, aged>>
      BY <2>4 DEF PurgeAcknowledged
    <3>2. ASSUME NEW k \in 1 .. Len(dead), dead[k] \notin messages'
          PROVE  dead[k] \in acknowledged /\ k <= aged
      <4>1. CASE dead[k] \notin messages
        BY <2>0, <4>1
      <4>2. CASE dead[k] \in messages
        <5>1. PICK i \in 1 .. aged : dead[k] = dead[i] /\ dead[k] \in acknowledged
          BY <3>1, <3>2, <4>2
        <5>2. i \in 1 .. Len(dead) /\ i <= aged
          BY <2>0
        <5>3. i = k
          BY <2>0, <5>1, <5>2 DEF IsInjective
        <5>. QED  BY <5>1, <5>2, <5>3
      <4>. QED  BY <4>1, <4>2
    <3>. QED  BY <2>0, <3>1, <3>2 DEF DlqInv, DlqTypeOK
  <2>5. CASE UNCHANGED dlqVars
    BY <2>0, <2>5 DEF dlqVars, DlqInv, DlqTypeOK
  <2>. QED  BY <2>1, <2>2, <2>3, <2>4, <2>5 DEF DlqNext, Replay
<1>. QED  BY <1>1, <1>2

\* In an ascending enumeration, an element is preceded by the smaller ones.
LEMMA RankInOrder ==
  ASSUME NEW m \in Nat, NEW h, \A k \in 1 .. m : h[k] \in Int,
         \A k, j \in 1 .. m : k < j => h[k] < h[j],
         NEW x \in 1 .. m
  PROVE  Cardinality({i \in {h[k] : k \in 1 .. m} : i < h[x]}) = x - 1
<1> DEFINE I == 1 .. x - 1
           earlier == {i \in {h[k] : k \in 1 .. m} : i < h[x]}
           b == [k \in I |-> h[k]]
<1>1. \A k \in I : k \in 1 .. m /\ k < x
  OBVIOUS
<1>2. \A k \in I : h[k] \in earlier
  BY <1>1
<1>3. ASSUME NEW y \in earlier PROVE \E k \in I : h[k] = y
  <2>1. PICK k \in 1 .. m : h[k] = y /\ h[k] < h[x]
    OBVIOUS
  <2>2. ~ (x < k) /\ k # x
    <3>1. h[k] \in Int /\ h[x] \in Int
      OBVIOUS
    <3>. QED  BY <2>1, <3>1
  <2>3. k \in I
    BY <2>2
  <2>. QED  BY <2>1, <2>3
<1>4. ASSUME NEW k \in I, NEW j \in I, h[k] = h[j] PROVE k = j
  <2>1. k \in 1 .. m /\ j \in 1 .. m /\ h[k] \in Int
    BY <1>1
  <2>2. ~ (k < j) /\ ~ (j < k)
    BY <1>4, <2>1
  <2>. QED  BY <2>2
<1>5. IsFiniteSet(I) /\ Cardinality(I) = x - 1
  <2>1. 1 \in Int /\ x - 1 \in Int /\ (1 <= x - 1 \/ x - 1 = 0)
    OBVIOUS
  <2>2. IsFiniteSet(I) /\ Cardinality(I) = IF 1 > x - 1 THEN 0 ELSE (x - 1) - 1 + 1
    BY <2>1, FS_Interval
  <2>. QED  BY <2>1, <2>2
<1> HIDE DEF I, earlier
<1>6. b \in [I -> earlier] /\ \A k \in I : b[k] = h[k]
  BY <1>2
<1> HIDE DEF b
<1>7. b \in Bijection(I, earlier)
  BY <1>3, <1>4, <1>6, Fun_IsBij
<1>8. ExistsBijection(I, earlier)
  BY <1>7 DEF ExistsBijection
<1>9. Cardinality(earlier) = x - 1
  BY <1>5, <1>8, FS_Bijection
<1>. QED  BY <1>9 DEF earlier

\* What getMessages shows, for any limit.
LEMMA PendingAreShown ==
  ASSUME DlqInv, NEW limit \in Nat
  PROVE  /\ ToSet(GetMessages(limit)) \subseteq ToSet(dead)
         /\ \A k \in 1 .. Len(dead) :
              dead[k] \in ToSet(GetMessages(limit))
                <=> /\ dead[k] \notin acknowledged
                    /\ Cardinality({i \in 1 .. k - 1 : dead[i] \notin acknowledged}) < limit
         /\ limit >= Len(dead) => Len(GetMessages(limit)) = Cardinality(Pending)
<1> DEFINE N == Len(dead)
           g == [x \in Messages |-> IF x \in Pending THEN <<x>> ELSE <<>>]
           r == Spread(dead, g)
           m == Len(r)
           listing == GetMessages(limit)
<1>1. /\ dead \in Seq(Messages) /\ IsInjective(dead) /\ N \in Nat /\ DOMAIN dead = 1 .. N
      /\ ToSet(dead) = {dead[k] : k \in 1 .. N} /\ messages \subseteq ToSet(dead)
      /\ \A k \in 1 .. N : dead[k] \in Messages
      /\ \A k \in 1 .. N : dead[k] \notin messages => dead[k] \in acknowledged
  BY DEF DlqInv, DlqTypeOK, ToSet
<1>2. \A k \in 1 .. N : dead[k] \in Pending <=> dead[k] \notin acknowledged
  BY <1>1 DEF Pending
<1>3. g \in [Messages -> Seq(Messages)] /\ \A x \in Messages : g[x] = IF x \in Pending THEN <<x>> ELSE <<>>
  <2>1. \A x \in Messages : (IF x \in Pending THEN <<x>> ELSE <<>>) \in Seq(Messages)
    OBVIOUS
  <2>. QED  BY <2>1
<1>4. FlattenSeq([k \in DOMAIN dead |-> IF dead[k] \in Pending THEN <<dead[k]>> ELSE <<>>]) = r
  <2>1. [k \in DOMAIN dead |-> IF dead[k] \in Pending THEN <<dead[k]>> ELSE <<>>]
          = [k \in 1 .. N |-> g[dead[k]]]
    BY <1>1, <1>3, Zenon
  <2>. QED  BY <2>1, Zenon DEF Spread
<1>5. listing = IF limit >= m THEN r ELSE SubSeq(r, 1, limit)
  BY <1>4, Zenon DEF GetMessages
<1> HIDE DEF g, listing
<1>6. r \in Seq(Messages) /\ \E h : Selects(h, r, dead, Pending, N)
  BY <1>1, <1>3, SpreadSelects
<1> HIDE DEF r
<1>7. PICK h : Selects(h, r, dead, Pending, N)
  BY <1>6
<1>8. /\ m \in Nat /\ h \in [1 .. m -> 1 .. N] /\ DOMAIN r = 1 .. m
      /\ \A k \in 1 .. m : dead[h[k]] \in Pending /\ r[k] = dead[h[k]]
      /\ \A k, j \in 1 .. m : k < j => h[k] < h[j]
      /\ \A i \in 1 .. N : dead[i] \in Pending => \E k \in 1 .. m : h[k] = i
  BY <1>6, <1>7 DEF Selects
<1>9. /\ \A k \in 1 .. m : h[k] \in 1 .. N /\ h[k] \in Int
      /\ {h[k] : k \in 1 .. m} = {i \in 1 .. N : dead[i] \notin acknowledged}
  <2>1. \A k \in 1 .. m : h[k] \in 1 .. N
    BY <1>8
  <2>2. \A i : i \in {h[k] : k \in 1 .. m} <=> i \in 1 .. N /\ dead[i] \notin acknowledged
    BY <1>2, <1>8, <2>1
  <2>. QED  BY <2>1, <2>2
<1>10. IsInjective(r)
  <2> SUFFICES ASSUME NEW k \in 1 .. m, NEW j \in 1 .. m, r[k] = r[j], k # j PROVE FALSE
    BY <1>8 DEF IsInjective
  <2>1. h[k] = h[j]
    <3>1. dead[h[k]] = dead[h[j]] /\ h[k] \in 1 .. N /\ h[j] \in 1 .. N
      BY <1>8, <1>9
    <3>. QED  BY <1>1, <3>1 DEF IsInjective
  <2>2. k < j \/ j < k
    BY <1>8
  <2>. QED  BY <1>8, <1>9, <2>1, <2>2
<1>11. ToSet(r) = Pending
  <2>1. \A y \in Pending : \E k \in 1 .. m : r[k] = y
    <3> SUFFICES ASSUME NEW y \in Pending PROVE \E k \in 1 .. m : r[k] = y
      OBVIOUS
    <3>1. PICK i \in 1 .. N : y = dead[i]
      BY <1>1 DEF Pending
    <3>. QED  BY <1>8, <3>1
  <2>. QED  BY <1>8, <2>1 DEF ToSet
<1>12. /\ IsFiniteSet(Pending) /\ Cardinality(Pending) = m /\ m <= N
  <2>1. IsFiniteSet(Pending) /\ Cardinality(Pending) = m
    BY <1>6, <1>10, <1>11, InjectiveLength
  <2>2. IsFiniteSet(ToSet(dead)) /\ Cardinality(ToSet(dead)) = N
    BY <1>1, InjectiveLength
  <2>3. Pending \subseteq ToSet(dead)
    BY <1>1 DEF Pending
  <2>4. Cardinality(Pending) <= Cardinality(ToSet(dead))
    BY <2>2, <2>3, FS_Subset
  <2>. QED  BY <2>1, <2>2, <2>4
<1> DEFINE n == IF limit >= m THEN m ELSE limit
<1>13. /\ n \in Nat /\ n <= m /\ (\A x \in 1 .. m : x <= n <=> x <= limit)
       /\ listing \in Seq(Messages) /\ Len(listing) = n /\ DOMAIN listing = 1 .. n
       /\ \A x \in 1 .. n : listing[x] = r[x]
  <2>1. CASE limit >= m
    BY <1>5, <1>6, <1>8, <2>1
  <2>2. CASE ~ (limit >= m)
    <3>1. n = limit /\ n \in Nat /\ n <= m /\ listing = SubSeq(r, 1, n)
      BY <1>5, <1>8, <2>2
    <3> HIDE DEF n, m
    <3>2. /\ SubSeq(r, 1, n) \in Seq(Messages) /\ Len(SubSeq(r, 1, n)) = n
          /\ \A x \in 1 .. n : SubSeq(r, 1, n)[x] = r[x]
      BY <1>6, <3>1 DEF m
    <3>. QED  BY <1>8, <3>1, <3>2
  <2>. QED  BY <2>1, <2>2
<1> HIDE DEF n
<1>14. ToSet(listing) = {r[x] : x \in 1 .. n} /\ \A x \in 1 .. n : x \in 1 .. m
  <2>1. ToSet(listing) = {listing[x] : x \in 1 .. n}
    BY <1>13 DEF ToSet
  <2>2. {listing[x] : x \in 1 .. n} = {r[x] : x \in 1 .. n}
    BY <1>13
  <2>. QED  BY <1>8, <1>13, <2>1, <2>2
<1>15. ToSet(listing) \subseteq Pending
  BY <1>8, <1>14
<1>16. ASSUME NEW k \in 1 .. N
       PROVE  dead[k] \in ToSet(listing)
                <=> /\ dead[k] \notin acknowledged
                    /\ Cardinality({i \in 1 .. k - 1 : dead[i] \notin acknowledged}) < limit
  <2>1. CASE dead[k] \in acknowledged
    BY <1>2, <1>15, <2>1
  <2>2. CASE dead[k] \notin acknowledged
    <3>1. PICK x \in 1 .. m : h[x] = k
      BY <1>2, <1>8, <2>2
    <3>2. {i \in 1 .. k - 1 : dead[i] \notin acknowledged}
            = {i \in {h[j] : j \in 1 .. m} : i < h[x]}
      <4>1. \A i : i \in 1 .. k - 1 <=> i \in 1 .. N /\ i < k
        BY <1>1
      <4> DEFINE H == {h[j] : j \in 1 .. m}
      <4>2. H = {i \in 1 .. N : dead[i] \notin acknowledged}
        BY <1>9
      <4> HIDE DEF H
      <4>3. {i \in 1 .. k - 1 : dead[i] \notin acknowledged} = {i \in H : i < k}
        BY <4>1, <4>2
      <4>. QED  BY <3>1, <4>3 DEF H
    <3>3. Cardinality({i \in {h[j] : j \in 1 .. m} : i < h[x]}) = x - 1
      <4>1. m \in Nat /\ (\A j \in 1 .. m : h[j] \in Int)
            /\ (\A i, j \in 1 .. m : i < j => h[i] < h[j])
        BY <1>8, <1>9
      <4> HIDE DEF m
      <4>. QED  BY <4>1, RankInOrder, Zenon
    <3>4. dead[k] \in ToSet(listing) <=> x \in 1 .. n
      <4>1. ASSUME dead[k] \in ToSet(listing) PROVE x \in 1 .. n
        <5>1. PICK y \in 1 .. n : dead[k] = r[y]
          BY <1>14, <4>1
        <5>2. y \in 1 .. m /\ r[y] = r[x]
          BY <1>8, <1>14, <3>1, <5>1
        <5>3. y = x
          BY <1>8, <1>10, <5>2 DEF IsInjective
        <5>. QED  BY <5>3
      <4>2. ASSUME x \in 1 .. n PROVE dead[k] \in ToSet(listing)
        BY <1>8, <1>14, <3>1, <4>2
      <4>. QED  BY <4>1, <4>2
    <3>5. x \in 1 .. n <=> x - 1 < limit
      BY <1>8, <1>13
    <3> HIDE DEF m
    <3>. QED  BY <2>2, <3>2, <3>3, <3>4, <3>5
  <2>. QED  BY <2>1, <2>2
<1>17. ToSet(listing) \subseteq ToSet(dead)
  BY <1>1, <1>15 DEF Pending
<1>18. limit >= N => Len(listing) = Cardinality(Pending)
  BY <1>1, <1>12, <1>13 DEF n
<1>. QED  BY <1>16, <1>17, <1>18 DEF listing

\* What getMessages shows and getStats counts is what nobody has handled.
LEMMA UnhandledCounted == DlqInv => UnhandledStay
<1> SUFFICES ASSUME DlqInv PROVE UnhandledStay
  OBVIOUS
<1>1. /\ dead \in Seq(Messages) /\ IsInjective(dead) /\ Len(dead) \in Nat
      /\ DOMAIN dead = 1 .. Len(dead)
      /\ ToSet(dead) = {dead[k] : k \in 1 .. Len(dead)} /\ messages \subseteq ToSet(dead)
      /\ \A k \in 1 .. Len(dead) :
           dead[k] \notin messages => dead[k] \in acknowledged /\ k <= aged
  BY DEF DlqInv, DlqTypeOK, ToSet
<1>2. /\ IsFiniteSet(messages) /\ IsFiniteSet(messages \cap acknowledged) /\ IsFiniteSet(Pending)
  <2>1. IsFiniteSet(ToSet(dead))
    BY <1>1, InjectiveLength
  <2>2. Pending \subseteq messages /\ messages \cap acknowledged \subseteq messages
    BY DEF Pending
  <2>. QED  BY <1>1, <2>1, <2>2, FS_Subset
<1>3. GetStats.acknowledged = Cardinality(messages \cap acknowledged)
  <2> DEFINE handled == messages \cap acknowledged
  <2>1. handled \union Pending = messages /\ handled \cap Pending = {}
    BY DEF Pending
  <2>2. GetStats.acknowledged = Cardinality(messages) - Cardinality(Pending)
    BY DEF GetStats
  <2> HIDE DEF handled
  <2>3. Cardinality(handled \union Pending)
          = Cardinality(handled) + Cardinality(Pending) - Cardinality(handled \cap Pending)
    BY <1>2, FS_Union DEF handled
  <2>4. Cardinality(handled) \in Nat /\ Cardinality(Pending) \in Nat /\ Cardinality({}) = 0
    BY <1>2, FS_CardinalityType, FS_EmptySet DEF handled
  <2>5. Cardinality(handled \union Pending) = Cardinality(messages)
        /\ Cardinality(handled \cap Pending) = 0
    BY <2>1, <2>4, Zenon
  <2>6. GetStats.acknowledged = Cardinality(handled)
    BY <2>2, <2>3, <2>4, <2>5
  <2>. QED  BY <2>6 DEF handled
<1>4. GetStats.pending = Len(GetMessages(Len(dead)))
  <2>1. GetStats.pending = Cardinality(Pending)
    BY DEF GetStats
  <2>2. Len(GetMessages(Len(dead))) = Cardinality(Pending)
    BY <1>1, PendingAreShown
  <2>. QED  BY <2>1, <2>2
<1>5. GetStats.oldest = ToSet(GetMessages(1))
  <2>1. /\ ToSet(GetMessages(1)) \subseteq ToSet(dead)
        /\ \A k \in 1 .. Len(dead) :
             dead[k] \in ToSet(GetMessages(1))
               <=> /\ dead[k] \notin acknowledged
                   /\ Cardinality({i \in 1 .. k - 1 : dead[i] \notin acknowledged}) < 1
    BY PendingAreShown
  <2>2. \A k \in 1 .. Len(dead) : dead[k] \in Pending <=> dead[k] \notin acknowledged
    BY <1>1 DEF Pending
  <2>3. GetStats.oldest = {dead[k] : k \in {i \in 1 .. Len(dead) :
                 dead[i] \in Pending /\ \A j \in 1 .. i - 1 : dead[j] \notin Pending}}
    BY <1>1 DEF GetStats
  <2>4. ASSUME NEW k \in 1 .. Len(dead)
        PROVE  (\A j \in 1 .. k - 1 : dead[j] \notin Pending)
                 <=> Cardinality({i \in 1 .. k - 1 : dead[i] \notin acknowledged}) < 1
    <3> DEFINE before == {i \in 1 .. k - 1 : dead[i] \notin acknowledged}
    <3>1. \A j \in 1 .. k - 1 : j \in 1 .. Len(dead)
      BY <1>1
    <3>2. (\A j \in 1 .. k - 1 : dead[j] \notin Pending) <=> before = {}
      BY <2>2, <3>1
    <3>3. IsFiniteSet(before)
      <4>1. IsFiniteSet(1 .. k - 1)
        BY FS_Interval
      <4>. QED  BY <4>1, FS_Subset
    <3> HIDE DEF before
    <3>4. Cardinality(before) \in Nat /\ (Cardinality(before) = 0 <=> before = {})
      BY <3>3, FS_CardinalityType, FS_EmptySet
    <3>5. before = {} <=> Cardinality(before) < 1
      BY <3>4
    <3>. QED  BY <3>2, <3>5 DEF before
  <2>5. \A y : y \in GetStats.oldest <=> y \in ToSet(GetMessages(1))
    <3>1. ASSUME NEW y \in GetStats.oldest PROVE y \in ToSet(GetMessages(1))
      BY <2>1, <2>2, <2>3, <2>4
    <3>2. ASSUME NEW y \in ToSet(GetMessages(1)) PROVE y \in GetStats.oldest
      <4>1. PICK k \in 1 .. Len(dead) : y = dead[k]
        BY <1>1, <2>1
      <4>2. dead[k] \in Pending /\ \A j \in 1 .. k - 1 : dead[j] \notin Pending
        BY <2>1, <2>2, <2>4, <4>1
      <4>. QED  BY <2>3, <4>1, <4>2
    <3>. QED  BY <3>1, <3>2
  <2>. QED  BY <2>5
<1>6. ASSUME NEW limit \in 0 .. Len(dead), NEW k \in DOMAIN dead
      PROVE  dead[k] \in ToSet(GetMessages(limit))
               <=> /\ dead[k] \notin acknowledged
                   /\ Cardinality({i \in 1 .. k - 1 : dead[i] \notin acknowledged}) < limit
  <2>1. limit \in Nat /\ k \in 1 .. Len(dead)
    BY <1>1
  <2>. QED  BY <2>1, PendingAreShown
<1>. QED  BY <1>1, <1>3, <1>4, <1>5, <1>6 DEF UnhandledStay

-----------------------------------------------------------------------------
(* Credentials.                                                            *)

\* The invariant of the verification tokens is inductive.
LEMMA VerifyInduction ==
  /\ VerifyInit => VerifyInv
  /\ VerifyInv /\ [VerifyNext]_verifyVars => VerifyInv'
<1> USE DEF VerifyInv, VerifyTypeOK, TokensSpentOnce
<1>1. VerifyInit => VerifyInv
  BY DEF VerifyInit, Issued
<1>2. VerifyInv /\ [VerifyNext]_verifyVars => VerifyInv'
  <2> SUFFICES ASSUME VerifyInv, [VerifyNext]_verifyVars PROVE VerifyInv'
    OBVIOUS
  <2>1. ASSUME NEW t \in Tokens, NEW e \in Addresses, NEW k \in Kinds, StoreToken(t, e, k)
        PROVE  /\ tokenStore' \in [Tokens -> {NoRecord} \union [email : Addresses, type : Kinds]]
               /\ Issued \subseteq Issued'
               /\ k = "email_verification" => t \in Issued'
    <3>1. tokenStore' = [tokenStore EXCEPT ![t] = [email |-> e, type |-> k]] /\ t \notin Issued
      BY <2>1 DEF StoreToken
    <3>2. tokenStore' \in [Tokens -> {NoRecord} \union [email : Addresses, type : Kinds]]
      BY <3>1
    <3>3. Issued \subseteq Issued'
      BY <3>1 DEF Issued
    <3>4. ASSUME k = "email_verification" PROVE t \in Issued'
      <4>1. [email |-> e, type |-> k].type # NoRecord.type
        BY <3>4 DEF NoRecord
      <4>. QED  BY <3>1, <4>1 DEF Issued
    <3>. QED  BY <3>2, <3>3, <3>4
  <2>2. ASSUME NEW t \in Tokens, NEW e \in Addresses, NEW k \in Kinds,
               GenerateVerificationToken(t, e, k)
        PROVE  VerifyInv'
    <3>1. StoreToken(t, e, k)
      BY <2>2 DEF GenerateVerificationToken
    <3>. QED  BY <2>1, <2>2, <3>1 DEF GenerateVerificationToken, StoreToken
  <2>3. ASSUME NEW t \in Tokens, NEW e \in Addresses, SendVerificationEmail(t, e)
        PROVE  VerifyInv'
    <3>1. StoreToken(t, e, "email_verification") /\ "email_verification" \in Kinds
      BY <2>3, VerifyAssumption DEF SendVerificationEmail
    <3>2. /\ tokenStore' \in [Tokens -> {NoRecord} \union [email : Addresses, type : Kinds]]
          /\ Issued \subseteq Issued' /\ t \in Issued'
      BY <2>1, <3>1
    <3>. QED  BY <2>3, <3>1, <3>2 DEF SendVerificationEmail, StoreToken
  <2>4. ASSUME NEW t \in Tokens, NEW kind, \/ SendingEnds(t) \/ Expires(t)
                                           \/ ValidateVerificationToken(t, kind)
        PROVE  VerifyInv'
    BY <2>4 DEF SendingEnds, Expires, ValidateVerificationToken, Issued
  <2>5. ASSUME NEW e \in Addresses, RevokeTokensForEmail(e) PROVE VerifyInv'
    BY <2>5 DEF RevokeTokensForEmail, Issued
  <2>6. CASE UNCHANGED verifyVars
    BY <2>6 DEF verifyVars, Issued
  <2>. QED  BY <2>2, <2>3, <2>4, <2>5, <2>6 DEF VerifyNext
<1>. QED  BY <1>1, <1>2

\* The invariant of the keys is inductive.
LEMMA KeyInduction ==
  /\ KeyInit => KeyInv
  /\ KeyInv /\ [KeyNext]_keyStore => KeyInv'
<1>1. KeyInit => KeyInv
  BY KeyAssumption DEF KeyInit, KeyInv
<1>2. ASSUME KeyInv, NEW p \in Purposes, NEW expires \in {"never", "later", "past"},
             StoreKey(p, expires)
      PROVE  KeyInv'
  <2> DEFINE s == keyStore[p]
             retired == [i \in DOMAIN s |-> Retired(s[i])]
             new == Key(Len(s) + 1, expires)
             r == Append(retired, new)
  <2>1. /\ s \in Seq(KeyRecords) /\ Len(s) \in Nat /\ DOMAIN s = 1 .. Len(s)
        /\ Len(s) < MaxVersions /\ MaxVersions \in Nat
        /\ \A i \in 1 .. Len(s) : s[i] \in KeyRecords /\ s[i].version = i
    BY <1>2, KeyAssumption DEF KeyInv, StoreKey
  <2>2. keyStore' = [keyStore EXCEPT ![p] = r]
    BY <1>2 DEF StoreKey
  <2>3. new \in KeyRecords /\ new.version = Len(s) + 1 /\ new.active = TRUE
    BY <2>1 DEF Key, KeyRecords
  <2> HIDE DEF s, new
  <2>4. ASSUME NEW i \in 1 .. Len(s)
        PROVE  Retired(s[i]) \in KeyRecords /\ Retired(s[i]).version = i
               /\ Retired(s[i]).active = FALSE
    <3>1. ASSUME NEW k \in KeyRecords
          PROVE  /\ Retired(k) \in KeyRecords /\ Retired(k).version = k.version
                 /\ Retired(k).active = FALSE
      BY DEF Retired, KeyRecords
    <3>. QED  BY <2>1, <3>1
  <2>5. retired \in Seq(KeyRecords) /\ Len(retired) = Len(s)
        /\ \A i \in 1 .. Len(s) : retired[i] = Retired(s[i])
    <3>1. /\ retired \in [1 .. Len(s) -> KeyRecords]
          /\ \A i \in 1 .. Len(s) : retired[i] = Retired(s[i])
      BY <2>1, <2>4, Zenon
    <3>. QED  BY <2>1, <3>1
  <2> HIDE DEF retired
  <2>6. /\ r \in Seq(KeyRecords) /\ Len(r) = Len(s) + 1 /\ r[Len(s) + 1] = new
        /\ \A i \in 1 .. Len(s) : r[i] = Retired(s[i])
    BY <2>1, <2>3, <2>5
  <2> HIDE DEF r
  <2>7. \A i \in 1 .. Len(r) : r[i].version = i /\ (r[i].active <=> i = Len(r))
    <3>1. \A i \in 1 .. Len(r) : i \in 1 .. Len(s) \/ i = Len(s) + 1
      BY <2>1, <2>6
    <3>2. \A i \in 1 .. Len(s) : i # Len(s) + 1
      BY <2>1
    <3>. QED  BY <2>3, <2>4, <2>6, <3>1, <3>2
  <2>8. Len(r) <= MaxVersions
    BY <2>1, <2>6
  <2>. QED  BY <1>2, <2>2, <2>6, <2>7, <2>8 DEF KeyInv
<1>3. ASSUME KeyInv, NEW p \in Purposes, KeyExpires(p) PROVE KeyInv'
  <2>1. PICK k \in DOMAIN keyStore[p] : keyStore' = [keyStore EXCEPT ![p][k].expires = "past"]
    BY <1>3 DEF KeyExpires
  <2> DEFINE s == keyStore[p]
             r == [s EXCEPT ![k] = [s[k] EXCEPT !.expires = "past"]]
  <2>2. /\ s \in Seq(KeyRecords) /\ k \in 1 .. Len(s) /\ Len(s) <= MaxVersions
        /\ \A i \in 1 .. Len(s) : s[i].version = i /\ (s[i].active <=> i = Len(s))
    BY <1>3 DEF KeyInv
  <2>3. keyStore' = [keyStore EXCEPT ![p] = r]
    BY <1>3, <2>1 DEF KeyInv
  <2> HIDE DEF s
  <2>4. s[k] \in KeyRecords
    BY <2>2
  <2>5. /\ [s[k] EXCEPT !.expires = "past"] \in KeyRecords
        /\ [s[k] EXCEPT !.expires = "past"].version = s[k].version
        /\ [s[k] EXCEPT !.expires = "past"].active = s[k].active
    BY <2>4 DEF KeyRecords
  <2>6. r \in Seq(KeyRecords) /\ Len(r) = Len(s)
    BY <2>2, <2>5
  <2>7. \A i \in 1 .. Len(r) : r[i].version = i /\ (r[i].active <=> i = Len(r))
    BY <2>2, <2>5, <2>6
  <2> HIDE DEF r
  <2>. QED  BY <1>3, <2>2, <2>3, <2>6, <2>7 DEF KeyInv
<1>4. KeyInv /\ UNCHANGED keyStore => KeyInv'
  BY DEF KeyInv
<1>5. KeyInv /\ [KeyNext]_keyStore => KeyInv'
  BY <1>2, <1>3, <1>4 DEF KeyNext, RotateKey
<1>. QED  BY <1>1, <1>5

\* What getActiveKey and getKeyVersion find.
LEMMA KeysFound == KeyInv => NewestKeyOnly
<1> SUFFICES ASSUME KeyInv, NEW p \in Purposes
             PROVE  /\ GetActiveKey(p) \in {0, Len(keyStore[p])}
                    /\ GetActiveKey(p) = 0 <=> Len(keyStore[p]) = 0
                                               \/ keyStore[p][Len(keyStore[p])].expires = "past"
                    /\ \A v \in 1 .. Len(keyStore[p]) : GetKeyVersion(p, v) = v
  BY DEF NewestKeyOnly
<1> DEFINE s == keyStore[p]
           n == Len(s)
           I == {i \in 1 .. n : Usable(s[i])}
<1>1. /\ n \in Nat
      /\ \A i \in 1 .. n : s[i].version = i /\ (s[i].active <=> i = n)
  BY DEF KeyInv
<1>2. GetActiveKey(p) = IF I # {} THEN Min(I) ELSE 0
  <2>1. GetActiveKey(p) = SelectInSeq(s, Usable)
    BY DEF GetActiveKey
  <2>. QED  BY <2>1 DEF SelectInSeq
<1>3. ASSUME NEW v \in 1 .. n PROVE GetKeyVersion(p, v) = v
  <2> DEFINE J == {i \in 1 .. n : s[i].version = v}
  <2>1. GetKeyVersion(p, v) = IF J # {} THEN Min(J) ELSE 0
    BY DEF GetKeyVersion, SelectInSeq
  <2>2. J = {v}
    BY <1>1
  <2>3. Min(J) \in J
    <3>1. J \in SUBSET Nat /\ J # {}
      BY <2>2
    <3>. QED  BY <3>1, MinIsLeast
  <2>. QED  BY <2>1, <2>2, <2>3
<1>4. I = IF n > 0 /\ s[n].expires # "past" THEN {n} ELSE {}
  BY <1>1 DEF Usable
<1>5. I # {} => Min(I) \in I
  <2>1. I \in SUBSET Nat
    OBVIOUS
  <2>. QED  BY <2>1, MinIsLeast
<1> HIDE DEF I
<1>6. /\ GetActiveKey(p) = IF n > 0 /\ s[n].expires # "past" THEN n ELSE 0
  BY <1>2, <1>4, <1>5
<1>. QED  BY <1>1, <1>3, <1>6

\* The tokens a signer hands out.
SignedTokens ==
  [kind : {"access", "refresh"}, under : Configs, issuer : Claims, audience : SUBSET Claims,
   sealed : BOOLEAN]

\* The type of the token signer's variables is inductive.
LEMMA SignerInduction ==
  /\ SignerInit => SignerTypeOK
  /\ SignerTypeOK /\ [SignerNext]_signerVars => SignerTypeOK'
<1>1. SignerInit => SignerTypeOK
  BY SignerAssumption DEF SignerInit, SignerTypeOK, Configs
<1>2. ASSUME SignerTypeOK, NEW o \in SignOptions, NEW kind \in {"access", "refresh"},
             NEW audience \in SUBSET (Claims \union {NoClaim}),
             Sign(kind, [issuer |-> tokenConfig.issuer, audience |-> audience,
                         notBefore |-> "past", algorithm |-> "HS256"], o)
      PROVE  SignerTypeOK'
  <2> DEFINE with == SpreadAfter([issuer |-> tokenConfig.issuer, audience |-> audience,
                                 notBefore |-> "past", algorithm |-> "HS256"], o)
             token == [kind |-> kind, under |-> tokenConfig, issuer |-> with["issuer"],
                       audience |-> with["audience"], sealed |-> with["algorithm"] # "none"]
             r == Append(signed, token)
  <2>1. /\ with["issuer"] = IF "issuer" \in DOMAIN o THEN o["issuer"] ELSE tokenConfig.issuer
        /\ with["audience"] = IF "audience" \in DOMAIN o THEN o["audience"] ELSE audience
    BY DEF SpreadAfter
  <2>2. tokenConfig \in Configs /\ tokenConfig.issuer \in Claims \union {NoClaim}
    BY <1>2 DEF SignerTypeOK, Configs
  <2> HIDE DEF with
  <2>3. /\ with["issuer"] \in Claims \union {NoClaim}
        /\ with["audience"] \in SUBSET (Claims \union {NoClaim})
    BY <2>1, <2>2, SignerAssumption
  <2>4. /\ with["issuer"] # NoClaim /\ NoClaim \notin with["audience"]
        /\ signed' = r /\ UNCHANGED <<tokenConfig, outdated>>
        /\ premature' \subseteq premature \union {Len(signed) + 1}
    BY <1>2 DEF Sign, with
  <2>5. token \in SignedTokens
    BY <2>2, <2>3, <2>4 DEF SignedTokens
  <2> HIDE DEF token
  <2>6. /\ signed \in Seq(SignedTokens) /\ DOMAIN signed = 1 .. Len(signed) /\ Len(signed) \in Nat
        /\ outdated \subseteq DOMAIN signed /\ premature \subseteq DOMAIN signed
    BY <1>2 DEF SignerTypeOK, SignedTokens
  <2>7. /\ r \in Seq(SignedTokens) /\ DOMAIN r = 1 .. Len(signed) + 1
        /\ 1 .. Len(signed) \subseteq 1 .. Len(signed) + 1 /\ Len(signed) + 1 \in 1 .. Len(signed) + 1
    BY <2>5, <2>6
  <2> HIDE DEF r
  <2>. QED  BY <1>2, <2>2, <2>4, <2>6, <2>7 DEF SignerTypeOK, SignedTokens
<1>3. SignerTypeOK /\ [SignerNext]_signerVars => SignerTypeOK'
  <2> SUFFICES ASSUME SignerTypeOK, [SignerNext]_signerVars PROVE SignerTypeOK'
    OBVIOUS
  <2>1. ASSUME NEW c \in Configs, ConfigureTokenSigner(c) PROVE SignerTypeOK'
    BY <2>1 DEF ConfigureTokenSigner, SignerTypeOK
  <2>2. ASSUME NEW o \in SignOptions, SignAccessToken(o) PROVE SignerTypeOK'
    <3>1. {tokenConfig.audience} \in SUBSET (Claims \union {NoClaim})
      BY DEF SignerTypeOK, Configs
    <3>. QED  BY <1>2, <2>2, <3>1 DEF SignAccessToken
  <2>3. ASSUME NEW o \in SignOptions, SignRefreshToken(o) PROVE SignerTypeOK'
    BY <1>2, <2>3 DEF SignRefreshToken
  <2>4. ASSUME NEW n \in DOMAIN signed, ExpComes(n) \/ NbfComes(n) PROVE SignerTypeOK'
    BY <2>4 DEF ExpComes, NbfComes, SignerTypeOK
  <2>5. CASE UNCHANGED signerVars
    BY <2>5 DEF signerVars, SignerTypeOK
  <2>. QED  BY <2>1, <2>2, <2>3, <2>4, <2>5 DEF SignerNext
<1>. QED  BY <1>1, <1>3

\* What verifyToken asks for: what the options give, and else what is configured.
LEMMA TokensAsked ==
  ASSUME NEW o,
         NEW asks, asks = SpreadAfter([issuer |-> tokenConfig.issuer,
                                        audience |-> tokenConfig.audience,
                                        ignoreNotBefore |-> FALSE,
                                        ignoreExpiration |-> FALSE], o)
  PROVE  /\ asks["issuer"] = IF "issuer" \in DOMAIN o THEN o["issuer"] ELSE tokenConfig.issuer
         /\ asks["audience"] = IF "audience" \in DOMAIN o THEN o["audience"] ELSE tokenConfig.audience
         /\ asks["ignoreNotBefore"]
              = IF "ignoreNotBefore" \in DOMAIN o THEN o["ignoreNotBefore"] ELSE FALSE
         /\ asks["ignoreExpiration"]
              = IF "ignoreExpiration" \in DOMAIN o THEN o["ignoreExpiration"] ELSE FALSE
BY DEF SpreadAfter

\* What verifyToken says of the tokens.
LEMMA TokensVerify == SignedTokensVerify
<1> SUFFICES ASSUME NEW n \in DOMAIN signed
    PROVE  LET token == signed[n]
               ours  == token.sealed /\ token.under.secret = tokenConfig.secret
               living == n \notin outdated \union premature
               plain == token.issuer = token.under.issuer /\ token.audience = {token.under.audience}
           IN  /\ ~ ours => \A o \in VerifyOptions : VerifyToken(n, o) = "invalid"
               /\ ours /\ living =>
                    \A o \in VerifyOptions :
                      /\ {"issuer", "audience"} \subseteq DOMAIN o
                      /\ o["issuer"] = token.issuer /\ o["audience"] \in token.audience
                      => VerifyToken(n, o) = "valid"
               /\ ours /\ plain /\ token.kind = "access" =>
                    (VerifyToken(n, NoOptions) = "valid"
                       <=> /\ living
                           /\ tokenConfig.issuer \in {NoClaim, "", token.under.issuer}
                           /\ tokenConfig.audience \in {NoClaim, "", token.under.audience})
               /\ token.kind = "refresh" /\ token.audience = {}
                    /\ tokenConfig.audience \notin {NoClaim, ""} =>
                      VerifyToken(n, NoOptions) # "valid"
               /\ IsTokenExpired(n) <=> ours /\ n \in outdated /\ n \notin premature
  BY DEF SignedTokensVerify
<1> DEFINE token == signed[n]
           ours == token.sealed /\ token.under.secret = tokenConfig.secret
           asks(o) == SpreadAfter([issuer |-> tokenConfig.issuer, audience |-> tokenConfig.audience,
                                   ignoreNotBefore |-> FALSE, ignoreExpiration |-> FALSE], o)
           granted(o) == /\ Accepts(asks(o)["audience"], token.audience)
                         /\ Accepts(asks(o)["issuer"], {token.issuer})
<1>1. ASSUME NEW o
      PROVE  VerifyToken(n, o) =
               IF ~ ours THEN "invalid"
               ELSE IF n \in premature /\ ~ asks(o)["ignoreNotBefore"] THEN "premature"
               ELSE IF n \in outdated /\ ~ asks(o)["ignoreExpiration"] THEN "expired"
               ELSE IF granted(o) THEN "valid" ELSE "invalid"
  BY DEF VerifyToken
<1>2. ASSUME NEW o
      PROVE  /\ asks(o)["issuer"] = IF "issuer" \in DOMAIN o THEN o["issuer"] ELSE tokenConfig.issuer
             /\ asks(o)["audience"]
                  = IF "audience" \in DOMAIN o THEN o["audience"] ELSE tokenConfig.audience
  BY TokensAsked
<1>3. /\ asks(NoOptions)["issuer"] = tokenConfig.issuer
      /\ asks(NoOptions)["audience"] = tokenConfig.audience
      /\ asks(NoOptions)["ignoreNotBefore"] = FALSE /\ asks(NoOptions)["ignoreExpiration"] = FALSE
  <2>1. \A k : k \notin DOMAIN NoOptions
    BY DEF NoOptions
  <2>. QED  BY <2>1, TokensAsked
<1> HIDE DEF asks
<1>4. ASSUME ~ ours, NEW o PROVE VerifyToken(n, o) = "invalid"
  BY <1>1, <1>4
<1>5. ASSUME ours, n \notin outdated \union premature, NEW o,
             {"issuer", "audience"} \subseteq DOMAIN o,
             o["issuer"] = token.issuer, o["audience"] \in token.audience
      PROVE  VerifyToken(n, o) = "valid"
  <2>1. granted(o)
    BY <1>2, <1>5 DEF Accepts
  <2> HIDE DEF granted
  <2>. QED  BY <1>1, <1>5, <2>1
<1>6. VerifyToken(n, NoOptions) =
        IF ~ ours THEN "invalid"
        ELSE IF n \in premature THEN "premature"
        ELSE IF n \in outdated THEN "expired"
        ELSE IF /\ Accepts(tokenConfig.audience, token.audience)
                /\ Accepts(tokenConfig.issuer, {token.issuer}) THEN "valid" ELSE "invalid"
  BY <1>1, <1>3
<1>7. ASSUME ours, token.issuer = token.under.issuer, token.audience = {token.under.audience}
      PROVE  VerifyToken(n, NoOptions) = "valid"
               <=> /\ n \notin outdated \union premature
                   /\ tokenConfig.issuer \in {NoClaim, "", token.under.issuer}
                   /\ tokenConfig.audience \in {NoClaim, "", token.under.audience}
  BY <1>6, <1>7 DEF Accepts
<1>8. ASSUME token.audience = {}, tokenConfig.audience \notin {NoClaim, ""}
      PROVE  VerifyToken(n, NoOptions) # "valid"
  BY <1>6, <1>8 DEF Accepts
<1>9. IsTokenExpired(n) <=> ours /\ n \in outdated /\ n \notin premature
  BY <1>6 DEF IsTokenExpired
<1>. QED  BY <1>4, <1>5, <1>7, <1>8, <1>9
-----------------------------------------------------------------------------
(* The loggers.                                                            *)

\* The events of the calls in progress.
InProgress == {emitting[i].event : i \in 1 .. Len(emitting)}

\* What EmittedOnce says, without the order of the observed events.
LEMMA EmittedOnceRestated ==
  ASSUME emitting \in Seq(Calls)
  PROVE  EmittedOnce <=>
           /\ IsInjective(observed)
           /\ 1 .. logged = ToSet(observed) \union lost \union InProgress
           /\ ToSet(observed) \cap lost = {}
           /\ InProgress \cap (ToSet(observed) \union lost) = {}
           /\ completed \subseteq ToSet(observed)
<1>1. DOMAIN emitting = 1 .. Len(emitting)
  OBVIOUS
<1>. QED  BY <1>1 DEF EmittedOnce, InProgress

\* The calls that stay when the stack is cut down to n, and the events of the others.
Left(n) == SubSeq(emitting, 1, n)
Cut(n) == {emitting[i].event : i \in n + 1 .. Len(emitting)}

\* The call that returns is the one of the newest event in progress.
LEMMA InnermostLeaves ==
  ASSUME LoggerInv, emitting # <<>>, NEW n \in 0 .. Len(emitting) - 1
  PROVE  /\ Left(n) \in Seq(Calls) /\ Len(Left(n)) = n
         /\ \A i \in 1 .. n : Left(n)[i] = emitting[i]
         /\ InProgress = {Left(n)[i].event : i \in 1 .. n} \union Cut(n)
         /\ {Left(n)[i].event : i \in 1 .. n} \cap Cut(n) = {}
         /\ Cut(n) \subseteq 1 .. logged
<1> DEFINE left == SubSeq(emitting, 1, n)
           cut == {emitting[i].event : i \in n + 1 .. Len(emitting)}
<1>1. /\ emitting \in Seq(Calls) /\ Len(emitting) \in Nat /\ n \in Nat /\ n <= Len(emitting)
      /\ \A i, k \in 1 .. Len(emitting) : i < k => emitting[i].event < emitting[k].event
      /\ \A i \in 1 .. Len(emitting) : emitting[i].event \in 1 .. logged
  <2>1. emitting \in Seq(Calls) /\ \A c \in Calls : c.event \in 1 .. logged
    BY DEF LoggerInv, Calls
  <2>. QED  BY <2>1 DEF LoggerInv
<1>2. left \in Seq(Calls) /\ Len(left) = n /\ \A i \in 1 .. n : left[i] = emitting[i]
  <2>1. 1 .. n \subseteq 1 .. Len(emitting)
    BY <1>1
  <2>. QED  BY <1>1, <2>1
<1> HIDE DEF left
<1>3. \A i \in 1 .. Len(emitting) : i \in 1 .. n \/ i \in n + 1 .. Len(emitting)
  BY <1>1
<1>4. 1 .. n \subseteq 1 .. Len(emitting) /\ n + 1 .. Len(emitting) \subseteq 1 .. Len(emitting)
  BY <1>1
<1>5. InProgress = {left[i].event : i \in 1 .. n} \union cut
  BY <1>2, <1>3, <1>4 DEF InProgress
<1>6. \A i \in 1 .. n : \A k \in n + 1 .. Len(emitting) : emitting[i].event # emitting[k].event
  <2>1. ASSUME NEW i \in 1 .. n, NEW k \in n + 1 .. Len(emitting)
        PROVE  emitting[i].event # emitting[k].event
    <3>1. i \in 1 .. Len(emitting) /\ k \in 1 .. Len(emitting) /\ i < k /\ logged \in Nat
      BY <1>1, <1>4 DEF LoggerInv, LoggerTypeOK
    <3>2. emitting[i].event < emitting[k].event /\ emitting[i].event \in Int
      BY <1>1, <3>1
    <3>. QED  BY <3>2
  <2>. QED  BY <2>1
<1>7. cut \subseteq 1 .. logged
  BY <1>1, <1>4
<1>8. {left[i].event : i \in 1 .. n} \cap cut = {}
  <2>1. \A i \in 1 .. n : left[i].event = emitting[i].event
    BY <1>2
  <2>. QED  BY <1>6, <2>1
<1>. QED  BY <1>2, <1>5, <1>7, <1>8 DEF left, Left, Cut
\* The history, when an event is logged.
LEMMA HistoryKept ==
  ASSUME logged \in Nat, eventHistory \in Seq(1 .. logged), HistoryIsNewest
  PROVE  LET h == Remembered(logged + 1)
         IN  /\ h \in Seq(1 .. logged + 1)
             /\ Len(h) = (IF logged + 1 < MaxHistory THEN logged + 1 ELSE MaxHistory)
             /\ \A i \in DOMAIN h : h[i] = logged + 1 - Len(h) + i
<1> DEFINE h == Remembered(logged + 1)
           pushed == Append(eventHistory, logged + 1)
           n == Len(eventHistory)
<1>1. /\ MaxHistory \in Nat /\ n \in Nat
      /\ n = (IF logged < MaxHistory THEN logged ELSE MaxHistory)
      /\ \A i \in 1 .. n : eventHistory[i] = logged - n + i
  BY LoggerAssumption DEF HistoryIsNewest
<1>2. /\ pushed \in Seq(1 .. logged + 1) /\ Len(pushed) = n + 1
      /\ \A i \in 1 .. n + 1 : pushed[i] = logged - n + i
  <2>1. /\ eventHistory \in Seq(1 .. logged + 1) /\ logged + 1 \in 1 .. logged + 1
    <3>1. 1 .. logged \subseteq 1 .. logged + 1
      OBVIOUS
    <3>. QED  BY <3>1
  <2>2. /\ pushed \in Seq(1 .. logged + 1) /\ Len(pushed) = n + 1
        /\ pushed[n + 1] = logged + 1 /\ \A i \in 1 .. n : pushed[i] = eventHistory[i]
    BY <2>1
  <2>3. \A i \in 1 .. n + 1 : i \in 1 .. n \/ i = n + 1
    BY <1>1
  <2>. QED  BY <1>1, <2>2, <2>3
<1> HIDE DEF pushed
<1>3. h = IF n + 1 > MaxHistory THEN Tail(pushed) ELSE pushed
  BY <1>2 DEF Remembered, pushed
<1>4. CASE n + 1 > MaxHistory
  <2>1. /\ Tail(pushed) \in Seq(1 .. logged + 1) /\ Len(Tail(pushed)) = n
        /\ \A i \in 1 .. n : Tail(pushed)[i] = pushed[i + 1]
    <3> HIDE DEF n
    <3>1. pushed # <<>> /\ Len(pushed) - 1 = n
      BY <1>1, <1>2
    <3>. QED  BY <1>1, <1>2, <3>1
  <2>2. DOMAIN Tail(pushed) = 1 .. n /\ n = MaxHistory /\ ~ logged + 1 < MaxHistory
    BY <1>1, <1>4, <2>1
  <2>3. \A i \in 1 .. n : i + 1 \in 1 .. n + 1 /\ logged - n + (i + 1) = logged + 1 - n + i
    BY <1>1
  <2>4. \A i \in 1 .. n : Tail(pushed)[i] = logged + 1 - n + i
    BY <1>2, <2>1, <2>3
  <2>5. h = Tail(pushed)
    BY <1>3, <1>4
  <2> HIDE DEF h
  <2>. QED  BY <2>1, <2>2, <2>4, <2>5 DEF h
<1>5. CASE ~ n + 1 > MaxHistory
  <2>1. h = pushed /\ n = logged /\ (logged + 1 < MaxHistory \/ MaxHistory = logged + 1)
    BY <1>1, <1>3, <1>5
  <2>2. DOMAIN pushed = 1 .. n + 1
    BY <1>2
  <2>3. \A i \in 1 .. n + 1 : pushed[i] = logged + 1 - (n + 1) + i
    <3>1. \A i \in 1 .. n + 1 : logged - n + i = logged + 1 - (n + 1) + i
      BY <1>1
    <3>. QED  BY <1>2, <3>1, Zenon
  <2> HIDE DEF h
  <2>. QED  BY <1>2, <2>1, <2>2, <2>3 DEF h
<1>. QED  BY <1>4, <1>5

\* An event is logged.
LEMMA LogEventKeeps ==
  ASSUME LoggerInv, NEW kind \in {"plain", "ending"}, LogEvent(kind)
  PROVE  LoggerInv'
<1> DEFINE e == logged + 1
           new == [event |-> e, kind |-> kind, to |-> "type"]
           n == Len(emitting)
<1>1. /\ logged \in Nat /\ logged < MaxEvents /\ MaxEvents \in Nat /\ logged' = e
      /\ eventHistory' = Remembered(e) /\ emitting' = Append(emitting, new)
      /\ UNCHANGED <<observed, completed, lost, auditLog, processVars>>
      /\ 1 .. e = 1 .. logged \union {e} /\ e \notin 1 .. logged /\ e \in Nat
  BY LoggerAssumption DEF LogEvent, LoggerInv, LoggerTypeOK
<1>2. HistoryIsNewest' /\ eventHistory' \in Seq(1 .. e)
  <2>1. /\ Remembered(e) \in Seq(1 .. e)
        /\ Len(Remembered(e)) = (IF e < MaxHistory THEN e ELSE MaxHistory)
        /\ \A i \in DOMAIN Remembered(e) : Remembered(e)[i] = e - Len(Remembered(e)) + i
    BY HistoryKept DEF LoggerInv, LoggerTypeOK
  <2> HIDE DEF e
  <2>. QED  BY <1>1, <2>1 DEF HistoryIsNewest
<1>3. /\ emitting \in Seq(Calls) /\ n \in Nat /\ Calls \subseteq Calls'
      /\ \A i \in 1 .. n : emitting[i].event \in 1 .. logged
  <2>1. emitting \in Seq(Calls) /\ \A c \in Calls : c.event \in 1 .. logged
    BY DEF LoggerInv, Calls
  <2>2. Calls \subseteq Calls'
    BY <1>1 DEF Calls
  <2>. QED  BY <2>1, <2>2
<1>4. new \in Calls' /\ new.event = e
  BY <1>1 DEF Calls
<1> HIDE DEF new, n
<1>5. /\ emitting' \in Seq(Calls') /\ Len(emitting') = n + 1
      /\ \A i \in 1 .. n : emitting'[i] = emitting[i]
      /\ emitting'[n + 1] = new
  BY <1>1, <1>3, <1>4 DEF n
<1>6. \A i \in 1 .. n + 1 : i \in 1 .. n \/ i = n + 1
  BY <1>3
<1>7. InProgress' = InProgress \union {e}
  <2>1. 1 .. n \subseteq 1 .. n + 1 /\ n + 1 \in 1 .. n + 1
    BY <1>3
  <2>2. InProgress' = {emitting'[i].event : i \in 1 .. n + 1}
    BY <1>5 DEF InProgress
  <2>. QED  BY <1>4, <1>5, <1>6, <2>1, <2>2 DEF InProgress, n
<1>8. \A i, k \in 1 .. Len(emitting') : i < k => emitting'[i].event < emitting'[k].event
  <2> SUFFICES ASSUME NEW i \in 1 .. n + 1, NEW k \in 1 .. n + 1, i < k
               PROVE  emitting'[i].event < emitting'[k].event
    BY <1>5
  <2>1. i \in 1 .. n
    BY <1>3
  <2>2. CASE k \in 1 .. n
    BY <1>5, <2>1, <2>2 DEF LoggerInv, n
  <2>3. CASE k = n + 1
    <3>1. emitting'[i].event \in 1 .. logged /\ emitting'[k].event = e
      BY <1>3, <1>4, <1>5, <2>1, <2>3
    <3>2. \A x \in 1 .. logged : x < e
      BY <1>1
    <3>. QED  BY <3>1, <3>2
  <2>. QED  BY <1>6, <2>2, <2>3
<1>9. LoggerTypeOK'
  <2>1. \A i \in DOMAIN emitting' : emitting'[i].event \in 1 .. logged'
    <3>1. \A c \in Calls' : c.event \in 1 .. logged'
      BY DEF Calls
    <3>. QED  BY <1>5, <3>1
  <2>2. observed' \in Seq(1 .. logged')
    BY <1>1 DEF LoggerInv, LoggerTypeOK
  <2> HIDE DEF e
  <2>3. logged' \in 0 .. MaxEvents
    BY <1>1 DEF e
  <2>4. completed' \subseteq 1 .. logged' /\ lost' \subseteq 1 .. logged' /\ Len(auditLog') <= MaxAudits
    BY <1>1 DEF LoggerInv, LoggerTypeOK
  <2>5. handlersOn' \in BOOLEAN /\ processUp' \in BOOLEAN
    BY <1>1, Zenon DEF LoggerInv, LoggerTypeOK, processVars
  <2>. QED  BY <1>1, <1>2, <2>1, <2>2, <2>3, <2>4, <2>5 DEF LoggerTypeOK
<1>10. EmittedOnce'
  <2>1. /\ IsInjective(observed)
        /\ 1 .. logged = ToSet(observed) \union lost \union InProgress
        /\ ToSet(observed) \cap lost = {}
        /\ InProgress \cap (ToSet(observed) \union lost) = {}
        /\ completed \subseteq ToSet(observed)
    BY <1>3, EmittedOnceRestated DEF LoggerInv
  <2>2. /\ UNCHANGED <<observed, lost, completed>>
        /\ 1 .. logged' = ToSet(observed') \union lost' \union InProgress'
        /\ InProgress' \cap (ToSet(observed') \union lost') = {}
    BY <1>1, <1>7, <2>1
  <2>3. InProgress' = {emitting'[i].event : i \in DOMAIN emitting'}
    <3>1. DOMAIN emitting' = 1 .. Len(emitting')
      BY <1>5
    <3>. QED  BY <3>1 DEF InProgress
  <2>. QED  BY <2>1, <2>2, <2>3 DEF EmittedOnce
<1>11. auditLog' \in Seq(AuditEvents)
  BY <1>1 DEF LoggerInv, AuditEvents
<1>. QED  BY <1>2, <1>5, <1>8, <1>9, <1>10, <1>11 DEF LoggerInv
\* The listeners of the type have returned.
LEMMA TypeListenersKeep == LoggerInv /\ TypeListenersReturn => LoggerInv'
<1> SUFFICES ASSUME LoggerInv, TypeListenersReturn PROVE LoggerInv'
  OBVIOUS
<1> DEFINE n == Len(emitting)
           c == [emitting[n] EXCEPT !.to = "*"]
<1>1. /\ emitting \in Seq(Calls) /\ n \in Nat /\ n > 0 /\ emitting[n] \in Calls
      /\ emitting' = [emitting EXCEPT ![n] = c]
      /\ UNCHANGED <<logged, eventHistory, observed, completed, lost, auditLog, processVars>>
  <2>1. emitting \in Seq(Calls) /\ emitting # <<>>
    BY DEF LoggerInv, TypeListenersReturn, Idle
  <2>2. n \in Nat /\ n > 0 /\ emitting[n] \in Calls
    BY <2>1
  <2>. QED  BY <2>1, <2>2 DEF TypeListenersReturn
<1>2. c \in Calls /\ c.event = emitting[n].event
  BY <1>1 DEF Calls
<1> HIDE DEF c
<1>3. /\ emitting' \in Seq(Calls) /\ Calls' = Calls /\ Len(emitting') = n
      /\ \A i \in 1 .. n : emitting'[i].event = emitting[i].event
  BY <1>1, <1>2 DEF Calls
<1> HIDE DEF n
<1>4. DOMAIN emitting' = 1 .. n /\ DOMAIN emitting = 1 .. n
  <2>1. DOMAIN emitting' = 1 .. n
    BY <1>3
  <2>2. DOMAIN emitting = 1 .. Len(emitting)
    BY <1>1
  <2>. QED  BY <2>1, <2>2 DEF n
<1>5. EmittedOnce'
  BY <1>1, <1>3, <1>4 DEF LoggerInv, EmittedOnce
<1>6. LoggerTypeOK' /\ HistoryIsNewest'
  BY <1>1, <1>3, <1>4 DEF LoggerInv, LoggerTypeOK, HistoryIsNewest, processVars
<1>7. \A i, k \in 1 .. Len(emitting') : i < k => emitting'[i].event < emitting'[k].event
  BY <1>3 DEF LoggerInv, n
<1>8. auditLog' \in Seq(AuditEvents)
  BY <1>1 DEF LoggerInv, AuditEvents
<1>. QED  BY <1>3, <1>5, <1>6, <1>7, <1>8 DEF LoggerInv

\* The listeners of '*' have returned: the event is settled.
LEMMA StarListenersKeep == LoggerInv /\ StarListenersReturn => LoggerInv'
<1> SUFFICES ASSUME LoggerInv, StarListenersReturn PROVE LoggerInv'
  OBVIOUS
<1> DEFINE n == Len(emitting) - 1
           e == emitting[Len(emitting)].event
<1>1. /\ emitting \in Seq(Calls) /\ emitting # <<>> /\ Len(emitting) \in Nat
      /\ n \in 0 .. Len(emitting) - 1 /\ n + 1 = Len(emitting)
  <2>1. emitting \in Seq(Calls) /\ emitting # <<>>
    BY DEF LoggerInv, StarListenersReturn, Idle
  <2>. QED  BY <2>1
<1>2. /\ emitting' = Left(n) /\ observed' = Append(observed, e)
      /\ completed' \subseteq completed \union {e}
      /\ UNCHANGED <<logged, eventHistory, lost, auditLog, processVars>>
  BY <1>1 DEF StarListenersReturn, Innermost, Last, Front, Left
<1>3. Cut(n) = {e}
  <2>1. n + 1 .. Len(emitting) = {Len(emitting)}
    BY <1>1
  <2>. QED  BY <2>1 DEF Cut
<1> HIDE DEF n, e
<1>4. /\ emitting' \in Seq(Calls) /\ Len(emitting') = n /\ Calls' = Calls
      /\ \A i \in 1 .. n : emitting'[i] = emitting[i]
      /\ InProgress = InProgress' \union {e} /\ e \notin InProgress'
      /\ e \in 1 .. logged
  <2>1. /\ Left(n) \in Seq(Calls) /\ Len(Left(n)) = n
        /\ \A i \in 1 .. n : Left(n)[i] = emitting[i]
        /\ InProgress = {Left(n)[i].event : i \in 1 .. n} \union {e}
        /\ {Left(n)[i].event : i \in 1 .. n} \cap {e} = {}
        /\ {e} \subseteq 1 .. logged
    BY <1>1, <1>3, InnermostLeaves
  <2>2. InProgress' = {Left(n)[i].event : i \in 1 .. n}
    BY <1>2, <2>1 DEF InProgress
  <2>. QED  BY <1>2, <2>1, <2>2 DEF Calls
<1>5. /\ IsInjective(observed)
      /\ 1 .. logged = ToSet(observed) \union lost \union InProgress
      /\ ToSet(observed) \cap lost = {}
      /\ InProgress \cap (ToSet(observed) \union lost) = {}
      /\ completed \subseteq ToSet(observed)
  BY <1>1, EmittedOnceRestated DEF LoggerInv
<1>6. /\ observed \in Seq(1 .. logged) /\ observed' \in Seq(1 .. logged)
      /\ ToSet(observed') = ToSet(observed) \union {e} /\ IsInjective(observed')
  <2>1. observed \in Seq(1 .. logged) /\ e \notin ToSet(observed)
    BY <1>4, <1>5 DEF LoggerInv, LoggerTypeOK
  <2>2. /\ Append(observed, e) \in Seq(1 .. logged)
        /\ ToSet(Append(observed, e)) = ToSet(observed) \union {e}
        /\ IsInjective(Append(observed, e))
    <3> DEFINE Seen == 1 .. logged
    <3>1. observed \in Seq(Seen) /\ e \in Seen /\ IsInjective(observed) /\ e \notin ToSet(observed)
      BY <1>4, <1>5, <2>1
    <3> HIDE DEF Seen
    <3>2. /\ Append(observed, e) \in Seq(Seen)
          /\ ToSet(Append(observed, e)) = ToSet(observed) \union {e}
          /\ IsInjective(Append(observed, e))
      BY <3>1, AppendAdds
    <3>. QED  BY <3>2 DEF Seen
  <2>. QED  BY <1>2, <2>1, <2>2
<1>7. DOMAIN emitting' = 1 .. n
  BY <1>4
<1>8. EmittedOnce'
  <2>1. InProgress' = {emitting'[i].event : i \in DOMAIN emitting'}
    BY <1>4, <1>7 DEF InProgress
  <2>2. 1 .. logged' = ToSet(observed') \union lost' \union InProgress'
    BY <1>2, <1>4, <1>5, <1>6
  <2>3. ToSet(observed') \cap lost' = {} /\ InProgress' \cap (ToSet(observed') \union lost') = {}
    BY <1>2, <1>4, <1>5, <1>6
  <2>4. completed' \subseteq ToSet(observed')
    BY <1>2, <1>5, <1>6
  <2>. QED  BY <1>6, <2>1, <2>2, <2>3, <2>4 DEF EmittedOnce
<1>9. LoggerTypeOK'
  <2>1. \A i \in DOMAIN emitting' : emitting'[i].event \in 1 .. logged'
    <3>1. \A x \in Calls' : x.event \in 1 .. logged'
      BY DEF Calls
    <3>. QED  BY <1>4, <1>7, <3>1
  <2>2. completed' \subseteq 1 .. logged'
    BY <1>2, <1>4 DEF LoggerInv, LoggerTypeOK
  <2>3. handlersOn' \in BOOLEAN /\ processUp' \in BOOLEAN
    BY <1>2, Zenon DEF LoggerInv, LoggerTypeOK, processVars
  <2>4. /\ logged' \in 0 .. MaxEvents /\ eventHistory' \in Seq(1 .. logged')
        /\ lost' \subseteq 1 .. logged' /\ Len(auditLog') <= MaxAudits
    BY <1>2 DEF LoggerInv, LoggerTypeOK, processVars
  <2>. QED  BY <1>2, <1>6, <2>1, <2>2, <2>3, <2>4 DEF LoggerTypeOK
<1>10. \A i, k \in 1 .. Len(emitting') : i < k => emitting'[i].event < emitting'[k].event
  <2>1. 1 .. n \subseteq 1 .. Len(emitting)
    BY <1>1
  <2>. QED  BY <1>4, <2>1 DEF LoggerInv
<1>11. HistoryIsNewest' /\ auditLog' \in Seq(AuditEvents)
  BY <1>2 DEF LoggerInv, HistoryIsNewest, AuditEvents
<1>. QED  BY <1>4, <1>8, <1>9, <1>10, <1>11 DEF LoggerInv

\* A listener throws: the calls the exception passes through are cut off.
LEMMA ListenerThrowsKeeps ==
  ASSUME LoggerInv, NEW err \in Errors, ListenerThrows(err)
  PROVE  LoggerInv'
<1>1. PICK n \in 0 .. Len(emitting) - 1 :
        /\ emitting' = Left(n) /\ lost' = lost \union Cut(n)
        /\ UNCHANGED processVars \/ (n = 0 /\ \E f \in {err, ToAppError(err)} : Uncaught(f))
  BY DEF ListenerThrows, Left, Cut
<1>2. UNCHANGED <<logged, eventHistory, observed, completed, auditLog>> /\ Calls' = Calls
  BY DEF ListenerThrows, Calls
<1>3. /\ emitting' \in Seq(Calls) /\ Len(emitting') = n
      /\ \A i \in 1 .. n : emitting'[i] = emitting[i]
      /\ InProgress = InProgress' \union Cut(n) /\ InProgress' \cap Cut(n) = {}
      /\ Cut(n) \subseteq 1 .. logged
  <2>1. emitting # <<>>
    BY DEF ListenerThrows, Idle
  <2>2. /\ Left(n) \in Seq(Calls) /\ Len(Left(n)) = n
        /\ \A i \in 1 .. n : Left(n)[i] = emitting[i]
        /\ InProgress = {Left(n)[i].event : i \in 1 .. n} \union Cut(n)
        /\ {Left(n)[i].event : i \in 1 .. n} \cap Cut(n) = {}
        /\ Cut(n) \subseteq 1 .. logged
    BY <2>1, InnermostLeaves
  <2>3. InProgress' = {Left(n)[i].event : i \in 1 .. n}
    BY <1>1, <2>2 DEF InProgress
  <2>. QED  BY <1>1, <2>2, <2>3
<1>4. /\ emitting \in Seq(Calls) /\ IsInjective(observed)
      /\ 1 .. logged = ToSet(observed) \union lost \union InProgress
      /\ ToSet(observed) \cap lost = {}
      /\ InProgress \cap (ToSet(observed) \union lost) = {}
      /\ completed \subseteq ToSet(observed)
  BY EmittedOnceRestated DEF LoggerInv
<1>5. DOMAIN emitting' = 1 .. n
  BY <1>3
<1>6. EmittedOnce'
  <2>1. InProgress' = {emitting'[i].event : i \in DOMAIN emitting'}
    BY <1>3, <1>5 DEF InProgress
  <2>2. 1 .. logged' = ToSet(observed') \union lost' \union InProgress'
    BY <1>1, <1>2, <1>3, <1>4
  <2>3. ToSet(observed') \cap lost' = {} /\ InProgress' \cap (ToSet(observed') \union lost') = {}
    BY <1>1, <1>2, <1>3, <1>4
  <2>. QED  BY <1>2, <1>4, <2>1, <2>2, <2>3 DEF EmittedOnce
<1>7. handlersOn' \in BOOLEAN /\ processUp' \in BOOLEAN
  <2>1. handlersOn \in BOOLEAN /\ processUp \in BOOLEAN
    BY Zenon DEF LoggerInv, LoggerTypeOK
  <2>2. CASE UNCHANGED processVars
    BY <2>1, <2>2, Zenon DEF processVars
  <2>3. ASSUME NEW f, Uncaught(f) PROVE handlersOn' \in BOOLEAN /\ processUp' \in BOOLEAN
    BY <2>1, <2>3, Zenon DEF Uncaught
  <2>. QED  BY <1>1, <2>2, <2>3
<1>8. LoggerTypeOK'
  <2>1. \A i \in DOMAIN emitting' : emitting'[i].event \in 1 .. logged'
    <3>1. \A x \in Calls' : x.event \in 1 .. logged'
      BY DEF Calls
    <3>. QED  BY <1>2, <1>3, <1>5, <3>1
  <2>2. lost' \subseteq 1 .. logged'
    BY <1>1, <1>2, <1>3, <1>4
  <2>3. /\ logged' \in 0 .. MaxEvents /\ eventHistory' \in Seq(1 .. logged')
        /\ observed' \in Seq(1 .. logged') /\ completed' \subseteq 1 .. logged'
        /\ Len(auditLog') <= MaxAudits
    BY <1>2 DEF LoggerInv, LoggerTypeOK
  <2>. QED  BY <1>7, <2>1, <2>2, <2>3 DEF LoggerTypeOK
<1>9. \A i, k \in 1 .. Len(emitting') : i < k => emitting'[i].event < emitting'[k].event
  <2>1. 1 .. n \subseteq 1 .. Len(emitting)
    BY <1>4
  <2>. QED  BY <1>3, <2>1 DEF LoggerInv
<1>10. HistoryIsNewest' /\ auditLog' \in Seq(AuditEvents)
  BY <1>2 DEF LoggerInv, HistoryIsNewest, AuditEvents
<1>. QED  BY <1>2, <1>3, <1>6, <1>7, <1>8, <1>9, <1>10 DEF LoggerInv
\* The invariant of the loggers is inductive.
LEMMA LoggerInduction ==
  /\ LoggerInit => LoggerInv
  /\ LoggerInv /\ [LoggerNext]_loggerVars => LoggerInv'
<1>1. ASSUME LoggerInit PROVE LoggerInv
  <2>1. /\ logged = 0 /\ eventHistory = <<>> /\ emitting = <<>> /\ observed = <<>>
        /\ completed = {} /\ lost = {} /\ auditLog = <<>>
        /\ handlersOn = FALSE /\ processUp = TRUE
    BY <1>1 DEF LoggerInit, ProcessInit
  <2>2. /\ MaxHistory \in Nat /\ MaxEvents \in Nat /\ MaxAudits \in Nat
        /\ DOMAIN <<>> = {} /\ Len(<<>>) = 0 /\ 1 .. 0 = {}
    BY LoggerAssumption
  <2>3. EmittedOnce
    BY <2>1, <2>2 DEF EmittedOnce, IsInjective, ToSet
  <2>4. handlersOn \in BOOLEAN /\ processUp \in BOOLEAN
    BY <2>1, Zenon
  <2>5. LoggerTypeOK /\ HistoryIsNewest
    BY <2>1, <2>2, <2>4 DEF LoggerTypeOK, HistoryIsNewest
  <2>. QED  BY <2>1, <2>2, <2>3, <2>5 DEF LoggerInv
<1>2. ASSUME LoggerInv, NEW category \in {"authentication", "data_modification"},
             NEW outcome \in {"success", "failure"}, RecordAuditEvent(category, outcome)
      PROVE  LoggerInv'
  <2> DEFINE new == [id |-> Len(auditLog) + 1, category |-> category, outcome |-> outcome]
  <2>1. /\ auditLog \in Seq(AuditEvents) /\ Len(auditLog) \in Nat /\ new \in AuditEvents
        /\ Len(auditLog) < MaxAudits /\ auditLog' = Append(auditLog, new)
        /\ UNCHANGED <<logged, eventHistory, emitting, observed, completed, lost, processVars>>
    <3>1. auditLog \in Seq(AuditEvents) /\ Len(auditLog) \in Nat
      BY <1>2 DEF LoggerInv
    <3>. QED  BY <1>2, <3>1 DEF RecordAuditEvent, AuditEvents
  <2> HIDE DEF new
  <2>2. auditLog' \in Seq(AuditEvents') /\ Len(auditLog') <= MaxAudits
    BY <2>1, LoggerAssumption DEF AuditEvents
  <2>3. handlersOn' \in BOOLEAN /\ processUp' \in BOOLEAN
    BY <1>2, <2>1, Zenon DEF LoggerInv, LoggerTypeOK, processVars
  <2>4. LoggerTypeOK'
    BY <1>2, <2>1, <2>2, <2>3 DEF LoggerInv, LoggerTypeOK, processVars
  <2>5. HistoryIsNewest' /\ EmittedOnce' /\ Calls' = Calls
    BY <1>2, <2>1 DEF LoggerInv, HistoryIsNewest, EmittedOnce, Calls
  <2>. QED  BY <1>2, <2>1, <2>2, <2>4, <2>5 DEF LoggerInv
<1>3. ASSUME LoggerInv, RegisterGlobalErrorHandlers,
             UNCHANGED <<logged, eventHistory, emitting, observed, completed, lost, auditLog>>
      PROVE  LoggerInv'
  <2>1. handlersOn' = TRUE /\ processUp /\ processUp' = processUp
    BY <1>3 DEF RegisterGlobalErrorHandlers
  <2>2. handlersOn' \in BOOLEAN /\ processUp' \in BOOLEAN
    BY <1>3, <2>1, Zenon DEF LoggerInv, LoggerTypeOK
  <2>3. LoggerTypeOK'
    BY <1>3, <2>1, <2>2 DEF LoggerInv, LoggerTypeOK
  <2>4. HistoryIsNewest' /\ EmittedOnce' /\ Calls' = Calls /\ AuditEvents' = AuditEvents
    BY <1>3 DEF LoggerInv, HistoryIsNewest, EmittedOnce, Calls, AuditEvents
  <2>. QED  BY <1>3, <2>2, <2>3, <2>4 DEF LoggerInv
<1>4. ASSUME LoggerInv, UNCHANGED loggerVars PROVE LoggerInv'
  <2>1. /\ UNCHANGED <<logged, eventHistory, emitting, observed, completed, lost, auditLog>>
        /\ UNCHANGED <<handlersOn, processUp>>
    BY <1>4 DEF loggerVars, processVars
  <2>2. handlersOn' \in BOOLEAN /\ processUp' \in BOOLEAN
    BY <1>4, <2>1, Zenon DEF LoggerInv, LoggerTypeOK
  <2>3. LoggerTypeOK'
    BY <1>4, <2>1, <2>2 DEF LoggerInv, LoggerTypeOK
  <2>4. HistoryIsNewest' /\ EmittedOnce' /\ Calls' = Calls /\ AuditEvents' = AuditEvents
    BY <1>4, <2>1 DEF LoggerInv, HistoryIsNewest, EmittedOnce, Calls, AuditEvents
  <2>. QED  BY <1>4, <2>1, <2>2, <2>3, <2>4 DEF LoggerInv
<1>5. LoggerInv /\ Audit => LoggerInv'
  BY <1>2 DEF Audit
<1>6. LoggerInv /\ LoggerNext => LoggerInv'
  BY <1>3, <1>5, LogEventKeeps, TypeListenersKeep, StarListenersKeep, ListenerThrowsKeeps
  DEF LoggerNext
<1>. QED  BY <1>1, <1>4, <1>6

\* The order of what listeners are given is inductive.
LEMMA NestingInduction ==
  /\ LoggerInit => NestingInv
  /\ LoggerInv /\ NestingInv /\ [LoggerNext]_loggerVars => NestingInv'
<1>1. ASSUME LoggerInit PROVE NestingInv
  <2>1. emitting = <<>> /\ observed = <<>> /\ Len(<<>>) = 0 /\ DOMAIN <<>> = {} /\ 1 .. 0 = {}
    BY <1>1 DEF LoggerInit
  <2>. QED  BY <2>1 DEF NestingInv, NestedFirst
<1>2. ASSUME LoggerInv, NestingInv, [LoggerNext]_loggerVars PROVE NestingInv'
  <2>0. /\ observed \in Seq(1 .. logged) /\ DOMAIN observed = 1 .. Len(observed)
        /\ Len(observed) \in Nat /\ logged \in Nat
        /\ \A i \in 1 .. Len(observed) : observed[i] \in Int /\ observed[i] <= logged
        /\ emitting \in Seq(Calls) /\ Len(emitting) \in Nat /\ DOMAIN emitting = 1 .. Len(emitting)
        /\ \A n \in 1 .. Len(emitting) : emitting[n].event \in Int
        /\ \A i, k \in 1 .. Len(emitting) : i < k => emitting[i].event < emitting[k].event
    BY <1>2 DEF LoggerInv, LoggerTypeOK
  <2>1. ASSUME UNCHANGED observed, Len(emitting') \in Nat,
               \A n \in 1 .. Len(emitting') :
                 \/ emitting'[n].event = logged + 1
                 \/ \E k \in 1 .. Len(emitting) : emitting'[n].event = emitting[k].event
        PROVE  NestingInv'
    <3>1. NestedFirst'
      BY <1>2, <2>1 DEF NestingInv, NestedFirst
    <3>2. ASSUME NEW n \in 1 .. Len(emitting'), NEW i \in 1 .. Len(observed),
                 NEW j \in 1 .. Len(observed), i < j
          PROVE  ~ (observed[j] < emitting'[n].event /\ emitting'[n].event < observed[i])
      <4>1. CASE emitting'[n].event = logged + 1
        BY <2>0, <4>1
      <4>2. ASSUME NEW k \in 1 .. Len(emitting), emitting'[n].event = emitting[k].event
            PROVE  ~ (observed[j] < emitting'[n].event /\ emitting'[n].event < observed[i])
        BY <1>2, <3>2, <4>2 DEF NestingInv
      <4>. QED  BY <2>1, <4>1, <4>2
    <3>. QED  BY <2>1, <3>1, <3>2 DEF NestingInv
  <2>2. ASSUME NEW kind, LogEvent(kind) PROVE NestingInv'
    <3> DEFINE new == [event |-> logged + 1, kind |-> kind, to |-> "type"]
    <3>1. UNCHANGED observed /\ emitting' = Append(emitting, new) /\ new.event = logged + 1
      BY <2>2 DEF LogEvent
    <3> HIDE DEF new
    <3>2. /\ Len(emitting') = Len(emitting) + 1
          /\ emitting'[Len(emitting) + 1] = new
          /\ \A n \in 1 .. Len(emitting) : emitting'[n] = emitting[n]
          /\ \A n \in 1 .. Len(emitting) + 1 : n \in 1 .. Len(emitting) \/ n = Len(emitting) + 1
      BY <2>0, <3>1
    <3>. QED  BY <2>0, <2>1, <3>1, <3>2
  <2>3. CASE TypeListenersReturn
    <3> DEFINE last == Len(emitting)
               c == [emitting[last] EXCEPT !.to = "*"]
    <3>1. UNCHANGED observed /\ emitting' = [emitting EXCEPT ![last] = c] /\ last \in 1 .. last
      BY <2>0, <2>3 DEF TypeListenersReturn, Idle
    <3>2. c \in Calls /\ c.event = emitting[last].event
      <4>1. emitting[last] \in Calls
        BY <2>0, <3>1
      <4>. QED  BY <4>1 DEF Calls
    <3> HIDE DEF c
    <3>3. Len(emitting') = last /\ \A n \in 1 .. last : emitting'[n].event = emitting[n].event
      <4>1. emitting \in Seq(Calls) /\ last \in Nat /\ emitting' = [emitting EXCEPT ![last] = c]
        BY <2>0, <3>1
      <4>. QED  BY <3>2, <4>1
    <3> HIDE DEF last
    <3>. QED  BY <2>0, <2>1, <3>1, <3>3 DEF last
  <2>4. CASE StarListenersReturn
    <3> DEFINE n == Len(emitting) - 1
               m == Len(observed)
               e == emitting[n + 1].event
    <3>1. /\ n \in 0 .. Len(emitting) - 1 /\ n + 1 = Len(emitting) /\ n + 1 \in 1 .. Len(emitting)
          /\ \A k \in 1 .. n : k \in 1 .. Len(emitting) /\ k < n + 1
      <4>1. emitting # <<>>
        BY <2>4 DEF StarListenersReturn, Idle
      <4>. QED  BY <2>0, <4>1
    <3>2. /\ emitting' = SubSeq(emitting, 1, n) /\ observed' = Append(observed, e) /\ e \in Int
          /\ e \in 1 .. logged
      <4>1. emitting[n + 1] \in Calls
        BY <2>0, <3>1
      <4>2. e \in 1 .. logged
        BY <4>1 DEF Calls
      <4>. QED  BY <2>4, <3>1, <4>2 DEF StarListenersReturn, Innermost, Last, Front
    <3>3. Len(emitting') = n /\ \A k \in 1 .. n : emitting'[k] = emitting[k]
      <4> HIDE DEF n
      <4>. QED  BY <2>0, <3>1, <3>2
    <3>4. \A k \in 1 .. n : emitting[k].event < e
      BY <2>0, <3>1
    <3> HIDE DEF n, e
    <3>5. /\ Len(observed') = m + 1 /\ observed'[m + 1] = e /\ DOMAIN observed' = 1 .. m + 1
          /\ \A k \in 1 .. m : observed'[k] = observed[k]
          /\ \A k \in 1 .. m + 1 : k \in 1 .. m \/ k = m + 1
      BY <2>0, <3>2
    <3> HIDE DEF m
    <3>6. m \in Nat /\ DOMAIN observed = 1 .. m
      BY <2>0 DEF m
    <3>7. ASSUME NEW i \in 1 .. m + 1, NEW j \in 1 .. m + 1, NEW k \in 1 .. m + 1, i < j, j < k
          PROVE  ~ (observed'[j] < observed'[k] /\ observed'[k] < observed'[i])
      <4>1. i \in 1 .. m /\ j \in 1 .. m
        BY <3>6, <3>7
      <4>2. CASE k \in 1 .. m
        BY <1>2, <3>5, <3>6, <3>7, <4>1, <4>2 DEF NestingInv, NestedFirst
      <4>3. CASE k = m + 1
        <5>1. ~ (observed[j] < emitting[n + 1].event /\ emitting[n + 1].event < observed[i])
          BY <1>2, <3>1, <3>7, <4>1 DEF NestingInv, m
        <5>. QED  BY <3>5, <4>1, <4>3, <5>1 DEF e
      <4>. QED  BY <3>5, <4>2, <4>3
    <3>8. ASSUME NEW k \in 1 .. n, NEW i \in 1 .. m + 1, NEW j \in 1 .. m + 1, i < j
          PROVE  ~ (observed'[j] < emitting'[k].event /\ emitting'[k].event < observed'[i])
      <4>1. i \in 1 .. m
        BY <3>6, <3>8
      <4>2. CASE j \in 1 .. m
        <5>1. ~ (observed[j] < emitting[k].event /\ emitting[k].event < observed[i])
          BY <1>2, <3>1, <3>8, <4>1, <4>2 DEF NestingInv, m
        <5>. QED  BY <3>3, <3>5, <4>1, <4>2, <5>1
      <4>3. CASE j = m + 1
        <5>1. observed'[j] = e /\ emitting'[k].event < e
          BY <3>3, <3>4, <3>5, <4>3
        <5>2. emitting'[k].event \in Int /\ e \in Int
          BY <2>0, <3>1, <3>2, <3>3
        <5>3. ~ (e < emitting'[k].event)
          BY <5>1, <5>2
        <5>. QED  BY <5>1, <5>3
      <4>. QED  BY <3>5, <4>2, <4>3
    <3>. QED  BY <3>3, <3>5, <3>7, <3>8 DEF NestingInv, NestedFirst
  <2>5. ASSUME NEW err, ListenerThrows(err) PROVE NestingInv'
    <3>1. PICK n \in 0 .. Len(emitting) - 1 : emitting' = SubSeq(emitting, 1, n)
      BY <2>5 DEF ListenerThrows
    <3>2. /\ Len(emitting') = n /\ n \in Nat /\ \A k \in 1 .. n : k \in 1 .. Len(emitting)
          /\ \A k \in 1 .. n : emitting'[k] = emitting[k]
      BY <2>0, <3>1
    <3>3. UNCHANGED observed
      BY <2>5 DEF ListenerThrows
    <3>. QED  BY <2>1, <3>2, <3>3
  <2>6. CASE UNCHANGED <<emitting, observed>>
    BY <1>2, <2>6 DEF NestingInv, NestedFirst
  <2>. QED  BY <1>2, <2>2, <2>3, <2>4, <2>5, <2>6
            DEF LoggerNext, Audit, RecordAuditEvent, loggerVars
<1>. QED  BY <1>1, <1>2
-----------------------------------------------------------------------------
(* Customers.                                                              *)

\* The report counts a table of interactions by rows and by columns.
LEMMA ReportDoesCountAll ==
  ASSUME interactions \in [Customers \X InteractionTypes -> Nat]
  PROVE  ReportCountsAll
<1> DEFINE m == [c \in Customers |-> [t \in InteractionTypes |-> interactions[<<c, t>>]]]
           rows == [c \in Customers |-> SumFunctionOnSet(m[c], InteractionTypes)]
           column(t) == [c \in Customers |-> m[c][t]]
           columns == [t \in InteractionTypes |-> SumFunctionOnSet(column(t), Customers)]
<1>1. IsFiniteSet(Customers) /\ IsFiniteSet(InteractionTypes)
  BY CustomerAssumption
<1>2. \A c \in Customers : \A t \in InteractionTypes : m[c][t] \in Int
  OBVIOUS
<1>3. \A c \in Customers : GetCustomerInteractions(c) = SumFunctionOnSet(m[c], InteractionTypes)
  BY DEF GetCustomerInteractions, SumFunction
<1>4. GenerateCrmReport.interactions = SumFunctionOnSet(rows, Customers)
  <2>1. [c \in Customers |-> GetCustomerInteractions(c)] = rows
    BY <1>3
  <2>2. GenerateCrmReport.interactions = SumFunction([c \in Customers |-> GetCustomerInteractions(c)])
    BY DEF GenerateCrmReport
  <2>. QED  BY <2>1, <2>2 DEF SumFunction
<1>5. SumFunction(GenerateCrmReport.topInteractionTypes)
        = SumFunctionOnSet(columns, InteractionTypes)
  <2>1. \A t \in InteractionTypes : [c \in Customers |-> interactions[<<c, t>>]] = column(t)
    OBVIOUS
  <2>2. GenerateCrmReport.topInteractionTypes = columns
    BY <2>1 DEF GenerateCrmReport, SumFunction
  <2>. QED  BY <2>2 DEF SumFunction
<1>6. SumFunctionOnSet(rows, Customers) = SumFunctionOnSet(columns, InteractionTypes)
  <2> HIDE DEF m
  <2>. QED  BY <1>1, <1>2, SumSwap
<1>. QED  BY <1>4, <1>5, <1>6 DEF ReportCountsAll

\* The invariant of the customers and of the import is inductive.
LEMMA CustomerInduction ==
  /\ CustomerInit => CustomerInv
  /\ CustomerInv /\ [CustomerNext]_customerVars => CustomerInv'
<1> USE CustomerAssumption
<1>1. ASSUME CustomerInit PROVE CustomerInv
  <2>1. Stored = {} /\ rewritten = FALSE
    BY <1>1 DEF CustomerInit, Stored
  <2>2. rewritten \in BOOLEAN
    BY <2>1, Zenon
  <2>3. IsFiniteSet({}) /\ Cardinality({}) = 0 /\ Len(Contacts) \in Nat
    BY FS_EmptySet
  <2>. QED  BY <1>1, <2>1, <2>2, <2>3
            DEF CustomerInit, CustomerInv, CustomerTypeOK, EmailsUnique, ImportAccounted
<1>2. ASSUME CustomerInv, NEW c \in Customers, NEW e \in Emails, Insert(c, e)
      PROVE  /\ customerStore' \in [Customers -> Emails \union {NoCustomer}]
             /\ Stored' = Stored \union {c} /\ c \notin Stored
             /\ \A a, b \in Stored' : customerStore'[a] = customerStore'[b] =>
                  a = b \/ (a \in Stored /\ b \in Stored /\ customerStore[a] = customerStore[b])
  <2>1. /\ customerStore \in [Customers -> Emails \union {NoCustomer}] /\ e # NoCustomer
        /\ customerStore' = [customerStore EXCEPT ![c] = e]
        /\ c \notin Stored /\ \A d \in Stored : customerStore[d] # e
    BY <1>2 DEF CustomerInv, CustomerTypeOK, Insert, Taken
  <2>2. Stored' = Stored \union {c}
    BY <2>1 DEF Stored
  <2>3. \A a \in Stored : customerStore'[a] = customerStore[a]
    BY <2>1 DEF Stored
  <2>. QED  BY <2>1, <2>2, <2>3
<1>3. ASSUME CustomerInv, NEW c \in Customers, NEW e \in Emails, CreateCustomer(c, e)
      PROVE  CustomerInv'
  <2>1. Insert(c, e) /\ UNCHANGED <<row, imported, failed, importedIds, interactions, rewritten>>
    BY <1>3 DEF CreateCustomer
  <2>2. rewritten' \in BOOLEAN
    BY <1>3, <2>1, Zenon DEF CustomerInv, CustomerTypeOK
  <2>3. CustomerTypeOK' /\ EmailsUnique'
    BY <1>2, <1>3, <2>1, <2>2 DEF CustomerInv, CustomerTypeOK, EmailsUnique
  <2>. QED  BY <1>3, <2>1, <2>3 DEF CustomerInv, ImportAccounted
<1>4. ASSUME CustomerInv, NEW c \in Customers, NEW e \in Emails, UpdateCustomer(c, e)
      PROVE  CustomerInv'
  <2>1. /\ customerStore \in [Customers -> Emails \union {NoCustomer}] /\ e # NoCustomer
        /\ customerStore' = [customerStore EXCEPT ![c] = e] /\ c \in Stored
        /\ UNCHANGED <<row, imported, failed, importedIds, interactions>>
        /\ rewritten' <=> rewritten \/ \E d \in Stored \ {c} : customerStore[d] = e
    BY <1>4 DEF CustomerInv, CustomerTypeOK, UpdateCustomer
  <2>2. rewritten' \in BOOLEAN
    BY <1>4, Zenon DEF UpdateCustomer
  <2>3. Stored' = Stored /\ \A d \in Stored \ {c} : customerStore'[d] = customerStore[d]
    BY <2>1 DEF Stored
  <2>4. customerStore'[c] = e
    BY <2>1 DEF Stored
  <2>5. EmailsUnique'
    BY <1>4, <2>1, <2>3, <2>4 DEF CustomerInv, EmailsUnique
  <2>6. CustomerTypeOK'
    BY <1>4, <2>1, <2>2, <2>3 DEF CustomerInv, CustomerTypeOK
  <2>. QED  BY <1>4, <2>1, <2>5, <2>6 DEF CustomerInv, ImportAccounted
<1>5. ASSUME CustomerInv, ImportRow PROVE CustomerInv'
  <2>1. /\ row \in Nat /\ row < Len(Contacts) /\ row' = row + 1 /\ Len(Contacts) \in Nat
        /\ imported \in Nat /\ failed \in Nat
        /\ UNCHANGED <<interactions, rewritten>> /\ row' \in 0 .. Len(Contacts)
        /\ imported + failed = row /\ imported = Cardinality(importedIds)
    <3>1. Len(Contacts) \in Nat
      OBVIOUS
    <3>. QED  BY <1>5, <3>1 DEF ImportRow, CustomerInv, CustomerTypeOK, ImportAccounted
  <2>2. rewritten' \in BOOLEAN
    BY <1>5, <2>1, Zenon DEF CustomerInv, CustomerTypeOK
  <2>3. CASE Taken(Contacts[row + 1])
    <3>1. failed' = failed + 1 /\ UNCHANGED <<customerStore, imported, importedIds>>
      BY <1>5, <2>3 DEF ImportRow
    <3>2. Stored' = Stored /\ imported' + failed' = row' /\ imported' = Cardinality(importedIds')
      <4>1. Stored' = Stored
        BY <3>1 DEF Stored
      <4>2. imported + (failed + 1) = row + 1
        BY <2>1
      <4>. QED  BY <2>1, <3>1, <4>1, <4>2
    <3>. QED  BY <1>5, <2>1, <2>2, <3>1, <3>2
              DEF CustomerInv, CustomerTypeOK, EmailsUnique, ImportAccounted
  <2>4. CASE ~ Taken(Contacts[row + 1])
    <3>1. /\ imported' = imported + 1 /\ failed' = failed
          /\ \E c \in Customers :
               Insert(c, Contacts[row + 1]) /\ importedIds' = importedIds \union {c}
      BY <1>5, <2>4 DEF ImportRow
    <3>2. PICK c \in Customers :
            Insert(c, Contacts[row + 1]) /\ importedIds' = importedIds \union {c}
      BY <3>1
    <3>3. Contacts[row + 1] \in Emails
      <4>1. row + 1 \in 1 .. Len(Contacts)
        BY <2>1
      <4>. QED  BY <4>1
    <3>4. /\ customerStore' \in [Customers -> Emails \union {NoCustomer}]
          /\ Stored' = Stored \union {c} /\ c \notin Stored
          /\ \A a, b \in Stored' : customerStore'[a] = customerStore'[b] =>
               a = b \/ (a \in Stored /\ b \in Stored /\ customerStore[a] = customerStore[b])
      BY <1>2, <1>5, <3>2, <3>3
    <3>5. importedIds \subseteq Stored /\ IsFiniteSet(importedIds)
      BY <1>5 DEF CustomerInv, CustomerTypeOK
    <3>6. /\ IsFiniteSet(importedIds') /\ Cardinality(importedIds') = Cardinality(importedIds) + 1
      BY <3>2, <3>4, <3>5, FS_AddElement
    <3>7. ImportAccounted' /\ importedIds' \subseteq Stored'
      BY <2>1, <3>1, <3>2, <3>4, <3>5, <3>6 DEF ImportAccounted
    <3>8. EmailsUnique'
      BY <1>5, <2>1, <3>4 DEF CustomerInv, EmailsUnique
    <3>9. interactions' \in [Customers \X InteractionTypes -> Nat]
      BY <1>5, <2>1 DEF CustomerInv, CustomerTypeOK
    <3>. QED  BY <2>1, <2>2, <3>1, <3>4, <3>6, <3>7, <3>8, <3>9 DEF CustomerInv, CustomerTypeOK
  <2>. QED  BY <2>3, <2>4
<1>6. ASSUME CustomerInv, interactions' \in [Customers \X InteractionTypes -> Nat],
             UNCHANGED <<customerStore, row, imported, failed, importedIds, rewritten>>
      PROVE  CustomerInv'
  <2>1. rewritten' \in BOOLEAN
    BY <1>6, Zenon DEF CustomerInv, CustomerTypeOK
  <2>2. Stored' = Stored
    BY <1>6 DEF Stored
  <2>. QED  BY <1>6, <2>1, <2>2 DEF CustomerInv, CustomerTypeOK, EmailsUnique, ImportAccounted
<1>7. CustomerInv /\ [CustomerNext]_customerVars => CustomerInv'
  <2>1. ASSUME CustomerInv, NEW c \in Customers, NEW t \in InteractionTypes, LogInteraction(c, t)
        PROVE  CustomerInv'
    <3>1. interactions' \in [Customers \X InteractionTypes -> Nat]
      BY <2>1 DEF LogInteraction, CustomerInv, CustomerTypeOK
    <3>. QED  BY <1>6, <2>1, <3>1 DEF LogInteraction
  <2>2. CustomerInv /\ UNCHANGED customerVars => CustomerInv'
    BY <1>6 DEF customerVars, CustomerInv, CustomerTypeOK
  <2>. QED  BY <1>3, <1>4, <1>5, <2>1, <2>2 DEF CustomerNext
<1>. QED  BY <1>1, <1>7
-----------------------------------------------------------------------------
(* Backups and cached files.                                               *)

\* A backup that is appended, or changes its state, leaves the prunes as they are.
LEMMA BackupsChange ==
  ASSUME BackupInv, backups' \in Seq(Dumps), Len(backups) <= Len(backups'),
         \A n \in 1 .. Len(backups) : backups'[n].format = backups[n].format,
         onDisk \subseteq onDisk', onDisk' \subseteq onDisk \union (Len(backups) + 1 .. Len(backups')),
         Len(backups) + 1 .. Len(backups') \subseteq onDisk',
         UNCHANGED <<old, listed, doomed, prune>>
  PROVE  BackupInv'
<1> DEFINE N == Len(backups)
           M == Len(backups')
<1>1. /\ backups \in Seq(Dumps) /\ N \in Nat /\ M \in Nat /\ N <= M
      /\ DOMAIN backups = 1 .. N /\ DOMAIN backups' = 1 .. M
      /\ 1 .. N \subseteq 1 .. M /\ N + 1 .. M \subseteq 1 .. M
      /\ \A n \in 1 .. M : n \in 1 .. N \/ n \in N + 1 .. M
  <2>1. backups \in Seq(Dumps)
    BY DEF BackupInv
  <2>2. N \in Nat /\ M \in Nat /\ N <= M
    BY <2>1
  <2> HIDE DEF N, M
  <2>3. /\ 1 .. N \subseteq 1 .. M /\ N + 1 .. M \subseteq 1 .. M
        /\ \A n \in 1 .. M : n \in 1 .. N \/ n \in N + 1 .. M
    BY <2>2
  <2>4. DOMAIN backups = 1 .. N /\ DOMAIN backups' = 1 .. M
    BY <2>1 DEF N, M
  <2>. QED  BY <2>1, <2>2, <2>3, <2>4
<1>2. PICK k \in 0 .. N : old = 1 .. k
  BY DEF BackupInv
<1>3. /\ onDisk \subseteq 1 .. N
      /\ listed \in [Pruners -> SUBSET (1 .. N)] /\ doomed \in [Pruners -> SUBSET old]
      /\ prune \in [Pruners -> {"idle", "running", "ok", "thrown"}]
      /\ (1 .. N) \ onDisk \subseteq old
      /\ \A p \in Pruners : prune[p] = "ok" => doomed[p] \cap onDisk = {}
      /\ \A n \in 1 .. N : backups[n].format = "directory" => n .. N \subseteq onDisk
      /\ \A p \in Pruners :
           prune[p] = "running" =>
             /\ doomed[p] \cap onDisk \subseteq listed[p]
             /\ \A n \in 1 .. N : \A m \in doomed[p] :
                  backups[n].format = "directory" /\ n <= m => n \in doomed[p] \cap listed[p]
  BY <1>1 DEF BackupInv, PruneAccounted
<1> HIDE DEF N, M
<1>4. /\ onDisk' \subseteq 1 .. M /\ onDisk \subseteq onDisk' /\ N + 1 .. M \subseteq onDisk'
      /\ onDisk' \subseteq onDisk \union (N + 1 .. M)
  BY <1>1, <1>3 DEF N, M
<1>5. \A p \in Pruners : doomed[p] \subseteq 1 .. N /\ doomed[p] \subseteq old
  BY <1>1, <1>2, <1>3
<1>6. onDisk' \cap (1 .. N) = onDisk
  <2>1. \A n \in 1 .. N : n \notin N + 1 .. M
    BY <1>1
  <2>. QED  BY <1>3, <1>4, <2>1
<1>7. (1 .. M) \ onDisk' \subseteq old
  BY <1>1, <1>3, <1>4
<1>8. \A p \in Pruners : doomed[p] \cap onDisk' = doomed[p] \cap onDisk
  BY <1>5, <1>6
<1>9. \A n \in 1 .. M : backups'[n].format = "directory" => n .. M \subseteq onDisk'
  <2> SUFFICES ASSUME NEW n \in 1 .. M, backups'[n].format = "directory", NEW i \in n .. M
               PROVE  i \in onDisk'
    OBVIOUS
  <2>1. CASE i \in N + 1 .. M
    BY <1>4, <2>1
  <2>2. CASE i \notin N + 1 .. M
    <3>1. i \in 1 .. N /\ n \in 1 .. N /\ i \in n .. N
      BY <1>1, <2>2
    <3>2. backups[n].format = "directory"
      BY <3>1 DEF N
    <3>. QED  BY <1>3, <1>4, <3>1, <3>2
  <2>. QED  BY <2>1, <2>2
<1>10. ASSUME NEW p \in Pruners, prune[p] = "running", NEW n \in 1 .. M, NEW m \in doomed[p],
              backups'[n].format = "directory", n <= m
       PROVE  n \in doomed[p] \cap listed[p]
  <2>1. n \in 1 .. N
    <3>1. m \in 1 .. N
      BY <1>5
    <3>. QED  BY <1>1, <1>10, <3>1
  <2>2. backups[n].format = "directory"
    BY <1>10, <2>1 DEF N
  <2>. QED  BY <1>3, <1>10, <2>1, <2>2
<1>11. PruneAccounted'
  BY <1>1, <1>3, <1>7, <1>8, <1>9 DEF PruneAccounted, M
<1>12. k \in 0 .. M
  BY <1>1
<1>13. listed' \in [Pruners -> SUBSET (1 .. M)]
  BY <1>1, <1>3
<1>. QED  BY <1>2, <1>3, <1>4, <1>8, <1>10, <1>11, <1>12, <1>13 DEF BackupInv, M
\* The invariant, spelled out for a backup directory of n backups.
LEMMA BackupInvParts ==
  ASSUME BackupInv
  PROVE  /\ backups \in Seq(Dumps) /\ Len(backups) \in Nat
         /\ DOMAIN backups = 1 .. Len(backups)
         /\ onDisk \subseteq 1 .. Len(backups)
         /\ listed \in [Pruners -> SUBSET (1 .. Len(backups))]
         /\ doomed \in [Pruners -> SUBSET old] /\ old \subseteq 1 .. Len(backups)
         /\ prune \in [Pruners -> {"idle", "running", "ok", "thrown"}]
<1>1. backups \in Seq(Dumps)
  BY DEF BackupInv
<1>2. Len(backups) \in Nat /\ DOMAIN backups = 1 .. Len(backups)
  BY <1>1
<1>3. PICK k \in 0 .. Len(backups) : old = 1 .. k
  BY DEF BackupInv
<1>4. old \subseteq 1 .. Len(backups)
  BY <1>2, <1>3
<1>. QED  BY <1>1, <1>2, <1>4 DEF BackupInv

\* createBackup and the end of pg_dump.
LEMMA BackupsAreMade ==
  /\ BackupInv
  /\ \/ \E format \in Formats : \E compress \in BOOLEAN : CreateBackup(format, compress)
     \/ \E n \in DOMAIN backups : DumpEnds(n)
  => BackupInv'
<1>1. ASSUME BackupInv, NEW format \in Formats, NEW compress \in BOOLEAN,
             CreateBackup(format, compress)
      PROVE  BackupInv'
  <2> DEFINE new == [format |-> format, compress |-> compress, state |-> "writing"]
             n == Len(backups)
  <2>1. /\ backups' = Append(backups, new) /\ onDisk' = onDisk \union {n + 1}
        /\ UNCHANGED <<old, listed, doomed, prune>>
    BY <1>1 DEF CreateBackup
  <2>2. backups \in Seq(Dumps) /\ n \in Nat /\ onDisk \subseteq 1 .. n
    BY <1>1, BackupInvParts
  <2>3. new \in Dumps
    BY DEF Dumps
  <2> HIDE DEF new
  <2>4. /\ backups' \in Seq(Dumps) /\ Len(backups') = n + 1
        /\ \A i \in 1 .. n : backups'[i] = backups[i]
    BY <2>1, <2>2, <2>3
  <2>5. n + 1 .. Len(backups') = {n + 1} /\ n <= Len(backups')
    BY <2>2, <2>4
  <2>6. \A i \in 1 .. n : backups'[i].format = backups[i].format
    BY <2>4
  <2>7. /\ onDisk \subseteq onDisk' /\ onDisk' \subseteq onDisk \union (n + 1 .. Len(backups'))
        /\ n + 1 .. Len(backups') \subseteq onDisk'
    BY <2>1, <2>5
  <2>. QED  BY <1>1, <2>1, <2>4, <2>5, <2>6, <2>7, BackupsChange
<1>2. ASSUME BackupInv, NEW n \in DOMAIN backups, DumpEnds(n) PROVE BackupInv'
  <2>1. /\ backups \in Seq(Dumps) /\ Len(backups) \in Nat /\ n \in 1 .. Len(backups)
        /\ UNCHANGED <<onDisk, old, listed, doomed, prune>>
    BY <1>2, BackupInvParts DEF DumpEnds
  <2>2. PICK state \in {"complete", "broken"} : backups' = [backups EXCEPT ![n].state = state]
    BY <1>2 DEF DumpEnds
  <2> DEFINE b == [backups[n] EXCEPT !.state = state]
  <2>3. backups[n] \in Dumps
    BY <2>1
  <2>4. b \in Dumps /\ b.format = backups[n].format
    BY <2>3 DEF Dumps
  <2>5. backups' = [backups EXCEPT ![n] = b]
    BY <2>2
  <2> HIDE DEF b
  <2>6. /\ backups' \in Seq(Dumps) /\ Len(backups') = Len(backups)
        /\ \A i \in 1 .. Len(backups) : backups'[i].format = backups[i].format
    BY <2>1, <2>4, <2>5
  <2>7. Len(backups) + 1 .. Len(backups') = {} /\ Len(backups) <= Len(backups')
    BY <2>1, <2>6
  <2>. QED  BY <1>2, <2>1, <2>6, <2>7, BackupsChange
<1>. QED  BY <1>1, <1>2

\* One more backup is older than the cutoff.
LEMMA BackupAges == BackupInv /\ Ages => BackupInv'
<1> SUFFICES ASSUME BackupInv, Ages PROVE BackupInv'
  OBVIOUS
<1>1. PICK k \in 0 .. Len(backups) : old = 1 .. k
  BY DEF BackupInv
<1>2. PICK n \in DOMAIN backups : old = 1 .. n - 1 /\ old' = old \union {n}
  BY DEF Ages
<1>3. UNCHANGED <<backups, onDisk, listed, doomed, prune>>
  BY DEF Ages
<1>4. /\ backups \in Seq(Dumps) /\ Len(backups) \in Nat /\ DOMAIN backups = 1 .. Len(backups)
      /\ doomed \in [Pruners -> SUBSET old]
  BY BackupInvParts
<1>5. n \in 0 .. Len(backups) /\ old' = 1 .. n
  BY <1>2, <1>4
<1>6. doomed' \in [Pruners -> SUBSET old']
  BY <1>2, <1>3, <1>4
<1>7. PruneAccounted'
  BY <1>2, <1>3 DEF BackupInv, PruneAccounted
<1>. QED  BY <1>3, <1>5, <1>6, <1>7 DEF BackupInv

\* A prune begins: a directory among the backups it finds old is on disk.
LEMMA PruneBegins ==
  ASSUME BackupInv, NEW p \in Pruners, PruneOldBackups(p)
  PROVE  BackupInv'
<1>1. /\ backups \in Seq(Dumps) /\ Len(backups) \in Nat
      /\ DOMAIN backups = 1 .. Len(backups)
      /\ onDisk \subseteq 1 .. Len(backups)
      /\ listed \in [Pruners -> SUBSET (1 .. Len(backups))]
      /\ doomed \in [Pruners -> SUBSET old]
      /\ prune \in [Pruners -> {"idle", "running", "ok", "thrown"}]
  BY BackupInvParts
<1>2. /\ prune' = [prune EXCEPT ![p] = "running"]
      /\ listed' = [listed EXCEPT ![p] = onDisk]
      /\ doomed' = [doomed EXCEPT ![p] = onDisk \cap old]
      /\ UNCHANGED <<backups, onDisk, old>>
  BY DEF PruneOldBackups
<1>3. /\ listed' \in [Pruners -> SUBSET (1 .. Len(backups'))]
      /\ doomed' \in [Pruners -> SUBSET old']
      /\ prune' \in [Pruners -> {"idle", "running", "ok", "thrown"}]
  BY <1>1, <1>2
<1>4. PruneAccounted'
  BY <1>1, <1>2 DEF BackupInv, PruneAccounted
<1>5. ASSUME NEW n \in 1 .. Len(backups), NEW m \in onDisk \cap old,
             backups[n].format = "directory", n <= m
      PROVE  n \in onDisk \cap old
  <2>1. PICK k \in 0 .. Len(backups) : old = 1 .. k
    BY DEF BackupInv
  <2>2. m \in 1 .. k /\ n \in n .. Len(backups)
    BY <1>1, <2>1
  <2>3. n \in 1 .. k
    BY <1>1, <1>5, <2>2
  <2>4. n \in onDisk
    BY <1>1, <1>5, <2>2 DEF BackupInv, PruneAccounted
  <2>. QED  BY <2>1, <2>3, <2>4
<1>6. ASSUME NEW q \in Pruners, prune'[q] = "running"
      PROVE  /\ doomed'[q] \cap onDisk' \subseteq listed'[q]
             /\ \A n \in 1 .. Len(backups') : \A m \in doomed'[q] :
                  backups'[n].format = "directory" /\ n <= m => n \in doomed'[q] \cap listed'[q]
  <2>1. CASE q = p
    BY <1>1, <1>2, <1>5, <2>1
  <2>2. CASE q # p
    BY <1>1, <1>2, <1>6, <2>2 DEF BackupInv
  <2>. QED  BY <2>1, <2>2
<1>. QED  BY <1>2, <1>3, <1>4, <1>6 DEF BackupInv
\* A prune visits its next file: what it deletes is no directory, and has none
\* before it, or that would still be ahead.
LEMMA PruneVisits ==
  ASSUME BackupInv, NEW p \in Pruners, Visit(p)
  PROVE  BackupInv'
<1>1. /\ backups \in Seq(Dumps) /\ Len(backups) \in Nat
      /\ DOMAIN backups = 1 .. Len(backups)
      /\ onDisk \subseteq 1 .. Len(backups)
      /\ listed \in [Pruners -> SUBSET (1 .. Len(backups))]
      /\ doomed \in [Pruners -> SUBSET old] /\ old \subseteq 1 .. Len(backups)
      /\ prune \in [Pruners -> {"idle", "running", "ok", "thrown"}]
  BY BackupInvParts
<1>2. PICK n \in listed[p] :
        /\ prune[p] = "running"
        /\ \A m \in listed[p] : n <= m
        /\ IF Refused(p, n)
           THEN prune' = [prune EXCEPT ![p] = "thrown"] /\ UNCHANGED <<onDisk, listed>>
           ELSE /\ onDisk' = onDisk \ (doomed[p] \cap {n})
                /\ listed' = [listed EXCEPT ![p] = @ \ {n}]
                /\ UNCHANGED prune
        /\ UNCHANGED <<backups, old, doomed>>
  BY DEF Visit
<1>3. n \in 1 .. Len(backups)
  BY <1>1, <1>2
<1>4. CASE Refused(p, n)
  <2>1. prune' = [prune EXCEPT ![p] = "thrown"]
        /\ UNCHANGED <<onDisk, listed, backups, old, doomed>>
    BY <1>2, <1>4
  <2>2. /\ prune' \in [Pruners -> {"idle", "running", "ok", "thrown"}]
        /\ \A q \in Pruners : prune'[q] \in {"running", "ok"} => prune'[q] = prune[q]
    BY <1>1, <2>1
  <2>3. PruneAccounted'
    BY <2>1, <2>2 DEF BackupInv, PruneAccounted
  <2>. QED  BY <2>1, <2>2, <2>3 DEF BackupInv
<1>5. CASE ~ Refused(p, n)
  <2>1. /\ onDisk' = onDisk \ (doomed[p] \cap {n})
        /\ listed' = [listed EXCEPT ![p] = @ \ {n}]
        /\ UNCHANGED <<prune, backups, old, doomed>>
    BY <1>2, <1>5
  <2>2. n \in doomed[p] => backups[n].format # "directory"
    BY <1>5 DEF Refused
  <2>3. /\ onDisk' \subseteq onDisk /\ onDisk \ onDisk' \subseteq old
        /\ listed' \in [Pruners -> SUBSET (1 .. Len(backups))]
        /\ listed'[p] = listed[p] \ {n}
        /\ \A q \in Pruners \ {p} : listed'[q] = listed[q]
    BY <1>1, <2>1
  <2>4. ASSUME NEW d \in 1 .. Len(backups), backups[d].format = "directory", n \in doomed[p]
        PROVE  n < d
    <3>1. CASE d <= n
      <4>1. d \in listed[p]
        BY <1>2, <2>4, <3>1 DEF BackupInv
      <4>2. n <= d
        BY <1>2, <4>1
      <4>3. n = d
        BY <1>3, <3>1, <4>2
      <4>. QED  BY <2>2, <2>4, <4>3
    <3>. QED  BY <1>3, <3>1
  <2>5. PruneAccounted'
    <3>1. DOMAIN backups' \ onDisk' \subseteq old'
      BY <2>1, <2>3 DEF BackupInv, PruneAccounted
    <3>2. \A q \in Pruners : prune'[q] = "ok" => doomed'[q] \cap onDisk' = {}
      BY <2>1, <2>3 DEF BackupInv, PruneAccounted
    <3>3. ASSUME NEW d \in 1 .. Len(backups), backups[d].format = "directory",
                 NEW i \in d .. Len(backups)
          PROVE  i \in onDisk'
      <4>1. i \in onDisk
        BY <1>1, <3>3 DEF BackupInv, PruneAccounted
      <4>2. n \in doomed[p] => i # n
        BY <1>3, <2>4, <3>3
      <4>. QED  BY <2>1, <4>1, <4>2
    <3>4. \A d \in DOMAIN backups' : backups'[d].format = "directory" =>
            d .. Len(backups') \subseteq onDisk'
      BY <1>1, <2>1, <3>3
    <3>. QED  BY <3>1, <3>2, <3>4 DEF PruneAccounted
  <2>6. ASSUME NEW q \in Pruners, prune[q] = "running"
        PROVE  /\ doomed[q] \cap onDisk' \subseteq listed'[q]
               /\ \A d \in 1 .. Len(backups) : \A m \in doomed[q] :
                    backups[d].format = "directory" /\ d <= m => d \in doomed[q] \cap listed'[q]
    <3>1. /\ doomed[q] \cap onDisk \subseteq listed[q]
          /\ \A d \in 1 .. Len(backups) : \A m \in doomed[q] :
               backups[d].format = "directory" /\ d <= m => d \in doomed[q] \cap listed[q]
      BY <2>6 DEF BackupInv
    <3>2. CASE q = p
      <4>1. doomed[p] \cap onDisk' \subseteq listed'[p]
        BY <2>1, <2>3, <3>1, <3>2
      <4>2. \A d \in 1 .. Len(backups) : d \in doomed[p] /\ backups[d].format = "directory" => d # n
        BY <2>2
      <4>. QED  BY <2>3, <3>1, <3>2, <4>1, <4>2
    <3>3. CASE q # p
      BY <2>3, <3>1, <3>3
    <3>. QED  BY <3>2, <3>3
  <2>7. \E k \in 0 .. Len(backups) : old = 1 .. k
    BY DEF BackupInv
  <2>8. onDisk' \subseteq 1 .. Len(backups)
    BY <1>1, <2>3
  <2>. QED  BY <1>1, <2>1, <2>3, <2>5, <2>6, <2>7, <2>8 DEF BackupInv
<1>. QED  BY <1>4, <1>5

\* A prune that returns has visited every file it found.
LEMMA PruneEnds ==
  ASSUME BackupInv, NEW p \in Pruners, PruneReturns(p)
  PROVE  BackupInv'
<1>1. /\ prune \in [Pruners -> {"idle", "running", "ok", "thrown"}]
      /\ prune[p] = "running" /\ listed[p] = {} /\ prune' = [prune EXCEPT ![p] = "ok"]
      /\ UNCHANGED <<backups, onDisk, old, listed, doomed>>
  BY DEF BackupInv, PruneReturns
<1>2. doomed[p] \cap onDisk = {}
  BY <1>1 DEF BackupInv
<1>3. /\ prune' \in [Pruners -> {"idle", "running", "ok", "thrown"}]
      /\ \A q \in Pruners : prune'[q] = "ok" => q = p \/ prune[q] = "ok"
      /\ \A q \in Pruners : prune'[q] = "running" => prune[q] = "running"
  BY <1>1
<1>4. PruneAccounted'
  BY <1>1, <1>2, <1>3 DEF BackupInv, PruneAccounted
<1>. QED  BY <1>1, <1>3, <1>4 DEF BackupInv

\* The invariant of the backup directory is inductive.
LEMMA BackupInduction ==
  /\ BackupInit => BackupInv
  /\ BackupInv /\ [BackupNext]_backupVars => BackupInv'
<1>1. ASSUME BackupInit PROVE BackupInv
  <2>1. /\ backups = <<>> /\ onDisk = {} /\ old = {}
        /\ listed = [p \in Pruners |-> {}] /\ doomed = [p \in Pruners |-> {}]
        /\ prune = [p \in Pruners |-> "idle"]
    BY <1>1 DEF BackupInit
  <2>2. backups \in Seq(Dumps) /\ Len(backups) = 0 /\ DOMAIN backups = {} /\ 1 .. 0 = {}
        /\ 0 \in 0 .. 0
    BY <2>1
  <2>. QED  BY <2>1, <2>2 DEF BackupInv, PruneAccounted
<1>2. BackupInv /\ UNCHANGED backupVars => BackupInv'
  BY DEF BackupInv, PruneAccounted, backupVars
<1>3. BackupInv /\ BackupNext => BackupInv'
  BY BackupsAreMade, BackupAges, PruneBegins, PruneVisits, PruneEnds DEF BackupNext
<1>. QED  BY <1>1, <1>2, <1>3

\* What the code reports of a backup, and what it can restore, is decided by the
\* backup's format, compression and state.
LEMMA BackupsRestore == BackupInv => BackupTypeOK /\ BackupsSound
<1> SUFFICES ASSUME BackupInv PROVE BackupTypeOK /\ BackupsSound
  OBVIOUS
<1>1. /\ backups \in Seq(Dumps) /\ Len(backups) \in Nat
      /\ DOMAIN backups = 1 .. Len(backups)
      /\ onDisk \subseteq 1 .. Len(backups)
      /\ listed \in [Pruners -> SUBSET (1 .. Len(backups))]
      /\ doomed \in [Pruners -> SUBSET old] /\ old \subseteq 1 .. Len(backups)
      /\ prune \in [Pruners -> {"idle", "running", "ok", "thrown"}]
  BY BackupInvParts
<1>2. \A n \in DOMAIN backups : backups[n] \in Dumps
  BY <1>1
<1>3. BackupTypeOK
  BY <1>1, <1>2 DEF BackupTypeOK, Dumps
<1>4. ASSUME NEW b \in Dumps
      PROVE  LET sound == b.format = "custom" \/ (b.format = "plain" /\ ~ b.compress)
             IN  /\ Reported(b) /\ sound => "restored" \in RestoreResults(b)
                 /\ ~ sound => "restored" \notin RestoreResults(b)
                 /\ b.format = "custom" => "misled" \notin RestoreResults(b)
  <2>1. /\ b.format \in {"plain", "custom", "directory", "tar"}
        /\ b.state \in {"writing", "complete", "broken"}
    BY DEF Dumps, Formats
  <2>2. CASE b.format = "custom"
    <3>1. Extension(b) = ".dump"
      BY <2>2 DEF Extension
    <3>2. RestoreResults(b) = IF b.state = "complete" THEN {"restored", "failed"} ELSE {"failed"}
      BY <2>2, <3>1 DEF RestoreResults
    <3>3. Reported(b) => b.state = "complete"
      BY <2>2 DEF Reported
    <3>. QED  BY <2>2, <3>2, <3>3
  <2>3. CASE b.format # "custom" /\ b.compress
    <3>1. Extension(b) = ".gz"
      BY <2>3 DEF Extension
    <3>2. RestoreResults(b) = {"misled", "failed"}
      BY <3>1 DEF RestoreResults
    <3>. QED  BY <2>3, <3>2
  <2>4. CASE b.format # "custom" /\ ~ b.compress
    <3>1. Extension(b) = ".sql"
      BY <2>4 DEF Extension
    <3>2. CASE b.format = "plain" /\ b.state = "complete"
      <4>1. RestoreResults(b) = {"restored", "misled", "failed"}
        BY <3>1, <3>2 DEF RestoreResults
      <4>. QED  BY <2>4, <3>2, <4>1
    <3>3. CASE ~ (b.format = "plain" /\ b.state = "complete")
      <4>1. RestoreResults(b) = {"misled", "failed"}
        BY <3>1, <3>3 DEF RestoreResults
      <4>2. ~ (Reported(b) /\ b.format = "plain")
        BY <2>4, <3>3 DEF Reported
      <4>. QED  BY <2>4, <4>1, <4>2
    <3>. QED  BY <3>2, <3>3
  <2>. QED  BY <2>2, <2>3, <2>4
<1>5. ReportedIsRestorable
  BY <1>2, <1>4 DEF ReportedIsRestorable
<1>. QED  BY <1>3, <1>5 DEF BackupsSound, BackupInv

\* The invariant of the templates is inductive.
LEMMA TemplatesInduction ==
  /\ TemplatesInit => TemplatesInv
  /\ TemplatesInv /\ [TemplatesNext]_templateVars => TemplatesInv'
<1> USE TemplatesAssumption DEF TemplatesInv, TemplatesTypeOK, CacheIsRecent
<1>1. TemplatesInit => TemplatesInv
  BY DEF TemplatesInit, Missing, Nothing
<1>2. ASSUME TemplatesInv, [TemplatesNext]_templateVars PROVE TemplatesInv'
  <2>1. ASSUME NEW n \in Names, NEW html \in Sources, NEW text, RegisterTemplate(n, html, text)
        PROVE  TemplatesInv'
    BY <1>2, <2>1 DEF RegisterTemplate, Nothing
  <2>2. ASSUME NEW n \in Names, NEW variables, RenderEmail(n, variables)
        PROVE  TemplatesInv'
    BY <1>2, <2>2 DEF RenderEmail
  <2>3. ASSUME NEW n \in Names, NEW variables, RenderTemplateFile(n, variables)
        PROVE  TemplatesInv'
    BY <1>2, <2>3 DEF RenderTemplateFile, LoadTemplate
  <2>4. ASSUME NEW n \in Names, NEW s \in Sources, EditFile(n, s) PROVE TemplatesInv'
    BY <1>2, <2>4 DEF EditFile, Nothing
  <2>5. CASE LoadTemplatesFromDirectory
    BY <1>2, <2>5 DEF LoadTemplatesFromDirectory, Nothing
  <2>6. CASE ClearTemplateCache
    BY <1>2, <2>6 DEF ClearTemplateCache, Nothing
  <2>7. CASE UNCHANGED templateVars
    BY <1>2, <2>7 DEF templateVars
  <2>. QED  BY <1>2, <2>1, <2>2, <2>3, <2>4, <2>5, <2>6, <2>7 DEF TemplatesNext
<1>. QED  BY <1>1, <1>2
-----------------------------------------------------------------------------
(* Billing.                                                                *)

\* A rounded amount is a whole, and a nearest one.
LEMMA RoundIsInt == ASSUME NEW x \in Int PROVE Round(x, 100) \in Int /\ Round(x, 10000) \in Int
BY DEF Round

LEMMA RoundIsNearest ==
  ASSUME NEW x \in Int
  PROVE  /\ 200 * Round(x, 100) <= 2 * x + 100 /\ 2 * x + 100 < 200 * Round(x, 100) + 200
         /\ 20000 * Round(x, 10000) <= 2 * x + 10000
         /\ 2 * x + 10000 < 20000 * Round(x, 10000) + 20000
BY DEF Round

\* The exact subtotal is an integer, in hundredths of a cent.
LEMMA SubtotalIsInt ==
  ASSUME NEW items \in Seq(ItemRecords)
  PROVE  Subtotal(items) \in Int
<1> DEFINE f == [k \in DOMAIN items |-> Amount(items[k])]
<1>1. Subtotal(items) = SumFunctionOnSet(f, DOMAIN items)
  BY DEF Subtotal, SumFunction
<1>2. IsFiniteSet(DOMAIN items)
      /\ \A k \in DOMAIN items : items[k] \in ItemRecords
  <2> HIDE DEF f
  <2>1. DOMAIN items = 1 .. Len(items) /\ Len(items) \in Nat
        /\ \A k \in 1 .. Len(items) : items[k] \in ItemRecords
    OBVIOUS
  <2>. QED  BY <2>1, FS_Interval
<1>3. ASSUME NEW k \in DOMAIN items PROVE f[k] \in Int
  <2>1. items[k] \in ItemRecords
    BY <1>2
  <2>2. \A a, b, c \in Int : a * b * (100 - c) \in Int
    OBVIOUS
  <2>3. ASSUME NEW i \in ItemRecords
        PROVE  Amount(i) \in Int
    <3>1. i.quantity \in Int /\ i.unitPrice \in Int /\ i.discount \in Int
      BY DEF ItemRecords
    <3>. QED  BY <2>2, <3>1 DEF Amount
  <2>. QED  BY <2>1, <2>3
<1> HIDE DEF f
<1>. QED  BY <1>1, <1>2, <1>3, SumRules

\* An invoice and its discounted form are records of the amounts they should be.
LEMMA InvoiceIsCalculated ==
  ASSUME NEW c \in Payers, NEW r \in Nat,
         NEW items \in Seq(ItemRecords)
  PROVE  Invoice(c, items, r) \in InvoiceRecords /\ Calculated(Invoice(c, items, r))
<1> DEFINE s == Subtotal(items)
           tax == s * r
           exact == 100 * s + tax
<1>1. s \in Int /\ tax \in Int /\ exact \in Int
  BY SubtotalIsInt
<1>2. Invoice(c, items, r) =
        [customer |-> c, taxRate |-> r, status |-> "draft",
         subtotal |-> Round(s, 100), taxAmount |-> Round(tax, 10000),
         total |-> Round(exact, 10000), discounted |-> FALSE]
  BY DEF Invoice
<1> HIDE DEF s, tax, exact
<1>3. Round(s, 100) \in Int /\ Round(tax, 10000) \in Int /\ Round(exact, 10000) \in Int
  <2>1. s \in Int
    BY <1>1
  <2>2. tax \in Int
    BY <1>1
  <2>3. exact \in Int
    BY <1>1
  <2>4. Round(s, 100) \in Int
    BY <2>1, RoundIsInt
  <2>5. Round(tax, 10000) \in Int
    BY <2>2, RoundIsInt
  <2>6. Round(exact, 10000) \in Int
    BY <2>3, RoundIsInt
  <2>. QED  BY <2>4, <2>5, <2>6
<1>4. Invoice(c, items, r) \in InvoiceRecords
  BY <1>2, <1>3 DEF InvoiceRecords
<1>. QED  BY <1>1, <1>2, <1>4 DEF Calculated, tax, exact

Discounted(a, d) ==
  IF d.type = "percentage" THEN Round(a * (100 - d.value), 100) ELSE Max({0, a - d.value})

LEMMA DiscountIsCalculated ==
  ASSUME NEW i \in InvoiceRecords, NEW d \in Discounts
  PROVE  /\ ApplyDiscount(i, d) \in InvoiceRecords /\ Calculated(ApplyDiscount(i, d))
         /\ Discounted(i.subtotal, d) \in Int
         /\ ApplyDiscount(i, d).total =
              Discounted(i.subtotal, d) + Round(Discounted(i.subtotal, d) * i.taxRate, 100)
<1> DEFINE b == Discounted(i.subtotal, d)
           t == Round(b * i.taxRate, 100)
<1>1. d.value \in Nat /\ i.subtotal \in Int /\ i.taxRate \in Nat
  BY BillingAssumption DEF InvoiceRecords
<1>2. b \in Int
  <2>1. Round(i.subtotal * (100 - d.value), 100) \in Int
    <3>1. i.subtotal * (100 - d.value) \in Int
      BY <1>1
    <3>. QED  BY <3>1, RoundIsInt
  <2>2. Max({0, i.subtotal - d.value}) \in Int
    <3>1. i.subtotal - d.value \in Int
      BY <1>1
    <3>. QED  BY <3>1, MaxWithZero
  <2>. QED  BY <2>1, <2>2, Zenon DEF Discounted
<1>3. ApplyDiscount(i, d) = [i EXCEPT !.subtotal = b, !.taxAmount = t, !.total = b + t,
                                      !.discounted = TRUE]
  BY DEF ApplyDiscount, Discounted
<1> HIDE DEF b
<1>4. t \in Int
  <2>1. b * i.taxRate \in Int
    BY <1>1, <1>2
  <2>. QED  BY <2>1, RoundIsInt
<1>5. b + t \in Int
  BY <1>2, <1>4
<1> DEFINE j == [i EXCEPT !.subtotal = b, !.taxAmount = t, !.total = b + t, !.discounted = TRUE]
<1>6. j \in InvoiceRecords /\ j.subtotal = b /\ j.taxAmount = t /\ j.total = b + t /\ j.discounted
      /\ j.taxRate = i.taxRate
  <2> HIDE DEF t
  <2>. QED  BY <1>2, <1>4, <1>5 DEF InvoiceRecords
<1>. QED  BY <1>2, <1>3, <1>6 DEF Calculated, b

\* A discount of up to 100 percent takes from nothing to the whole subtotal.
LEMMA DiscountTakesSome ==
  ASSUME NEW a \in Nat, NEW d \in Discounts, d.type = "percentage" => d.value <= 100
  PROVE  Discounted(a, d) \in 0 .. a
<1>1. d.value \in Nat
  BY BillingAssumption
<1>2. CASE d.type = "percentage"
  <2> DEFINE p == 100 - d.value
             x == a * p
             b == Round(x, 100)
  <2>1. p \in Nat /\ p <= 100 /\ 100 \in Nat
    BY <1>1, <1>2
  <2> HIDE DEF p
  <2>2. p * a \in Nat /\ p * a <= 100 * a /\ a * p = p * a
    BY <2>1, ProductGrows
  <2>3. x \in Nat /\ x <= 100 * a
    BY <2>2
  <2> HIDE DEF x
  <2>4. x \in Int
    BY <2>3
  <2>5. b \in Int
    BY <2>4, RoundIsInt
  <2>6. 200 * b <= 2 * x + 100 /\ 2 * x + 100 < 200 * b + 200
    BY <2>4, RoundIsNearest
  <2> HIDE DEF b
  <2>7. b \in 0 .. a
    BY <2>3, <2>5, <2>6
  <2>. QED  BY <1>2, <2>7 DEF Discounted, b, x, p
<1>3. CASE d.type # "percentage"
  <2>1. a - d.value \in Int
    BY <1>1
  <2>2. Max({0, a - d.value}) = IF a - d.value > 0 THEN a - d.value ELSE 0
    BY <2>1, MaxWithZero
  <2>3. Discounted(a, d) = IF a - d.value > 0 THEN a - d.value ELSE 0
    BY <1>3, <2>2 DEF Discounted
  <2>. QED  BY <1>1, <2>3
<1>. QED  BY <1>2, <1>3

\* A discounted total is bounded by what it is computed from.
LEMMA DiscountedTotal ==
  ASSUME NEW i \in InvoiceRecords, i.subtotal >= 0,
         200 * i.subtotal + 2 * (i.subtotal * i.taxRate) < 200 * i.total + 300,
         NEW d \in Discounts, d.type = "percentage" => d.value <= 100
  PROVE  ApplyDiscount(i, d).total \in 0 .. i.total + 1
<1> DEFINE a == i.subtotal
           r == i.taxRate
           b == Discounted(a, d)
           t == Round(b * r, 100)
<1>1. a \in Nat /\ r \in Nat /\ i.total \in Int
  BY DEF InvoiceRecords
<1>2. b \in 0 .. a
  <2>1. a \in Nat
    BY <1>1
  <2> HIDE DEF a
  <2>. QED  BY <2>1, DiscountTakesSome
<1>3. ApplyDiscount(i, d).total = b + t
  BY DiscountIsCalculated
<1> HIDE DEF a, r, b
<1>4. b \in Nat /\ b <= a
  BY <1>1, <1>2
<1>5. b * r \in Nat /\ a * r \in Nat /\ b * r <= a * r
  BY <1>1, <1>4, ProductGrows
<1>6. 200 * a + 2 * (a * r) < 200 * i.total + 300
  BY DEF a, r
<1> DEFINE p == b * r
           q == a * r
<1>7. p \in Nat /\ q \in Nat /\ p <= q /\ 200 * a + 2 * q < 200 * i.total + 300
  BY <1>5, <1>6
<1>8. t = Round(p, 100)
  OBVIOUS
<1> HIDE DEF p, q, t
<1>9. p \in Int
  BY <1>7
<1>10. t \in Int
  BY <1>8, <1>9, RoundIsInt
<1>11. 200 * t <= 2 * p + 100 /\ 2 * p + 100 < 200 * t + 200
  BY <1>8, <1>9, RoundIsNearest
<1>12. t >= 0 /\ b + t >= 0
  BY <1>4, <1>7, <1>10, <1>11
<1>13. b + t <= i.total + 1
  BY <1>1, <1>4, <1>7, <1>10, <1>11
<1>. QED  BY <1>1, <1>3, <1>4, <1>10, <1>12, <1>13

\* The total of an invoice differs from its parts by a cent at most; a discount
\* raises it by no more, unless it was negative or taxed above 100 percent.
LEMMA InvoiceAddsUp ==
  ASSUME NEW i \in InvoiceRecords, Calculated(i)
  PROVE  /\ i.total - (i.subtotal + i.taxAmount) \in -1 .. 1
         /\ i.discounted => i.total - (i.subtotal + i.taxAmount) = 0
         /\ i.taxRate <= 100 =>
              200 * i.subtotal + 2 * (i.subtotal * i.taxRate) < 200 * i.total + 300
<1> DEFINE a == i.subtotal
           r == i.taxRate
           t == i.taxAmount
           T == i.total
           q == a * r
<1>1. /\ a \in Int /\ r \in Nat /\ t \in Int /\ T \in Int /\ q \in Int
  BY DEF InvoiceRecords
<1>2. CASE i.discounted
  <2>1. t = Round(q, 100) /\ T = a + t
    BY <1>2 DEF Calculated
  <2> HIDE DEF a, r, t, T, q
  <2>2. q \in Int
    BY <1>1
  <2>3. 200 * t <= 2 * q + 100 /\ 2 * q + 100 < 200 * t + 200
    BY <2>1, <2>2, RoundIsNearest
  <2>4. T - (a + t) = 0 /\ 200 * a + 2 * q < 200 * T + 300
    BY <1>1, <2>1, <2>3
  <2>. QED  BY <2>4 DEF a, r, t, T, q
<1>3. CASE ~ i.discounted
  <2>1. PICK s \in Int : a = Round(s, 100) /\ t = Round(s * r, 10000)
                         /\ T = Round(100 * s + s * r, 10000)
    BY <1>3 DEF Calculated
  <2> DEFINE p == s * r
             x == 100 * s + p
  <2> HIDE DEF a, r, t, T
  <2>2. p \in Int
    BY <1>1
  <2>3. t = Round(p, 10000) /\ T = Round(x, 10000) /\ x = 100 * s + p
    BY <2>1
  <2>4. 200 * a <= 2 * s + 100 /\ 2 * s + 100 < 200 * a + 200
    BY <2>1, RoundIsNearest
  <2>5. r <= 100 => 200 * q <= 2 * p + 10000
    <3>1. ASSUME r <= 100 PROVE 200 * q <= 2 * p + 10000
      <4> DEFINE u == 2 * s + 100 - 200 * a
      <4>1. u \in Nat
        BY <1>1, <2>4
      <4>2. u * r \in Nat
        BY <1>1, <4>1
      <4>3. u * r = 2 * p + 100 * r - 200 * q
        BY <1>1 DEF q
      <4> HIDE DEF u, p, q
      <4>. QED  BY <1>1, <2>2, <3>1, <4>2, <4>3
    <3>. QED  BY <3>1
  <2> HIDE DEF p, q, x
  <2>6. x \in Int
    BY <2>2, <2>3
  <2>7. 20000 * t <= 2 * p + 10000 /\ 2 * p + 10000 < 20000 * t + 20000
    BY <2>2, <2>3, RoundIsNearest
  <2>8. 20000 * T <= 2 * x + 10000 /\ 2 * x + 10000 < 20000 * T + 20000
    BY <2>3, <2>6, RoundIsNearest
  <2>9. T - (a + t) \in -1 .. 1
    BY <1>1, <2>2, <2>3, <2>4, <2>7, <2>8
  <2>10. r <= 100 => 200 * a + 2 * q < 200 * T + 300
    BY <1>1, <2>2, <2>3, <2>4, <2>5, <2>8
  <2>. QED  BY <1>3, <2>9, <2>10 DEF a, r, t, T, q
<1>. QED  BY <1>2, <1>3

\* So the inductive invariant has the invoices add up.
LEMMA InvoicesDoAddUp == BillingInv => InvoicesAddUp
<1> SUFFICES ASSUME BillingInv, NEW n \in DOMAIN invoices
             PROVE  LET i == invoices[n]
                        gap == i.total - (i.subtotal + i.taxAmount)
                    IN  /\ gap \in -1 .. 1 /\ (i.discounted => gap = 0)
                        /\ i.subtotal >= 0 /\ i.taxRate <= 100 =>
                             \A d \in Discounts : (d.type = "percentage" => d.value <= 100) =>
                               ApplyDiscount(i, d).total \in 0 .. i.total + 1
  BY DEF InvoicesAddUp
<1> DEFINE i == invoices[n]
<1>1. i \in InvoiceRecords /\ Calculated(i)
  BY DEF BillingInv
<1> HIDE DEF i
<1>2. /\ i.total - (i.subtotal + i.taxAmount) \in -1 .. 1
      /\ i.discounted => i.total - (i.subtotal + i.taxAmount) = 0
  BY <1>1, InvoiceAddsUp
<1>3. ASSUME i.subtotal >= 0, i.taxRate <= 100, NEW d \in Discounts,
             d.type = "percentage" => d.value <= 100
      PROVE  ApplyDiscount(i, d).total \in 0 .. i.total + 1
  <2>1. 200 * i.subtotal + 2 * (i.subtotal * i.taxRate) < 200 * i.total + 300
    BY <1>1, <1>3, InvoiceAddsUp
  <2>. QED  BY <1>1, <1>3, <2>1, DiscountedTotal
<1>. QED  BY <1>2, <1>3 DEF i

\* The invariant of the invoices and payments is inductive.
LEMMA BillingInduction ==
  /\ BillingInit => BillingInv
  /\ BillingInv /\ [BillingNext]_billingVars => BillingInv'
<1>0. MaxInvoices \in Nat /\ MaxPayments \in Nat
  BY BillingAssumption
<1>1. ASSUME BillingInit PROVE BillingInv
  <2>1. invoices = <<>> /\ payments = <<>>
    BY <1>1 DEF BillingInit
  <2>. QED  BY <1>0, <2>1 DEF BillingInv
<1>2. ASSUME BillingInv, GenerateInvoice PROVE BillingInv'
  <2>1. PICK c \in Payers, items \in LineItems, rate \in TaxRates, more \in LineItems \union {<<>>} :
          invoices' = Append(invoices, Invoice(c, items \o more, rate))
    BY <1>2 DEF GenerateInvoice
  <2>2. rate \in Nat /\ items \o more \in Seq(ItemRecords)
    <3>1. <<>> \in Seq(ItemRecords)
      OBVIOUS
    <3>2. rate \in Nat /\ items \in Seq(ItemRecords) /\ more \in Seq(ItemRecords)
      BY <3>1, BillingAssumption, Zenon
    <3>. QED  BY <3>2
  <2>3. invoices \in Seq(InvoiceRecords) /\ Len(invoices) < MaxInvoices /\ payments' = payments
    BY <1>2 DEF BillingInv, GenerateInvoice
  <2> DEFINE i == Invoice(c, items \o more, rate)
  <2>5. i \in InvoiceRecords /\ Calculated(i)
    BY <2>2, InvoiceIsCalculated
  <2> HIDE DEF i
  <2>6. invoices' = Append(invoices, i)
    BY <2>1 DEF i
  <2>7. /\ invoices' \in Seq(InvoiceRecords) /\ Len(invoices') <= MaxInvoices
        /\ DOMAIN invoices' = 1 .. Len(invoices) + 1 /\ invoices'[Len(invoices) + 1] = i
        /\ \A n \in DOMAIN invoices : invoices'[n] = invoices[n]
    BY <1>0, <2>3, <2>5, <2>6
  <2>8. \A n \in DOMAIN invoices' : n \in DOMAIN invoices \/ n = Len(invoices) + 1
    BY <2>3, <2>7
  <2>9. \A n \in DOMAIN invoices' : Calculated(invoices'[n])
    BY <1>2, <2>5, <2>7, <2>8 DEF BillingInv
  <2>. QED  BY <1>2, <2>3, <2>7, <2>9 DEF BillingInv, Calculated
<1>3. ASSUME BillingInv, NEW n \in DOMAIN invoices, NEW i \in InvoiceRecords, Calculated(i),
             invoices' = [invoices EXCEPT ![n] = i], payments' = payments
      PROVE  BillingInv'
  <2>1. invoices \in Seq(InvoiceRecords)
    BY <1>3 DEF BillingInv
  <2>2. /\ invoices' \in Seq(InvoiceRecords) /\ Len(invoices') = Len(invoices)
        /\ DOMAIN invoices' = DOMAIN invoices /\ invoices'[n] = i
        /\ \A m \in DOMAIN invoices \ {n} : invoices'[m] = invoices[m]
    BY <1>3, <2>1
  <2>3. \A m \in DOMAIN invoices' : Calculated(invoices'[m])
    BY <1>3, <2>2 DEF BillingInv
  <2>. QED  BY <1>3, <2>2, <2>3 DEF BillingInv, Calculated
<1>4. ASSUME BillingInv, NEW n \in DOMAIN invoices, Discounting(n) PROVE BillingInv'
  <2>1. PICK d \in Discounts : invoices' = [invoices EXCEPT ![n] = ApplyDiscount(@, d)]
    BY <1>4 DEF Discounting
  <2>2. invoices[n] \in InvoiceRecords
    BY <1>4 DEF BillingInv
  <2>3. /\ ApplyDiscount(invoices[n], d) \in InvoiceRecords
        /\ Calculated(ApplyDiscount(invoices[n], d))
    BY <2>2, DiscountIsCalculated
  <2>4. invoices' = [invoices EXCEPT ![n] = ApplyDiscount(invoices[n], d)] /\ payments' = payments
    BY <1>4, <2>1 DEF Discounting
  <2>. QED  BY <1>3, <1>4, <2>3, <2>4
<1>5. ASSUME BillingInv, NEW n \in DOMAIN invoices, SetPaid(n) PROVE BillingInv'
  <2> DEFINE i == invoices[n]
             j == [i EXCEPT !.status = "paid"]
  <2>1. i \in InvoiceRecords /\ Calculated(i)
    BY <1>5 DEF BillingInv
  <2>2. invoices' = [invoices EXCEPT ![n] = j] /\ payments' = payments
    BY <1>5 DEF SetPaid
  <2> HIDE DEF i
  <2>3. j \in InvoiceRecords /\ Calculated(j)
    BY <2>1 DEF InvoiceRecords, Calculated
  <2> HIDE DEF j
  <2>. QED  BY <1>3, <1>5, <2>2, <2>3
<1>6. ASSUME BillingInv, NEW n \in 0 .. Len(invoices), NEW amount \in Amounts,
             RecordPayment(n, amount)
      PROVE  BillingInv'
  <2> DEFINE p == [invoice |-> n, amount |-> amount]
  <2>1. /\ payments' = Append(payments, p) /\ invoices' = invoices
        /\ Len(payments) < MaxPayments
    BY <1>6 DEF RecordPayment
  <2>2. p \in [invoice : Nat, amount : Int]
    <3>1. n \in Nat /\ amount \in Int
      BY <1>6, BillingAssumption DEF BillingInv
    <3>. QED  BY <3>1
  <2> HIDE DEF p
  <2>3. payments \in Seq([invoice : Nat, amount : Int])
    BY <1>6 DEF BillingInv
  <2>4. payments' \in Seq([invoice : Nat, amount : Int]) /\ Len(payments') <= MaxPayments
    BY <1>0, <2>1, <2>2, <2>3
  <2>. QED  BY <1>6, <2>1, <2>4 DEF BillingInv
<1>7. ASSUME BillingInv, UNCHANGED billingVars PROVE BillingInv'
  BY <1>7 DEF BillingInv, billingVars
<1>. QED  BY <1>1, <1>2, <1>4, <1>5, <1>6, <1>7 DEF BillingNext

\* Whom the report lists.
LEMMA TopIsListed ==
  ASSUME IsFiniteSet(Paying), \A c \in Paying : RevenueOf(c) \in Int,
         \A n \in Paid : n \in Int
  PROVE  LET top == GenerateBillingReport.topCustomers
         IN  /\ DOMAIN top \subseteq Paying /\ \A c \in DOMAIN top : top[c] = RevenueOf(c)
             /\ \A c \in DOMAIN top : \A d \in Paying \ DOMAIN top : top[c] >= RevenueOf(d)
             /\ Cardinality(Paying) <= MaxTop => top = [c \in Paying |-> RevenueOf(c)]
<1> DEFINE before(d) == {e \in Paying : Ahead(e, d)}
           T == {d \in Paying : Cardinality(before(d)) < MaxTop}
           top == GenerateBillingReport.topCustomers
<1>1. top = [c \in T |-> RevenueOf(c)]
  BY DEF GenerateBillingReport
<1>2. \A d : before(d) \subseteq Paying /\ IsFiniteSet(before(d)) /\ Cardinality(before(d)) \in Nat
  BY FS_Subset, FS_CardinalityType
<1>3. MaxTop \in Nat
  BY BillingAssumption
<1>4. ASSUME NEW c \in Paying, NEW d \in Paying, RevenueOf(d) > RevenueOf(c),
             Cardinality(before(c)) < MaxTop
      PROVE  Cardinality(before(d)) < MaxTop
  <2>1. ASSUME NEW e \in Paying, Ahead(e, d) PROVE Ahead(e, c)
    <3>1. RevenueOf(e) >= RevenueOf(d)
      BY <2>1 DEF Ahead
    <3>2. RevenueOf(e) > RevenueOf(c)
      BY <1>4, <3>1
    <3>. QED  BY <3>2 DEF Ahead
  <2>2. before(d) \subseteq before(c)
    BY <2>1
  <2>3. Cardinality(before(d)) <= Cardinality(before(c))
    BY <1>2, <2>2, FS_Subset
  <2> HIDE DEF before
  <2>. QED  BY <1>2, <1>3, <1>4, <2>3
<1>5. ASSUME NEW d \in Paying, Cardinality(Paying) <= MaxTop
      PROVE  Cardinality(before(d)) < MaxTop
  <2>1. ~ Ahead(d, d)
    <3>1. ~ (RevenueOf(d) > RevenueOf(d))
      OBVIOUS
    <3>. QED  BY <3>1 DEF Ahead
  <2>2. before(d) \subseteq Paying \ {d}
    BY <2>1
  <2>3. IsFiniteSet(Paying \ {d}) /\ Cardinality(Paying \ {d}) = Cardinality(Paying) - 1
    BY FS_RemoveElement
  <2>4. Cardinality(before(d)) <= Cardinality(Paying \ {d})
    BY <2>2, <2>3, FS_Subset
  <2>5. Cardinality(Paying) \in Nat
    BY FS_CardinalityType
  <2> HIDE DEF before
  <2>. QED  BY <1>2, <1>3, <1>5, <2>3, <2>4, <2>5
<1> HIDE DEF before
<1>6. ASSUME NEW c \in T, NEW d \in Paying \ T PROVE RevenueOf(c) >= RevenueOf(d)
  BY <1>4, <1>6
<1>7. Cardinality(Paying) <= MaxTop => T = Paying
  BY <1>5
<1>. QED  BY <1>1, <1>6, <1>7

\* Reconciliation and report are made of the same sums.
LEMMA ReportsDoAgree == BillingInv => ReportsAgree
<1> SUFFICES ASSUME BillingInv PROVE ReportsAgree
  OBVIOUS
<1> DEFINE D == DOMAIN invoices
           f == [n \in D |-> invoices[n].total]
           key == [n \in D |-> invoices[n].customer]
           P == Paid
           C == {invoices[n].customer : n \in P}
           Of(c) == {n \in P : invoices[n].customer = c}
           by == [c \in C |-> SumFunctionOnSet(f, Of(c))]
<1>1. IsFiniteSet(D) /\ \A n \in D : invoices[n] \in InvoiceRecords
  <2>1. /\ D = 1 .. Len(invoices) /\ Len(invoices) \in Nat
        /\ \A n \in D : invoices[n] \in InvoiceRecords
    BY DEF BillingInv
  <2>. QED  BY <2>1, FS_Interval
<1>2. P \in SUBSET D /\ IsFiniteSet(P)
  BY <1>1, FS_Subset DEF Paid
<1>3. \A n \in D : f[n] \in Int
  BY <1>1 DEF InvoiceRecords
<1>4. \A n \in P : f[n] \in Int
  BY <1>2, <1>3
<1>5. /\ Total(D) = SumFunctionOnSet(f, D) /\ Total(P) = SumFunctionOnSet(f, P)
      /\ \A c \in C : RevenueOf(c) = by[c]
  BY DEF Total, RevenueOf
<1>6. SumFunction(by) = SumFunctionOnSet(by, C)
  BY DEF SumFunction
<1>7. /\ GenerateBillingReport.totalRevenue = Total(P)
      /\ ReconcileAccounts.totalInvoiced = Total(D)
      /\ ReconcileAccounts.outstanding = Total(D) - Total(P)
  BY DEF GenerateBillingReport, ReconcileAccounts
<1>11. C = Paying /\ by = [c \in Paying |-> RevenueOf(c)]
  BY <1>5 DEF Paying
<1>12. IsFiniteSet(Paying) /\ \A c \in Paying : RevenueOf(c) \in Int
  <2>1. IsFiniteSet(C)
    <3>1. [n \in P |-> key[n]] \in Surjection(P, C)
      BY <1>2 DEF Surjection
    <3>. QED  BY <1>2, <3>1, FS_Surjection
  <2>2. ASSUME NEW c \in C PROVE by[c] \in Int
    <3>1. Of(c) \subseteq P /\ IsFiniteSet(Of(c)) /\ \A n \in Of(c) : f[n] \in Int
      BY <1>2, <1>4, FS_Subset
    <3> HIDE DEF f, Of
    <3>2. SumFunctionOnSet(f, Of(c)) \in Int
      BY <3>1, SumRules
    <3>. QED  BY <3>2
  <2> HIDE DEF D, f, key, P, C, Of, by
  <2>3. C = Paying /\ \A c \in C : RevenueOf(c) = by[c]
    BY <1>5, <1>11
  <2>4. \A c \in C : RevenueOf(c) \in Int
    BY <2>2, <2>3
  <2>. QED  BY <2>1, <2>3, <2>4
<1>13. LET top == GenerateBillingReport.topCustomers
       IN  /\ \A c \in DOMAIN top : \A d \in Paying \ DOMAIN top : top[c] >= RevenueOf(d)
           /\ Cardinality(Paying) <= MaxTop => top = by
  <2>1. \A n \in Paid : n \in Int
    BY DEF Paid, BillingInv
  <2>. QED  BY <1>11, <1>12, <2>1, TopIsListed
<1>8. C = {key[n] : n \in P} /\ \A c : Of(c) = {n \in P : key[n] = c}
  BY <1>2
<1> HIDE DEF D, f, key, P
<1>9. Total(D) \in Int /\ Total(P) \in Int
  BY <1>1, <1>2, <1>3, <1>4, <1>5, SumRules
<1>10. SumFunctionOnSet(f, P) = SumFunctionOnSet(by, C)
  <2>1. SumFunctionOnSet(f, P)
          = SumFunctionOnSet([k \in {key[x] : x \in P} |->
                                SumFunctionOnSet(f, {x \in P : key[x] = k})],
                             {key[x] : x \in P})
    BY <1>2, <1>4, SumByKey
  <2>2. [k \in {key[x] : x \in P} |-> SumFunctionOnSet(f, {x \in P : key[x] = k})] = by
    BY <1>8
  <2> HIDE DEF by, C
  <2>. QED  BY <1>8, <2>1, <2>2
<1> HIDE DEF by, C
<1>. QED  BY <1>5, <1>6, <1>7, <1>9, <1>10, <1>13 DEF ReportsAgree

\* Every amount has its type.
LEMMA BillingTyped == BillingInv => BillingTypeOK
<1> SUFFICES ASSUME BillingInv, NEW n \in DOMAIN invoices
             PROVE  /\ invoices[n].status \in {"draft", "paid"}
                    /\ {invoices[n].subtotal, invoices[n].taxAmount, invoices[n].total}
                         \subseteq Int
  BY DEF BillingInv, BillingTypeOK
<1>1. invoices[n] \in InvoiceRecords
  BY DEF BillingInv
<1>. QED  BY <1>1 DEF InvoiceRecords

-----------------------------------------------------------------------------
(* Queries of the audit log.                                               *)

\* The audit log numbers its events.
LEMMA AuditsInduction ==
  /\ LoggerInit => AuditsNumbered
  /\ LoggerInv /\ AuditsNumbered /\ [LoggerNext]_loggerVars => AuditsNumbered'
<1>1. LoggerInit => AuditsNumbered
  BY DEF LoggerInit, AuditsNumbered
<1>2. ASSUME LoggerInv, AuditsNumbered, NEW category, NEW outcome,
             RecordAuditEvent(category, outcome)
      PROVE  AuditsNumbered'
  <2> DEFINE new == [id |-> Len(auditLog) + 1, category |-> category, outcome |-> outcome]
  <2>1. auditLog' = Append(auditLog, new) /\ auditLog \in Seq(AuditEvents)
    BY <1>2 DEF RecordAuditEvent, LoggerInv
  <2>2. new.id = Len(auditLog) + 1
    OBVIOUS
  <2> HIDE DEF new
  <2>3. /\ Len(auditLog') = Len(auditLog) + 1 /\ Len(auditLog) \in Nat
        /\ auditLog'[Len(auditLog) + 1] = new
        /\ \A i \in 1 .. Len(auditLog) : auditLog'[i] = auditLog[i]
    BY <2>1
  <2>. QED  BY <1>2, <2>2, <2>3 DEF AuditsNumbered
<1>3. ASSUME AuditsNumbered, UNCHANGED auditLog PROVE AuditsNumbered'
  BY <1>3 DEF AuditsNumbered
<1>4. ASSUME LoggerInv, AuditsNumbered, [LoggerNext]_loggerVars PROVE AuditsNumbered'
  <2>1. CASE Audit
    BY <1>2, <1>4, <2>1 DEF Audit
  <2>2. CASE ~ Audit
    <3>1. UNCHANGED auditLog
      BY <1>4, <2>2
      DEF LoggerNext, LogEvent, TypeListenersReturn, StarListenersReturn, ListenerThrows, loggerVars
    <3>. QED  BY <1>3, <1>4, <3>1
  <2>. QED  BY <2>1, <2>2
<1>. QED  BY <1>1, <1>4

\* The newest elements of a sequence are its last ones.
LEMMA NewestAreLast ==
  ASSUME NEW S, NEW r \in Seq(S), NEW limit \in Nat
  PROVE  LET c == IF limit = 0 \/ limit >= Len(r) THEN 0 ELSE Len(r) - limit
         IN  /\ c \in Nat /\ Len(Newest(r, limit)) = Len(r) - c
             /\ DOMAIN Newest(r, limit) = 1 .. Len(r) - c
             /\ \A j \in 1 .. Len(r) - c : Newest(r, limit)[j] = r[c + j]
<1>1. Len(r) \in Nat /\ DOMAIN r = 1 .. Len(r)
  BY LenProperties, ZenonT(30)
<1>2. CASE limit = 0 \/ limit >= Len(r)
  <2>1. Newest(r, limit) = r /\ Len(r) - 0 = Len(r)
    BY <1>1, <1>2 DEF Newest
  <2>2. \A j \in 1 .. Len(r) : 0 + j = j
    BY <1>1
  <2>. QED  BY <1>1, <1>2, <2>1, <2>2
<1>3. CASE ~ (limit = 0 \/ limit >= Len(r))
  <2> DEFINE c == Len(r) - limit
             q == SubSeq(r, c + 1, Len(r))
  <2>1. c \in Nat /\ Newest(r, limit) = q
    BY <1>1, <1>3 DEF Newest
  <2>2. /\ q \in Seq(S) /\ Len(q) = Len(r) - c
        /\ \A j \in 1 .. Len(r) - c : q[j] = r[c + j]
    BY <1>1, <2>1
  <2> HIDE DEF q
  <2>. QED  BY <1>3, <2>1, <2>2
<1>. QED  BY <1>2, <1>3

\* What a query selects, and that it is the newest of it.
LEMMA QueriesNewest ==
  ASSUME auditLog \in Seq(AuditEvents), AuditsNumbered, MaxAudits \in Nat
  PROVE  QueriesReturnNewest
<1> SUFFICES ASSUME NEW category \in {"any", "authentication"}, NEW limit \in 0 .. MaxAudits
    PROVE  LET answer == QueryAuditLog(category, "any", limit)
               matches == {i \in DOMAIN auditLog : category \in {"any", auditLog[i].category}}
           IN  /\ limit > 0 => Len(answer) <= limit
               /\ \A i \in matches : (\E j \in DOMAIN answer : answer[j].id = i)
                    <=> limit = 0 \/ Cardinality({k \in matches : k > i}) < limit
  BY DEF QueriesReturnNewest
<1> DEFINE matches == {i \in DOMAIN auditLog : category \in {"any", auditLog[i].category}}
           D == {a \in AuditEvents : category \in {"any", a.category}}
           g == [a \in AuditEvents |-> IF a \in D THEN <<a>> ELSE <<>>]
           N == Len(auditLog)
           r == Spread(auditLog, g)
           m == Len(r)
<1>1. /\ N \in Nat /\ DOMAIN auditLog = 1 .. N /\ limit \in Nat
      /\ \A i \in 1 .. N : auditLog[i] \in AuditEvents
  OBVIOUS
<1>2. \A i \in 1 .. N : i \in matches <=> auditLog[i] \in D
  BY <1>1
<1>3. matches \subseteq 1 .. N
  BY <1>1
<1>4. QueryAuditLog(category, "any", limit) = Newest(r, limit)
  <2>1. \A i \in 1 .. N : (auditLog[i] \in D)
                            <=> category \in {"any", auditLog[i].category} /\ "any" \in {"any", auditLog[i].outcome}
    BY <1>1
  <2> HIDE DEF D, AuditEvents
  <2>2. \A i \in 1 .. N : g[auditLog[i]] = IF category \in {"any", auditLog[i].category}
                                              /\ "any" \in {"any", auditLog[i].outcome}
                                           THEN <<auditLog[i]>> ELSE <<>>
    BY <1>1, <2>1, Zenon
  <2> HIDE DEF g
  <2>3. [i \in DOMAIN auditLog |-> IF category \in {"any", auditLog[i].category}
                                      /\ "any" \in {"any", auditLog[i].outcome}
                                   THEN <<auditLog[i]>> ELSE <<>>]
          = [i \in 1 .. N |-> g[auditLog[i]]]
    BY <1>1, <2>2, Zenon
  <2>. QED  BY <2>3, Zenon DEF QueryAuditLog, Spread
<1>5. g \in [AuditEvents -> Seq(AuditEvents)] /\ \A a \in AuditEvents : g[a] = IF a \in D THEN <<a>> ELSE <<>>
  <2> HIDE DEF D, AuditEvents
  <2>1. \A a \in AuditEvents : (IF a \in D THEN <<a>> ELSE <<>>) \in Seq(AuditEvents)
    OBVIOUS
  <2>. QED  BY <2>1
<1> HIDE DEF matches, D, g, AuditEvents
<1>6. r \in Seq(AuditEvents) /\ \E h : Selects(h, r, auditLog, D, N)
  BY <1>5, SpreadSelects
<1> HIDE DEF r
<1>7. PICK h : Selects(h, r, auditLog, D, N)
  BY <1>6
<1>8. /\ m \in Nat /\ h \in [1 .. m -> 1 .. N]
      /\ \A k \in 1 .. m : auditLog[h[k]] \in D /\ r[k] = auditLog[h[k]]
      /\ \A k, j \in 1 .. m : k < j => h[k] < h[j]
      /\ \A i \in 1 .. N : auditLog[i] \in D => \E k \in 1 .. m : h[k] = i
  BY <1>7 DEF Selects
<1>9. \A k \in 1 .. m : h[k] \in matches /\ h[k] \in Int /\ r[k].id = h[k]
  BY <1>1, <1>2, <1>8 DEF AuditsNumbered
<1>10. \A i \in matches : \E k \in 1 .. m : h[k] = i
  BY <1>2, <1>3, <1>8
<1>11. \A k, j \in 1 .. m : h[k] < h[j] <=> k < j
  <2> SUFFICES ASSUME NEW k \in 1 .. m, NEW j \in 1 .. m, h[k] < h[j], ~ (k < j) PROVE FALSE
    BY <1>8
  <2>1. j < k \/ j = k
    BY <1>8
  <2>2. h[k] \in Int /\ h[j] \in Int
    BY <1>9
  <2>. QED  BY <1>8, <2>1, <2>2
<1> DEFINE c == IF limit = 0 \/ limit >= m THEN 0 ELSE m - limit
           answer == Newest(r, limit)
<1>12. /\ c \in Nat /\ Len(answer) = m - c /\ DOMAIN answer = 1 .. m - c
       /\ \A j \in 1 .. m - c : answer[j] = r[c + j]
  BY <1>1, <1>6, NewestAreLast
<1> HIDE DEF answer, m
<1>13. limit > 0 => Len(answer) <= limit
  BY <1>1, <1>8, <1>12
<1>14. ASSUME NEW i \in matches
       PROVE  (\E j \in DOMAIN answer : answer[j].id = i)
                <=> limit = 0 \/ Cardinality({k \in matches : k > i}) < limit
  <2>1. PICK x \in 1 .. m : h[x] = i
    BY <1>10
  <2>2. \A k \in 1 .. m : h[k] = i <=> k = x
    <3> SUFFICES ASSUME NEW k \in 1 .. m, h[k] = i, k # x PROVE FALSE
      BY <2>1
    <3>1. k < x \/ x < k
      BY <1>8
    <3>2. h[k] \in Int
      BY <1>9
    <3>. QED  BY <1>8, <2>1, <3>1, <3>2
  <2>3. (\E j \in DOMAIN answer : answer[j].id = i) <=> c < x
    <3> HIDE DEF c
    <3>1. ASSUME NEW j \in DOMAIN answer, answer[j].id = i PROVE c < x
      <4>1. j \in 1 .. m - c /\ c + j \in 1 .. m /\ answer[j] = r[c + j]
        BY <1>8, <1>12
      <4>2. h[c + j] = i
        BY <1>9, <3>1, <4>1
      <4>3. c + j = x
        BY <2>2, <4>1, <4>2
      <4>. QED  BY <1>12, <4>1, <4>3
    <3>2. ASSUME c < x PROVE \E j \in DOMAIN answer : answer[j].id = i
      <4>1. x - c \in 1 .. m - c /\ c + (x - c) = x
        BY <1>8, <1>12, <3>2
      <4>2. x - c \in DOMAIN answer /\ answer[x - c] = r[x]
        BY <1>12, <4>1
      <4>. QED  BY <1>9, <2>1, <4>2
    <3>. QED  BY <3>1, <3>2
  <2> DEFINE later == {k \in matches : k > i}
  <2>4. Cardinality(later) = m - x
    <3> DEFINE I == x + 1 .. m
               b == [k \in I |-> h[k]]
    <3>1. I \subseteq 1 .. m /\ \A k \in I : x < k
      BY <1>8
    <3>2. \A k \in I : h[k] \in later
      BY <1>9, <1>11, <2>1, <3>1
    <3>3. \A y \in later : \E k \in I : h[k] = y
      <4> SUFFICES ASSUME NEW y \in later PROVE \E k \in I : h[k] = y
        OBVIOUS
      <4>1. PICK k \in 1 .. m : h[k] = y
        BY <1>10
      <4>2. x < k
        BY <1>11, <2>1, <4>1
      <4>. QED  BY <1>8, <4>1, <4>2
    <3>4. \A k, j \in I : h[k] = h[j] => k = j
      <4> SUFFICES ASSUME NEW k \in I, NEW j \in I, h[k] = h[j], k # j PROVE FALSE
        OBVIOUS
      <4>1. k \in 1 .. m /\ j \in 1 .. m /\ (k < j \/ j < k) /\ h[k] \in Int
        BY <1>8, <1>9, <3>1
      <4>. QED  BY <1>8, <4>1
    <3>5. IsFiniteSet(I) /\ Cardinality(I) = m - x
      <4>1. x + 1 \in Int /\ m \in Int /\ (x + 1 <= m \/ x + 1 = m + 1)
        BY <1>8
      <4>2. IsFiniteSet(I) /\ Cardinality(I) = IF x + 1 > m THEN 0 ELSE m - (x + 1) + 1
        BY <4>1, FS_Interval
      <4>. QED  BY <4>1, <4>2
    <3> HIDE DEF I, later
    <3>6. b \in [I -> later] /\ \A k \in I : b[k] = h[k]
      BY <3>2
    <3> HIDE DEF b
    <3>7. b \in Bijection(I, later)
      BY <3>3, <3>4, <3>6, Fun_IsBij
    <3>8. ExistsBijection(I, later)
      BY <3>7 DEF ExistsBijection
    <3>. QED  BY <3>5, <3>8, FS_Bijection
  <2> HIDE DEF later
  <2>5. c < x <=> limit = 0 \/ m - x < limit
    BY <1>1, <1>8
  <2>. QED  BY <2>3, <2>4, <2>5 DEF later
<1>. QED  BY <1>4, <1>13, <1>14 DEF answer, matches

-----------------------------------------------------------------------------
(* Rendering: blocks, the passes over what they leave, and what is shown.  *)

Accumulators == [out : Seq(Pieces), held : Seq(Pieces)]

\* f[n] is what Blocks has accumulated after n pieces of s.
Blocking(f, s, v) ==
  /\ f[0] = [out |-> <<>>, held |-> <<>>]
  /\ \A n \in 1 .. Len(s) : f[n] = BlockStep(f[n - 1], s[n], v)
  /\ \A n \in 0 .. Len(s) : f[n] \in Accumulators

LEMMA BlockStepTyped ==
  ASSUME NEW a \in Accumulators, NEW p \in Pieces, NEW v
  PROVE  BlockStep(a, p, v) \in Accumulators
<1>1. /\ a = [out |-> a.out, held |-> a.held] /\ a.out \in Seq(Pieces) /\ a.held \in Seq(Pieces)
  BY DEF Accumulators
<1>2. <<p>> \in Seq(Pieces) /\ <<>> \in Seq(Pieces)
  OBVIOUS
<1>3. Append(a.out, p) \in Seq(Pieces) /\ Append(a.held, p) \in Seq(Pieces)
  BY <1>1
<1>4. a.held # <<>> => Tail(a.held) \in Seq(Pieces) /\ a.out \o Tail(a.held) \in Seq(Pieces)
  BY <1>1
<1> HIDE DEF Pieces
<1>. QED  BY <1>1, <1>2, <1>3, <1>4 DEF BlockStep, Carried, Accumulators

\* What Blocks computes, piece by piece.
LEMMA BlocksStepwise ==
  ASSUME NEW s \in Seq(Pieces), NEW v
  PROVE  \E f : Blocking(f, s, v) /\ Blocks(s, v) = f[Len(s)].out \o f[Len(s)].held
<1> DEFINE N == Len(s)
           base == [out |-> <<>>, held |-> <<>>]
           next == [z \in Accumulators \X (1 .. N) |-> BlockStep(z[1], s[z[2]], v)]
           step(k) == [n \in 0 .. N |-> IF n = 0 THEN base ELSE BlockStep(k[n - 1], s[n], v)]
           after == CHOOSE k : k = step(k)
<1>1. N \in Nat /\ base \in Accumulators /\ \A n \in 1 .. N : s[n] \in Pieces
  BY DEF Accumulators
<1>2. next \in [Accumulators \X (1 .. N) -> Accumulators]
  <2>1. ASSUME NEW z \in Accumulators \X (1 .. N)
        PROVE  BlockStep(z[1], s[z[2]], v) \in Accumulators
    <3>1. z[1] \in Accumulators /\ s[z[2]] \in Pieces
      BY <1>1
    <3>. QED  BY <3>1, BlockStepTyped
  <2>. QED  BY <2>1
<1>3. PICK f : Iterates(f, base, next, N, Accumulators)
  <2>1. Iterable(base, next, N, Accumulators)
    BY <1>1, <1>2 DEF Iterable
  <2> HIDE DEF next, base, N
  <2>. QED  BY <2>1, IteratesExist
<1>4. f = step(f)
  <2>1. ASSUME NEW n \in 0 .. N
        PROVE  f[n] = IF n = 0 THEN base ELSE BlockStep(f[n - 1], s[n], v)
    <3>0. /\ f \in [0 .. N -> Accumulators]
          /\ f[n] = IF n = 0 THEN base ELSE next[<<f[n - 1], n>>]
      BY <1>3 DEF Iterates
    <3>1. CASE n = 0
      BY <3>0, <3>1
    <3>2. CASE n # 0
      <4>1. n \in 1 .. N /\ n - 1 \in 0 .. N
        BY <1>1, <3>2
      <4>2. <<f[n - 1], n>> \in Accumulators \X (1 .. N)
        BY <3>0, <4>1
      <4>3. next[<<f[n - 1], n>>] = BlockStep(f[n - 1], s[n], v)
        BY <4>2
      <4>. QED  BY <3>0, <3>2, <4>3
    <3>. QED  BY <3>1, <3>2
  <2>2. f \in [0 .. N -> Accumulators]
    BY <1>3 DEF Iterates
  <2> HIDE DEF base
  <2>. QED  BY <2>1, <2>2
<1>5. after = step(after)
  <2> HIDE DEF step
  <2>. QED  BY <1>4, Zenon
<1>6. Blocks(s, v) = after[N].out \o after[N].held
  BY DEF Blocks
<1> HIDE DEF after
<1>7. \A n \in 0 .. N : after[n] = IF n = 0 THEN base ELSE BlockStep(after[n - 1], s[n], v)
  <2> HIDE DEF base
  <2>. QED  BY <1>5
<1> DEFINE Typed == {n \in Nat : n <= N => after[n] \in Accumulators}
<1>8. 0 \in Typed
  <2>1. 0 \in 0 .. N
    BY <1>1
  <2> HIDE DEF base
  <2>. QED  BY <1>1, <1>7, <2>1
<1>9. ASSUME NEW n \in Nat, n \in Typed PROVE n + 1 \in Typed
  <2> SUFFICES ASSUME n + 1 <= N PROVE after[n + 1] \in Accumulators
    OBVIOUS
  <2>1. n + 1 \in 1 .. N /\ n + 1 # 0 /\ (n + 1) - 1 = n /\ n <= N /\ n + 1 \in 0 .. N
    BY <1>1
  <2>2. after[n + 1] = BlockStep(after[n], s[n + 1], v)
    BY <1>7, <2>1
  <2>3. after[n] \in Accumulators /\ s[n + 1] \in Pieces
    BY <1>1, <1>9, <2>1
  <2>. QED  BY <2>2, <2>3, BlockStepTyped
<1> HIDE DEF Typed
<1>10. Nat \subseteq Typed
  BY <1>8, <1>9, CountingUp
<1>11. \A n \in 0 .. N : after[n] \in Accumulators
  <2> SUFFICES ASSUME NEW n \in 0 .. N PROVE after[n] \in Accumulators
    OBVIOUS
  <2>1. n \in Typed /\ n <= N
    BY <1>1, <1>10
  <2>. QED  BY <2>1 DEF Typed
<1>12. after[0] = base /\ \A n \in 1 .. N : after[n] = BlockStep(after[n - 1], s[n], v)
  <2> HIDE DEF base
  <2>. QED  BY <1>1, <1>7
<1>. QED  BY <1>6, <1>11, <1>12 DEF Blocking

\* Blocks adds no piece.
LEMMA BlocksPieces ==
  ASSUME NEW s \in Seq(Pieces), NEW v
  PROVE  Blocks(s, v) \in Seq(Pieces) /\ ToSet(Blocks(s, v)) \subseteq ToSet(s)
<1>1. PICK f : Blocking(f, s, v) /\ Blocks(s, v) = f[Len(s)].out \o f[Len(s)].held
  BY BlocksStepwise
<1>2. Len(s) \in Nat /\ \A n \in 1 .. Len(s) : s[n] \in Pieces /\ s[n] \in ToSet(s)
  BY DEF ToSet
<1> DEFINE Among(a) == ToSet(a.out) \subseteq ToSet(s) /\ ToSet(a.held) \subseteq ToSet(s)
           Good == {n \in Nat : n <= Len(s) => Among(f[n])}
<1>3. 0 \in Good
  BY <1>1 DEF Blocking, ToSet
<1>4. ASSUME NEW n \in Nat, n \in Good PROVE n + 1 \in Good
  <2> SUFFICES ASSUME n + 1 <= Len(s) PROVE Among(f[n + 1])
    OBVIOUS
  <2>1. n + 1 \in 1 .. Len(s) /\ (n + 1) - 1 = n /\ n <= Len(s) /\ n \in 0 .. Len(s)
    BY <1>2
  <2> DEFINE a == f[n]
             p == s[n + 1]
  <2>2. f[n + 1] = BlockStep(a, p, v) /\ a \in Accumulators /\ p \in Pieces /\ p \in ToSet(s)
    BY <1>1, <1>2, <2>1 DEF Blocking
  <2>3. Among(a)
    BY <1>4, <2>1
  <2> HIDE DEF a, p
  <2>4. a.out \in Seq(Pieces) /\ a.held \in Seq(Pieces)
        /\ a = [out |-> a.out, held |-> a.held]
    BY <2>2 DEF Accumulators
  <2>5. ToSet(<<p>>) = {p} /\ ToSet(<<>>) = {}
    BY DEF ToSet
  <2>6. /\ ToSet(Append(a.out, p)) = ToSet(a.out) \union {p}
        /\ ToSet(Append(a.held, p)) = ToSet(a.held) \union {p}
    BY <2>2, <2>4, AppendAdds
  <2>7. ASSUME a.held # <<>> PROVE ToSet(a.out \o Tail(a.held)) \subseteq ToSet(s)
    <3>1. Tail(a.held) \in Seq(Pieces) /\ ToSet(Tail(a.held)) \subseteq ToSet(a.held)
      BY <2>4, <2>7, HeadTailProperties DEF ToSet
    <3>2. ToSet(a.out \o Tail(a.held)) = ToSet(a.out) \union ToSet(Tail(a.held))
      <4> DEFINE c == a.out
                 d == Tail(a.held)
      <4>1. c \in Seq(Pieces) /\ d \in Seq(Pieces)
        BY <2>4, <3>1
      <4> HIDE DEF c, d
      <4>2. ToSet(c \o d) = ToSet(c) \union ToSet(d)
        BY <4>1, ConcatAdds
      <4>. QED  BY <4>2 DEF c, d
    <3>. QED  BY <2>3, <3>1, <3>2
  <2>8. Among(BlockStep(a, p, v))
    BY <2>2, <2>3, <2>4, <2>5, <2>6, <2>7 DEF BlockStep, Carried
  <2>. QED  BY <2>2, <2>8
<1> HIDE DEF Good
<1>5. Nat \subseteq Good
  BY <1>3, <1>4, CountingUp
<1>6. Among(f[Len(s)]) /\ f[Len(s)] \in Accumulators
  BY <1>1, <1>2, <1>5 DEF Good, Blocking
<1>7. f[Len(s)].out \in Seq(Pieces) /\ f[Len(s)].held \in Seq(Pieces)
  BY <1>6 DEF Accumulators
<1>. QED  BY <1>1, <1>6, <1>7, ConcatAdds

Mark(p) == p.is \in {"if", "endif"}

\* In a flat text, Blocks holds pieces back from an {{#if}} until the next marker,
\* and has not passed an {{#if}} whose {{/if}} is still to come otherwise.
BlockOpen(s, i, n) ==
  s[i].is = "if" /\ i \in 1 .. n /\ \A j \in i + 1 .. n : ~ Mark(s[j])
BlocksClean(a, s, n) ==
  /\ \A j \in 1 .. Len(a.out) : ~ Mark(a.out[j])
  /\ \A j \in 2 .. Len(a.held) : ~ Mark(a.held[j])
  /\ a.held # <<>> => \E i \in 1 .. n : BlockOpen(s, i, n)
  /\ a.held = <<>> => \A i \in 1 .. n : s[i].is = "if" => \E k \in i + 1 .. n : Mark(s[k])

\* What Flat says, marker by marker.
LEMMA FlatMarks ==
  ASSUME NEW s \in Seq(Pieces), Flat(s), NEW m \in 1 .. Len(s)
  PROVE  /\ s[m].is = "if" =>
              \E k \in m + 1 .. Len(s) : /\ s[k].is = "endif"
                                         /\ \A j \in m + 1 .. k - 1 : ~ Mark(s[j])
         /\ s[m].is = "endif" =>
              \E k \in 1 .. m - 1 : /\ s[k].is = "if"
                                    /\ \A j \in k + 1 .. m - 1 : ~ Mark(s[j])
<1>1. Len(s) \in Nat /\ DOMAIN s = 1 .. Len(s)
  OBVIOUS
<1> DEFINE marks == {i \in DOMAIN s : s[i].is \in {"if", "endif"}}
           block(i, k) == /\ i < k /\ s[i].is = "if" /\ s[k].is = "endif"
                          /\ \A j \in marks : ~ (i < j /\ j < k)
<1>2. \A j \in 1 .. Len(s) : j \in marks <=> Mark(s[j])
  BY <1>1 DEF Mark
<1>3. marks \subseteq 1 .. Len(s)
  BY <1>1
<1>4. \A i \in marks : \E k \in marks : block(i, k) \/ block(k, i)
  BY DEF Flat
<1> HIDE DEF marks
<1>5. ASSUME NEW i \in marks, NEW k \in marks, block(i, k)
      PROVE  \A j \in i + 1 .. k - 1 : ~ Mark(s[j])
  <2> SUFFICES ASSUME NEW j \in i + 1 .. k - 1, Mark(s[j]) PROVE FALSE
    OBVIOUS
  <2>1. i \in 1 .. Len(s) /\ k \in 1 .. Len(s)
    BY <1>3
  <2>2. j \in 1 .. Len(s) /\ i < j /\ j < k
    BY <1>1, <2>1
  <2>. QED  BY <1>2, <1>5, <2>2
<1>6. ASSUME s[m].is = "if"
      PROVE  \E k \in m + 1 .. Len(s) : /\ s[k].is = "endif"
                                        /\ \A j \in m + 1 .. k - 1 : ~ Mark(s[j])
  <2>1. m \in marks
    BY <1>2, <1>6 DEF Mark
  <2>2. PICK k \in marks : block(m, k)
    BY <1>4, <1>6, <2>1
  <2>3. k \in m + 1 .. Len(s)
    BY <1>3, <2>2
  <2>. QED  BY <1>5, <2>1, <2>2, <2>3
<1>7. ASSUME s[m].is = "endif"
      PROVE  \E k \in 1 .. m - 1 : /\ s[k].is = "if"
                                   /\ \A j \in k + 1 .. m - 1 : ~ Mark(s[j])
  <2>1. m \in marks
    BY <1>2, <1>7 DEF Mark
  <2>2. PICK k \in marks : block(k, m)
    BY <1>4, <1>7, <2>1
  <2>3. k \in 1 .. m - 1
    BY <1>3, <2>2
  <2>. QED  BY <1>5, <2>1, <2>2, <2>3
<1>. QED  BY <1>6, <1>7

\* One piece more of a flat text.
LEMMA BlockStepClean ==
  ASSUME NEW s \in Seq(Pieces), Flat(s), NEW n \in Nat, n + 1 <= Len(s), NEW v,
         NEW a \in Accumulators, BlocksClean(a, s, n)
  PROVE  BlocksClean(BlockStep(a, s[n + 1], v), s, n + 1)
<1> DEFINE p == s[n + 1]
           b == BlockStep(a, p, v)
<1>1. Len(s) \in Nat /\ n + 1 \in 1 .. Len(s) /\ p \in Pieces
  OBVIOUS
<1>2. /\ a = [out |-> a.out, held |-> a.held] /\ a.out \in Seq(Pieces) /\ a.held \in Seq(Pieces)
      /\ Len(a.out) \in Nat /\ Len(a.held) \in Nat
      /\ a.held = <<>> <=> Len(a.held) = 0
  BY DEF Accumulators
<1>3. /\ \A j \in 1 .. Len(a.out) : ~ Mark(a.out[j])
      /\ \A j \in 2 .. Len(a.held) : ~ Mark(a.held[j])
  BY DEF BlocksClean
<1>4. CASE p.is = "if"
  <2>1. a.held = <<>>
    <3> SUFFICES ASSUME a.held # <<>> PROVE FALSE
      OBVIOUS
    <3>1. PICK i \in 1 .. n : BlockOpen(s, i, n)
      BY DEF BlocksClean
    <3>2. PICK k \in i + 1 .. Len(s) : /\ s[k].is = "endif"
                                       /\ \A j \in i + 1 .. k - 1 : ~ Mark(s[j])
      BY <1>1, <3>1, FlatMarks DEF BlockOpen
    <3>3. Mark(s[k]) /\ Mark(p) /\ k # n + 1
      BY <1>4, <3>2 DEF Mark
    <3>4. ~ (k \in i + 1 .. n)
      BY <3>1, <3>3 DEF BlockOpen
    <3>5. n + 1 \in i + 1 .. k - 1
      BY <3>3, <3>4
    <3>. QED  BY <3>2, <3>3, <3>5
  <2>2. b = [out |-> a.out, held |-> <<p>>]
    BY <1>2, <1>4, <2>1 DEF BlockStep, Carried
  <2>3. BlockOpen(s, n + 1, n + 1)
    BY <1>4 DEF BlockOpen
  <2> HIDE DEF b
  <2>4. b.out = a.out /\ Len(b.held) = 1 /\ b.held # <<>>
    BY <2>2
  <2>5. n + 1 \in 1 .. n + 1
    OBVIOUS
  <2>6. BlocksClean(b, s, n + 1)
    BY <1>3, <2>3, <2>4, <2>5 DEF BlocksClean
  <2>. QED  BY <2>6 DEF b
<1>5. CASE p.is = "endif"
  <2>1. a.held # <<>>
    <3> SUFFICES ASSUME a.held = <<>> PROVE FALSE
      OBVIOUS
    <3>1. PICK k \in 1 .. (n + 1) - 1 : /\ s[k].is = "if"
                                        /\ \A j \in k + 1 .. (n + 1) - 1 : ~ Mark(s[j])
      BY <1>1, <1>5, FlatMarks
    <3>2. k \in 1 .. n /\ \A j \in k + 1 .. n : ~ Mark(s[j])
      BY <3>1
    <3>. QED  BY <3>1, <3>2 DEF BlocksClean
  <2> DEFINE q == Tail(a.held)
             r == a.out \o q
  <2>2. /\ q \in Seq(Pieces) /\ Len(q) = Len(a.held) - 1 /\ Len(q) \in Nat
        /\ \A j \in 1 .. Len(q) : q[j] = a.held[j + 1]
    BY <1>2, <2>1, HeadTailProperties
  <2>3. \A j \in 1 .. Len(q) : ~ Mark(q[j])
    <3> SUFFICES ASSUME NEW j \in 1 .. Len(q) PROVE ~ Mark(q[j])
      OBVIOUS
    <3>1. j + 1 \in 2 .. Len(a.held)
      BY <1>2, <2>2
    <3>. QED  BY <1>3, <2>2, <3>1
  <2> HIDE DEF q
  <2>4. /\ Len(r) = Len(a.out) + Len(q)
        /\ \A j \in 1 .. Len(a.out) + Len(q) :
             r[j] = IF j <= Len(a.out) THEN a.out[j] ELSE q[j - Len(a.out)]
    <3> DEFINE c == a.out
    <3>1. c \in Seq(Pieces) /\ q \in Seq(Pieces)
      BY <1>2, <2>2
    <3> HIDE DEF c
    <3>2. /\ Len(c \o q) = Len(c) + Len(q)
          /\ \A j \in 1 .. Len(c) + Len(q) :
               (c \o q)[j] = IF j <= Len(c) THEN c[j] ELSE q[j - Len(c)]
      BY <3>1, ConcatProperties
    <3>. QED  BY <3>2 DEF c
  <2>5. \A j \in 1 .. Len(r) : ~ Mark(r[j])
    <3> SUFFICES ASSUME NEW j \in 1 .. Len(r) PROVE ~ Mark(r[j])
      OBVIOUS
    <3>1. CASE j <= Len(a.out)
      BY <1>2, <1>3, <2>2, <2>4, <3>1
    <3>2. CASE ~ (j <= Len(a.out))
      <4>1. j - Len(a.out) \in 1 .. Len(q)
        BY <1>2, <2>2, <2>4, <3>2
      <4>. QED  BY <1>2, <2>2, <2>3, <2>4, <3>2, <4>1
    <3>. QED  BY <3>1, <3>2
  <2> HIDE DEF r
  <2>6. b.held = <<>> /\ (b.out = r \/ b.out = a.out)
    BY <1>2, <1>5, <2>1 DEF BlockStep, Carried, q, r
  <2>7. \A i \in 1 .. n + 1 : s[i].is = "if" => \E k \in i + 1 .. n + 1 : Mark(s[k])
    <3> SUFFICES ASSUME NEW i \in 1 .. n + 1, s[i].is = "if"
                 PROVE  \E k \in i + 1 .. n + 1 : Mark(s[k])
      OBVIOUS
    <3>1. i # n + 1
      BY <1>5
    <3>2. n + 1 \in i + 1 .. n + 1 /\ Mark(p)
      BY <1>5, <3>1 DEF Mark
    <3>. QED  BY <3>2
  <2> HIDE DEF b
  <2>8. Len(b.held) = 0 /\ \A j \in 1 .. Len(b.out) : ~ Mark(b.out[j])
    BY <1>3, <2>5, <2>6
  <2>9. BlocksClean(b, s, n + 1)
    BY <2>6, <2>7, <2>8 DEF BlocksClean
  <2>. QED  BY <2>9 DEF b
<1>6. CASE p.is \notin {"if", "endif"}
  <2>1. ~ Mark(p) /\ \A j \in 1 .. n + 1 : j \in 1 .. n \/ j = n + 1
    BY <1>6 DEF Mark
  <2>2. CASE a.held = <<>>
    <3> DEFINE r == Append(a.out, p)
    <3>1. /\ Len(r) = Len(a.out) + 1 /\ r[Len(a.out) + 1] = p
          /\ \A j \in 1 .. Len(a.out) : r[j] = a.out[j]
      <4> HIDE DEF p
      <4>. QED  BY <1>1, <1>2
    <3>2. b = [out |-> r, held |-> <<>>]
      BY <1>2, <1>6, <2>2 DEF BlockStep, Carried
    <3> HIDE DEF b, r
    <3>3. \A j \in 1 .. Len(r) : ~ Mark(r[j])
      BY <1>2, <1>3, <2>1, <3>1
    <3>4. \A i \in 1 .. n + 1 : s[i].is = "if" => \E k \in i + 1 .. n + 1 : Mark(s[k])
      <4> SUFFICES ASSUME NEW i \in 1 .. n + 1, s[i].is = "if"
                   PROVE  \E k \in i + 1 .. n + 1 : Mark(s[k])
        OBVIOUS
      <4>1. i \in 1 .. n
        BY <1>6
      <4>2. PICK k \in i + 1 .. n : Mark(s[k])
        BY <2>2, <4>1 DEF BlocksClean
      <4>3. k \in i + 1 .. n + 1
        OBVIOUS
      <4>. QED  BY <4>2, <4>3
    <3>5. BlocksClean(b, s, n + 1)
      BY <3>2, <3>3, <3>4 DEF BlocksClean
    <3>. QED  BY <3>5 DEF b
  <2>3. CASE a.held # <<>>
    <3> DEFINE h == Append(a.held, p)
    <3>1. /\ Len(h) = Len(a.held) + 1 /\ h[Len(a.held) + 1] = p /\ h # <<>>
          /\ \A j \in 1 .. Len(a.held) : h[j] = a.held[j]
      <4> DEFINE c == a.held
      <4>1. c \in Seq(Pieces) /\ Len(c) \in Nat /\ p \in Pieces
        BY <1>1, <1>2
      <4> HIDE DEF c, p
      <4>2. /\ Len(Append(c, p)) = Len(c) + 1 /\ Append(c, p)[Len(c) + 1] = p
            /\ \A j \in 1 .. Len(c) : Append(c, p)[j] = c[j]
        BY <4>1
      <4>3. Append(c, p) # <<>>
        <5> DEFINE d == Append(c, p)
        <5>1. Len(d) # 0
          BY <4>1, <4>2
        <5> HIDE DEF d
        <5>2. d # <<>>
          BY <5>1
        <5>. QED  BY <5>2 DEF d
      <4>. QED  BY <4>2, <4>3 DEF c
    <3>2. b = [out |-> a.out, held |-> h]
      BY <1>2, <1>6, <2>3 DEF BlockStep, Carried
    <3> HIDE DEF b, h
    <3>3. \A j \in 2 .. Len(h) : ~ Mark(h[j])
      <4> SUFFICES ASSUME NEW j \in 2 .. Len(h) PROVE ~ Mark(h[j])
        OBVIOUS
      <4>1. j \in 2 .. Len(a.held) \/ j = Len(a.held) + 1
        BY <1>2, <3>1
      <4>2. j \in 2 .. Len(a.held) => j \in 1 .. Len(a.held)
        BY <1>2
      <4>. QED  BY <1>3, <2>1, <3>1, <4>1, <4>2
    <3>4. PICK i \in 1 .. n : BlockOpen(s, i, n)
      BY <2>3 DEF BlocksClean
    <3>5. BlockOpen(s, i, n + 1) /\ i \in 1 .. n + 1
      <4>1. \A j \in i + 1 .. n + 1 : j \in i + 1 .. n \/ j = n + 1
        OBVIOUS
      <4>. QED  BY <2>1, <3>4, <4>1 DEF BlockOpen
    <3>6. b.out = a.out /\ b.held = h
      BY <3>2
    <3>7. BlocksClean(b, s, n + 1)
      BY <1>3, <3>1, <3>3, <3>5, <3>6 DEF BlocksClean
    <3>. QED  BY <3>7 DEF b
  <2>. QED  BY <2>2, <2>3
<1>. QED  BY <1>4, <1>5, <1>6

\* No marker of a block is left in a flat text.
LEMMA BlocksOfFlat ==
  ASSUME NEW s \in Seq(Pieces), Flat(s), NEW v
  PROVE  \A p \in ToSet(Blocks(s, v)) : ~ Mark(p)
<1>1. PICK f : Blocking(f, s, v) /\ Blocks(s, v) = f[Len(s)].out \o f[Len(s)].held
  BY BlocksStepwise
<1>2. Len(s) \in Nat
  OBVIOUS
<1> DEFINE Good == {n \in Nat : n <= Len(s) => BlocksClean(f[n], s, n)}
<1>3. 0 \in Good
  <2>1. f[0].out = <<>> /\ f[0].held = <<>>
    BY <1>1 DEF Blocking
  <2>2. BlocksClean(f[0], s, 0)
    BY <2>1 DEF BlocksClean
  <2>. QED  BY <2>2
<1>4. ASSUME NEW n \in Nat, n \in Good PROVE n + 1 \in Good
  <2> SUFFICES ASSUME n + 1 <= Len(s) PROVE BlocksClean(f[n + 1], s, n + 1)
    OBVIOUS
  <2>1. n + 1 \in 1 .. Len(s) /\ (n + 1) - 1 = n /\ n <= Len(s) /\ n \in 0 .. Len(s)
    BY <1>2
  <2>2. f[n + 1] = BlockStep(f[n], s[n + 1], v) /\ f[n] \in Accumulators
    BY <1>1, <2>1 DEF Blocking
  <2>3. BlocksClean(f[n], s, n)
    BY <1>4, <2>1
  <2>. QED  BY <2>2, <2>3, BlockStepClean
<1> HIDE DEF Good
<1>5. Nat \subseteq Good
  BY <1>3, <1>4, CountingUp
<1> DEFINE a == f[Len(s)]
<1>6. BlocksClean(a, s, Len(s)) /\ a \in Accumulators
  BY <1>1, <1>2, <1>5 DEF Good, Blocking
<1> HIDE DEF a
<1>7. a.out \in Seq(Pieces) /\ a.held \in Seq(Pieces)
  BY <1>6 DEF Accumulators
<1>8. a.held = <<>>
  <2> SUFFICES ASSUME a.held # <<>> PROVE FALSE
    OBVIOUS
  <2>1. PICK i \in 1 .. Len(s) : BlockOpen(s, i, Len(s))
    BY <1>6 DEF BlocksClean
  <2>2. PICK k \in i + 1 .. Len(s) : s[k].is = "endif"
    BY <2>1, FlatMarks DEF BlockOpen
  <2>. QED  BY <2>1, <2>2 DEF BlockOpen, Mark
<1>9. Blocks(s, v) = a.out
  <2>1. a.out \o <<>> = a.out
    BY <1>7, ConcatEmptySeq
  <2>. QED  BY <1>1, <1>8, <2>1 DEF a
<1>10. \A j \in 1 .. Len(a.out) : ~ Mark(a.out[j])
  BY <1>6 DEF BlocksClean
<1>. QED  BY <1>7, <1>9, <1>10 DEF ToSet

\* f[n] is what HtmlToPlainText has accumulated after n pieces of s.
Tagging(f, s) ==
  /\ f[0] = [out |-> <<>>, held |-> <<>>]
  /\ \A n \in 1 .. Len(s) : f[n] = TagStep(f[n - 1], s[n])
  /\ \A n \in 0 .. Len(s) : f[n] \in Accumulators

LEMMA TagStepTyped ==
  ASSUME NEW a \in Accumulators, NEW p \in Pieces
  PROVE  TagStep(a, p) \in Accumulators
<1>1. /\ a = [out |-> a.out, held |-> a.held] /\ a.out \in Seq(Pieces) /\ a.held \in Seq(Pieces)
  BY DEF Accumulators
<1>2. <<p>> \in Seq(Pieces) /\ <<>> \in Seq(Pieces)
  OBVIOUS
<1>3. Append(a.out, p) \in Seq(Pieces) /\ Append(a.held, p) \in Seq(Pieces)
  BY <1>1
<1>4. a.out \o a.held \o <<p>> \in Seq(Pieces)
  BY <1>1, <1>2
<1> HIDE DEF Pieces
<1>. QED  BY <1>1, <1>2, <1>3, <1>4 DEF TagStep, Carried, Accumulators

\* What HtmlToPlainText computes, piece by piece.
LEMMA TagsStepwise ==
  ASSUME NEW s \in Seq(Pieces)
  PROVE  \E f : Tagging(f, s) /\ HtmlToPlainText(s) = f[Len(s)].out \o f[Len(s)].held
<1> DEFINE N == Len(s)
           base == [out |-> <<>>, held |-> <<>>]
           next == [z \in Accumulators \X (1 .. N) |-> TagStep(z[1], s[z[2]])]
           step(k) == [n \in 0 .. N |-> IF n = 0 THEN base ELSE TagStep(k[n - 1], s[n])]
           after == CHOOSE k : k = step(k)
<1>1. N \in Nat /\ base \in Accumulators /\ \A n \in 1 .. N : s[n] \in Pieces
  BY DEF Accumulators
<1>2. next \in [Accumulators \X (1 .. N) -> Accumulators]
  <2>1. ASSUME NEW z \in Accumulators \X (1 .. N)
        PROVE  TagStep(z[1], s[z[2]]) \in Accumulators
    <3>1. z[1] \in Accumulators /\ s[z[2]] \in Pieces
      BY <1>1
    <3>. QED  BY <3>1, TagStepTyped
  <2>. QED  BY <2>1
<1>3. PICK f : Iterates(f, base, next, N, Accumulators)
  <2>1. Iterable(base, next, N, Accumulators)
    BY <1>1, <1>2 DEF Iterable
  <2> HIDE DEF next, base, N
  <2>. QED  BY <2>1, IteratesExist
<1>4. f = step(f)
  <2>1. ASSUME NEW n \in 0 .. N
        PROVE  f[n] = IF n = 0 THEN base ELSE TagStep(f[n - 1], s[n])
    <3>0. /\ f \in [0 .. N -> Accumulators]
          /\ f[n] = IF n = 0 THEN base ELSE next[<<f[n - 1], n>>]
      BY <1>3 DEF Iterates
    <3>1. CASE n = 0
      BY <3>0, <3>1
    <3>2. CASE n # 0
      <4>1. n \in 1 .. N /\ n - 1 \in 0 .. N
        BY <1>1, <3>2
      <4>2. <<f[n - 1], n>> \in Accumulators \X (1 .. N)
        BY <3>0, <4>1
      <4>3. next[<<f[n - 1], n>>] = TagStep(f[n - 1], s[n])
        BY <4>2
      <4>. QED  BY <3>0, <3>2, <4>3
    <3>. QED  BY <3>1, <3>2
  <2>2. f \in [0 .. N -> Accumulators]
    BY <1>3 DEF Iterates
  <2> HIDE DEF base
  <2>. QED  BY <2>1, <2>2
<1>5. after = step(after)
  <2> HIDE DEF step
  <2>. QED  BY <1>4, Zenon
<1>6. HtmlToPlainText(s) = after[N].out \o after[N].held
  BY DEF HtmlToPlainText
<1> HIDE DEF after
<1>7. \A n \in 0 .. N : after[n] = IF n = 0 THEN base ELSE TagStep(after[n - 1], s[n])
  <2> HIDE DEF base
  <2>. QED  BY <1>5
<1> DEFINE Typed == {n \in Nat : n <= N => after[n] \in Accumulators}
<1>8. 0 \in Typed
  <2>1. 0 \in 0 .. N
    BY <1>1
  <2> HIDE DEF base
  <2>. QED  BY <1>1, <1>7, <2>1
<1>9. ASSUME NEW n \in Nat, n \in Typed PROVE n + 1 \in Typed
  <2> SUFFICES ASSUME n + 1 <= N PROVE after[n + 1] \in Accumulators
    OBVIOUS
  <2>1. n + 1 \in 1 .. N /\ n + 1 # 0 /\ (n + 1) - 1 = n /\ n <= N /\ n + 1 \in 0 .. N
    BY <1>1
  <2>2. after[n + 1] = TagStep(after[n], s[n + 1])
    BY <1>7, <2>1
  <2>3. after[n] \in Accumulators /\ s[n + 1] \in Pieces
    BY <1>1, <1>9, <2>1
  <2>. QED  BY <2>2, <2>3, TagStepTyped
<1> HIDE DEF Typed
<1>10. Nat \subseteq Typed
  BY <1>8, <1>9, CountingUp
<1>11. \A n \in 0 .. N : after[n] \in Accumulators
  <2> SUFFICES ASSUME NEW n \in 0 .. N PROVE after[n] \in Accumulators
    OBVIOUS
  <2>1. n \in Typed /\ n <= N
    BY <1>1, <1>10
  <2>. QED  BY <2>1 DEF Typed
<1>12. after[0] = base /\ \A n \in 1 .. N : after[n] = TagStep(after[n - 1], s[n])
  <2> HIDE DEF base
  <2>. QED  BY <1>1, <1>7
<1>. QED  BY <1>6, <1>11, <1>12 DEF Tagging

\* After n pieces the last of them are held back, from an open bracket on, no tag
\* reaches over the place where they begin, and of the variables before it those
\* outside of tags have been let through.
TagsSorted(a, s, n) ==
  LET m == n - Len(a.held)
  IN  /\ Len(a.held) <= n
      /\ a.held # <<>> => s[m + 1].is = "<" /\ \A j \in m + 2 .. n : s[j].is # ">"
      /\ ToSet(a.held) = {s[j] : j \in m + 1 .. n}
      /\ \A i \in 1 .. m : s[i].is = "<" => \E k \in i + 1 .. m : s[k].is = ">"
      /\ \A p : p \in ToSet(a.out) /\ p.is = "var"
                  <=> \E i \in 1 .. m : s[i] = p /\ p.is = "var" /\ ~ InTag(s, i)

LEMMA TagStepSorts ==
  ASSUME NEW s \in Seq(Pieces), NEW n \in Nat, n + 1 <= Len(s),
         NEW a \in Accumulators, TagsSorted(a, s, n)
  PROVE  TagsSorted(TagStep(a, s[n + 1]), s, n + 1)
<1> DEFINE p == s[n + 1]
           b == TagStep(a, p)
           m == n - Len(a.held)
<1>1. Len(s) \in Nat /\ n + 1 \in 1 .. Len(s) /\ p \in Pieces
  OBVIOUS
<1>2. /\ a = [out |-> a.out, held |-> a.held] /\ a.out \in Seq(Pieces) /\ a.held \in Seq(Pieces)
      /\ Len(a.held) \in Nat /\ (a.held = <<>> <=> Len(a.held) = 0)
  BY DEF Accumulators
<1>3. /\ Len(a.held) <= n /\ m \in Nat /\ m <= n
      /\ a.held # <<>> => s[m + 1].is = "<" /\ \A j \in m + 2 .. n : s[j].is # ">"
      /\ ToSet(a.held) = {s[j] : j \in m + 1 .. n}
      /\ \A i \in 1 .. m : s[i].is = "<" => \E k \in i + 1 .. m : s[k].is = ">"
      /\ \A x : x \in ToSet(a.out) /\ x.is = "var"
                  <=> \E i \in 1 .. m : s[i] = x /\ x.is = "var" /\ ~ InTag(s, i)
  BY <1>2 DEF TagsSorted
<1>4. /\ ToSet(<<p>>) = {p} /\ ToSet(<<>>) = {} /\ Len(<<p>>) = 1
      /\ ToSet(Append(a.out, p)) = ToSet(a.out) \union {p}
      /\ ToSet(Append(a.held, p)) = ToSet(a.held) \union {p}
      /\ Len(Append(a.held, p)) = Len(a.held) + 1 /\ Append(a.held, p) # <<>>
  <2>1. ToSet(<<p>>) = {p} /\ ToSet(<<>>) = {} /\ Len(<<p>>) = 1
    BY DEF ToSet
  <2> DEFINE c == a.out
             d == a.held
  <2>2. c \in Seq(Pieces) /\ d \in Seq(Pieces)
    BY <1>2
  <2> HIDE DEF c, d, p
  <2>3. /\ ToSet(Append(c, p)) = ToSet(c) \union {p}
        /\ ToSet(Append(d, p)) = ToSet(d) \union {p}
    BY <1>1, <2>2, AppendAdds
  <2>4. Len(Append(d, p)) = Len(d) + 1 /\ Append(d, p) # <<>>
    <3>1. Len(Append(d, p)) = Len(d) + 1 /\ Len(d) \in Nat
      BY <1>1, <2>2
    <3>. QED  BY <3>1
  <2>. QED  BY <2>1, <2>3, <2>4 DEF c, d
<1> HIDE DEF p, m, b
<1>5. CASE p.is = "<" /\ a.held = <<>>
  <2>1. b.out = a.out /\ b.held = <<p>> /\ b.held # <<>>
    BY <1>2, <1>4, <1>5 DEF TagStep, b
  <2>2. m = n /\ (n + 1) - Len(b.held) = n /\ Len(b.held) = 1
    BY <1>2, <1>4, <1>5, <2>1 DEF m
  <2>3. s[n + 1].is = "<" /\ \A j \in n + 2 .. n + 1 : s[j].is # ">"
    BY <1>5 DEF p
  <2>4. {s[j] : j \in n + 1 .. n + 1} = {p}
    <3>1. n + 1 .. n + 1 = {n + 1}
      OBVIOUS
    <3>. QED  BY <3>1 DEF p
  <2>5. ToSet(b.held) = {s[j] : j \in n + 1 .. n + 1}
    BY <1>4, <2>1, <2>4
  <2>. QED  BY <1>1, <1>3, <2>1, <2>2, <2>3, <2>5 DEF TagsSorted, b, p
<1>6. CASE p.is = ">" /\ a.held # <<>>
  <2>1. b.held = <<>> /\ b.out \in {a.out, a.out \o a.held \o <<p>>}
        /\ (Len(a.held) > 1 => b.out = a.out) /\ (~ (Len(a.held) > 1) => b.out = a.out \o a.held \o <<p>>)
    BY <1>2, <1>6 DEF TagStep, b
  <2>2. Len(b.held) = 0 /\ (n + 1) - Len(b.held) = n + 1 /\ m < n
    BY <1>2, <1>6, <2>1 DEF m
  <2>3. ASSUME NEW i \in 1 .. n + 1, s[i].is = "<" PROVE \E k \in i + 1 .. n + 1 : s[k].is = ">"
    <3>1. i # n + 1
      BY <1>6, <2>3 DEF p
    <3>2. n + 1 \in i + 1 .. n + 1
      BY <3>1
    <3>. QED  BY <1>6, <3>2 DEF p
  <2>4. ASSUME NEW i \in m + 1 .. n + 1, s[i].is = "var" PROVE InTag(s, i)
    <3>1. i # n + 1 /\ i # m + 1
      BY <1>3, <1>6, <2>4 DEF p
    <3>2. m + 1 \in 1 .. i - 1 /\ n + 1 \in i + 1 .. Len(s)
      BY <1>1, <1>3, <3>1
    <3>3. \A j \in (m + 1) + 1 .. (n + 1) - 1 : s[j].is # ">"
      BY <1>3, <1>6
    <3>. QED  BY <1>3, <1>6, <3>2, <3>3 DEF InTag, p
  <2>5. ASSUME NEW x, x.is = "var" PROVE x \in ToSet(b.out) <=> x \in ToSet(a.out)
    <3>1. CASE Len(a.held) > 1
      BY <2>1, <3>1
    <3>2. CASE ~ (Len(a.held) > 1)
      <4>0. Len(a.held) = 1
        <5> DEFINE k == Len(a.held)
        <5>1. k \in Nat /\ k # 0 /\ ~ (k > 1)
          BY <1>2, <1>6, <3>2
        <5> HIDE DEF k
        <5>2. k = 1
          BY <5>1
        <5>. QED  BY <5>2 DEF k
      <4>1. Len(a.held) = 1 /\ m + 1 = n
        BY <4>0 DEF m
      <4>2. \A y \in ToSet(a.held) : y.is = "<"
        BY <1>3, <1>6, <4>1
      <4>3. ToSet(a.out \o a.held \o <<p>>) = ToSet(a.out) \union ToSet(a.held) \union {p}
        <5> DEFINE c == a.out
                   d == a.held
                   e == <<p>>
        <5>1. c \in Seq(Pieces) /\ d \in Seq(Pieces) /\ e \in Seq(Pieces) /\ ToSet(e) = {p}
          BY <1>1, <1>2, <1>4
        <5> HIDE DEF c, d, e
        <5> DEFINE u == c \o d
        <5>2. u \in Seq(Pieces) /\ ToSet(u) = ToSet(c) \union ToSet(d)
          BY <5>1, ConcatAdds
        <5> HIDE DEF u
        <5>3. ToSet(u \o e) = ToSet(u) \union ToSet(e)
          BY <5>1, <5>2, ConcatAdds
        <5>. QED  BY <5>1, <5>2, <5>3 DEF c, d, e, u
      <4>. QED  BY <1>6, <2>1, <2>5, <3>2, <4>2, <4>3
    <3>. QED  BY <3>1, <3>2
  <2>6. ASSUME NEW x
        PROVE  x \in ToSet(b.out) /\ x.is = "var"
                 <=> \E i \in 1 .. n + 1 : s[i] = x /\ x.is = "var" /\ ~ InTag(s, i)
    <3>1. \A i : i \in 1 .. n + 1 <=> i \in 1 .. m \/ i \in m + 1 .. n + 1
      BY <1>3
    <3>. QED  BY <1>3, <2>4, <2>5, <3>1
  <2>7. ToSet(b.held) = {s[j] : j \in n + 2 .. n + 1}
    <3>1. n + 2 .. n + 1 = {}
      OBVIOUS
    <3>. QED  BY <1>4, <2>1, <3>1
  <2>8. (n + 1) + 1 = n + 2
    OBVIOUS
  <2>. QED  BY <2>1, <2>2, <2>3, <2>6, <2>7, <2>8 DEF TagsSorted, b, p
<1>7. CASE p.is # "<" /\ a.held = <<>>
  <2>1. b.out = Append(a.out, p) /\ b.held = <<>>
    BY <1>2, <1>7 DEF TagStep, Carried, b
  <2>2. m = n /\ Len(b.held) = 0 /\ (n + 1) - Len(b.held) = n + 1
    BY <1>2, <1>7, <2>1 DEF m
  <2>3. ASSUME NEW i \in 1 .. n + 1, s[i].is = "<" PROVE \E k \in i + 1 .. n + 1 : s[k].is = ">"
    <3>1. i \in 1 .. m
      BY <1>7, <2>2, <2>3 DEF p
    <3>2. PICK k \in i + 1 .. m : s[k].is = ">"
      BY <1>3, <2>3, <3>1
    <3>. QED  BY <2>2, <3>2
  <2>4. ~ InTag(s, n + 1)
    <3> SUFFICES ASSUME NEW i \in 1 .. (n + 1) - 1, NEW l \in (n + 1) + 1 .. Len(s), s[i].is = "<",
                        \A j \in i + 1 .. l - 1 : s[j].is # ">"
                 PROVE  FALSE
      BY DEF InTag
    <3>1. i \in 1 .. m
      BY <2>2
    <3>2. PICK k \in i + 1 .. m : s[k].is = ">"
      BY <1>3, <3>1
    <3>3. k \in i + 1 .. l - 1
      BY <2>2
    <3>. QED  BY <3>2, <3>3
  <2>5. ASSUME NEW x
        PROVE  x \in ToSet(b.out) /\ x.is = "var"
                 <=> \E i \in 1 .. n + 1 : s[i] = x /\ x.is = "var" /\ ~ InTag(s, i)
    <3>1. \A i : i \in 1 .. n + 1 <=> i \in 1 .. m \/ i = n + 1
      BY <2>2
    <3>2. x \in ToSet(b.out) <=> x \in ToSet(a.out) \/ x = s[n + 1]
      BY <1>4, <2>1 DEF p
    <3>. QED  BY <1>3, <2>4, <3>1, <3>2
  <2>6. ToSet(b.held) = {s[j] : j \in n + 2 .. n + 1}
    <3>1. n + 2 .. n + 1 = {}
      OBVIOUS
    <3>. QED  BY <1>4, <2>1, <3>1
  <2>7. (n + 1) + 1 = n + 2
    OBVIOUS
  <2>. QED  BY <2>1, <2>2, <2>3, <2>5, <2>6, <2>7 DEF TagsSorted, b, p
<1>8. CASE p.is # ">" /\ a.held # <<>>
  <2>1. b.out = a.out /\ b.held = Append(a.held, p)
    BY <1>2, <1>8 DEF TagStep, Carried, b
  <2>2. (n + 1) - Len(b.held) = m /\ Len(b.held) <= n + 1
    BY <1>2, <1>3, <1>4, <2>1 DEF m
  <2>3. \A j \in m + 2 .. n + 1 : s[j].is # ">"
    <3>1. \A j \in m + 2 .. n + 1 : j \in m + 2 .. n \/ j = n + 1
      BY <1>3
    <3>. QED  BY <1>3, <1>8, <3>1 DEF p
  <2>4. ToSet(b.held) = {s[j] : j \in m + 1 .. n + 1}
    <3>1. \A j : j \in m + 1 .. n + 1 <=> j \in m + 1 .. n \/ j = n + 1
      BY <1>3
    <3>2. ToSet(b.held) = {s[j] : j \in m + 1 .. n} \union {s[n + 1]}
      BY <1>3, <1>4, <2>1 DEF p
    <3>. QED  BY <3>1, <3>2
  <2>. QED  BY <1>3, <1>8, <2>1, <2>2, <2>3, <2>4 DEF TagsSorted, b, p
<1>. QED  BY <1>5, <1>6, <1>7, <1>8

\* The variables that a text made from HTML shows are those outside of its tags.
LEMMA TextOutsideTags ==
  ASSUME NEW s \in Seq(Pieces)
  PROVE  Uses(HtmlToPlainText(s), "var")
           = {s[i] : i \in {k \in DOMAIN s : s[k].is = "var" /\ ~ InTag(s, k)}}
<1>1. PICK f : Tagging(f, s) /\ HtmlToPlainText(s) = f[Len(s)].out \o f[Len(s)].held
  BY TagsStepwise
<1>2. Len(s) \in Nat /\ DOMAIN s = 1 .. Len(s)
  OBVIOUS
<1> DEFINE Good == {n \in Nat : n <= Len(s) => TagsSorted(f[n], s, n)}
<1>3. 0 \in Good
  <2>1. f[0].out = <<>> /\ f[0].held = <<>> /\ Len(<<>>) = 0 /\ ToSet(<<>>) = {}
    BY <1>1 DEF Tagging, ToSet
  <2>2. TagsSorted(f[0], s, 0)
    BY <2>1 DEF TagsSorted
  <2>. QED  BY <2>2
<1>4. ASSUME NEW n \in Nat, n \in Good PROVE n + 1 \in Good
  <2> SUFFICES ASSUME n + 1 <= Len(s) PROVE TagsSorted(f[n + 1], s, n + 1)
    OBVIOUS
  <2>1. n + 1 \in 1 .. Len(s) /\ (n + 1) - 1 = n /\ n <= Len(s) /\ n \in 0 .. Len(s)
    BY <1>2
  <2>2. f[n + 1] = TagStep(f[n], s[n + 1]) /\ f[n] \in Accumulators
    BY <1>1, <2>1 DEF Tagging
  <2>3. TagsSorted(f[n], s, n)
    BY <1>4, <2>1
  <2>. QED  BY <2>2, <2>3, TagStepSorts
<1> HIDE DEF Good
<1>5. Nat \subseteq Good
  BY <1>3, <1>4, CountingUp
<1> DEFINE a == f[Len(s)]
           N == Len(s)
           m == N - Len(a.held)
<1>6. TagsSorted(a, s, N) /\ a \in Accumulators
  BY <1>1, <1>2, <1>5 DEF Good, Tagging
<1>14. N \in Nat /\ N = Len(s)
  BY <1>2
<1> HIDE DEF a, N
<1>7. a.out \in Seq(Pieces) /\ a.held \in Seq(Pieces) /\ Len(a.held) \in Nat
  BY <1>6 DEF Accumulators
<1>8. /\ m \in Nat /\ m <= N
      /\ a.held # <<>> => s[m + 1].is = "<" /\ \A j \in m + 2 .. N : s[j].is # ">"
      /\ ToSet(a.held) = {s[j] : j \in m + 1 .. N}
      /\ \A p : p \in ToSet(a.out) /\ p.is = "var"
                  <=> \E i \in 1 .. m : s[i] = p /\ p.is = "var" /\ ~ InTag(s, i)
  <2>1. m \in Nat /\ m <= N
    BY <1>6, <1>7, <1>14 DEF TagsSorted
  <2>. QED  BY <1>6, <2>1 DEF TagsSorted
<1>9. (a.held = <<>> => m = N)
  BY <1>14
<1> HIDE DEF m
<1>10. ASSUME NEW i \in m + 1 .. N, s[i].is = "var" PROVE ~ InTag(s, i)
  <2> SUFFICES ASSUME NEW k \in i + 1 .. Len(s), s[k].is = ">" PROVE FALSE
    BY DEF InTag
  <2>1. k \in m + 2 .. N
    BY <1>8, <1>14
  <2>2. a.held # <<>>
    BY <1>8, <1>9, <1>14, <2>1
  <2>. QED  BY <1>8, <2>1, <2>2
<1>11. ToSet(HtmlToPlainText(s)) = ToSet(a.out) \union ToSet(a.held)
  <2> DEFINE c == a.out
             d == a.held
  <2>1. c \in Seq(Pieces) /\ d \in Seq(Pieces) /\ HtmlToPlainText(s) = c \o d
    BY <1>1, <1>7 DEF a, N
  <2> HIDE DEF c, d
  <2>2. ToSet(HtmlToPlainText(s)) = ToSet(c) \union ToSet(d)
    BY <2>1, ConcatAdds
  <2>. QED  BY <2>2 DEF c, d
<1>12. \A i : i \in 1 .. N <=> i \in 1 .. m \/ i \in m + 1 .. N
  BY <1>8, <1>14
<1>13. ASSUME NEW p
       PROVE  p \in Uses(HtmlToPlainText(s), "var")
                <=> \E i \in 1 .. N : s[i] = p /\ s[i].is = "var" /\ ~ InTag(s, i)
  <2>1. p \in Uses(HtmlToPlainText(s), "var")
          <=> p.is = "var" /\ (p \in ToSet(a.out) \/ \E j \in m + 1 .. N : s[j] = p)
    BY <1>8, <1>11 DEF Uses
  <2>. QED  BY <1>8, <1>10, <1>12, <2>1
<1>. QED  BY <1>2, <1>13, <1>14

\* What each pass puts in the place of a piece.
Substituted(v) ==
  [p \in Pieces |-> IF p.is = "var" /\ v[p.key].defined THEN v[p.key].text ELSE <<p>>]
Defaulted(v) ==
  [p \in Pieces |-> IF p.is # "default" THEN <<p>>
                    ELSE IF v[p.key].defined THEN v[p.key].text ELSE <<Text>>]

\* Pieces and the values of the variables they name.
LEMMA PieceFacts ==
  ASSUME NEW v \in Assigned, NEW p \in Pieces
  PROVE  /\ <<p>> \in Seq(Pieces) /\ Text \in Pieces /\ <<Text>> \in Seq(Pieces)
         /\ p.is \in {"var", "default"} =>
              v[p.key].text \in Seq(Pieces) /\ (Plain(v) => ToSet(v[p.key].text) \subseteq {Text})
<1>1. Text \in Pieces /\ <<Text>> \in Seq(Pieces)
  BY DEF Text, Pieces
<1>2. p.is \in {"var", "default"} => p.key \in Keys
  BY DEF Pieces
<1>3. \A k \in Keys : v[k].text \in Seq(Pieces)
  <2> HIDE DEF Pieces
  <2>. QED  BY DEF Assigned
<1>4. DOMAIN v = Keys
  BY DEF Assigned
<1>5. \A k \in Keys : Plain(v) => ToSet(v[k].text) \subseteq {Text}
  BY <1>4 DEF Plain
<1>6. <<p>> \in Seq(Pieces)
  OBVIOUS
<1> HIDE DEF Pieces
<1>. QED  BY <1>1, <1>2, <1>3, <1>5, <1>6

LEMMA PassesTyped ==
  ASSUME NEW v \in Assigned
  PROVE  /\ Substituted(v) \in [Pieces -> Seq(Pieces)]
         /\ Defaulted(v) \in [Pieces -> Seq(Pieces)]
<1>1. ASSUME NEW p \in Pieces
      PROVE  Substituted(v)[p] \in Seq(Pieces) /\ Defaulted(v)[p] \in Seq(Pieces)
  <2>1. <<p>> \in Seq(Pieces) /\ <<Text>> \in Seq(Pieces) /\ <<>> \in Seq(Pieces)
    BY PieceFacts
  <2>2. p.is \in {"var", "default"} => v[p.key].text \in Seq(Pieces)
    BY PieceFacts
  <2>. QED  BY <2>1, <2>2 DEF Substituted, Defaulted
<1>. QED  BY <1>1 DEF Substituted, Defaulted

\* Each of them goes over the text piece by piece.
LEMMA PassesSpread ==
  ASSUME NEW v \in Assigned, NEW s \in Seq(Pieces)
  PROVE  /\ SubstituteVariables(s, v) = Spread(s, Substituted(v))
         /\ Defaults(s, v) = Spread(s, Defaulted(v))
<1>1. DOMAIN s = 1 .. Len(s) /\ \A i \in 1 .. Len(s) : s[i] \in Pieces
  OBVIOUS
<1>2. SubstituteVariables(s, v) = Spread(s, Substituted(v))
  <2>1. [i \in DOMAIN s |-> IF s[i].is = "var" /\ v[s[i].key].defined THEN v[s[i].key].text ELSE <<s[i]>>]
          = [i \in 1 .. Len(s) |-> Substituted(v)[s[i]]]
    BY <1>1, Zenon DEF Substituted
  <2>. QED  BY <2>1, Zenon DEF SubstituteVariables, Each, Spread
<1>3. Defaults(s, v) = Spread(s, Defaulted(v))
  <2>1. [i \in DOMAIN s |-> IF s[i].is # "default" THEN <<s[i]>>
                            ELSE IF v[s[i].key].defined THEN v[s[i].key].text ELSE <<Text>>]
          = [i \in 1 .. Len(s) |-> Defaulted(v)[s[i]]]
    BY <1>1, Zenon DEF Defaulted
  <2>. QED  BY <2>1, Zenon DEF Defaults, Each, Spread
<1>. QED  BY <1>2, <1>3

\* The two passes after the blocks are one over the pieces the blocks leave.
LEMMA PassesFuse ==
  ASSUME NEW s \in Seq(Pieces), NEW v \in Assigned, Uses(s, "default") = {} \/ Plain(v)
  PROVE  Rendered(s, v) =
           Each(Blocks(s, v), LAMBDA p : IF p.is = "var" THEN SubstituteVariables(<<p>>, v)
                                                         ELSE Defaults(<<p>>, v))
<1> DEFINE b == Blocks(s, v)
           twice == [p \in Pieces |-> Spread(Defaulted(v)[p], Substituted(v))]
           one == [p \in Pieces |-> IF p.is = "var" THEN Substituted(v)[p] ELSE Defaulted(v)[p]]
<1>1. b \in Seq(Pieces) /\ ToSet(b) \subseteq ToSet(s) /\ ToSet(b) \subseteq Pieces
  <2>1. b \in Seq(Pieces) /\ ToSet(b) \subseteq ToSet(s)
    BY BlocksPieces
  <2> HIDE DEF b, Pieces
  <2>2. \A i \in DOMAIN b : b[i] \in Pieces
    BY <2>1
  <2>. QED  BY <2>1, <2>2 DEF ToSet
<1>2. Substituted(v) \in [Pieces -> Seq(Pieces)] /\ Defaulted(v) \in [Pieces -> Seq(Pieces)]
  BY PassesTyped
<1> HIDE DEF b
<1>3. Rendered(s, v) = Spread(b, twice)
  <2>1. Defaults(b, v) = Spread(b, Defaulted(v)) /\ Spread(b, Defaulted(v)) \in Seq(Pieces)
    BY <1>1, <1>2, PassesSpread, SpreadElements
  <2>2. Rendered(s, v) = SubstituteVariables(Spread(b, Defaulted(v)), v)
    BY <2>1 DEF Rendered, b
  <2>3. SubstituteVariables(Spread(b, Defaulted(v)), v)
          = Spread(Spread(b, Defaulted(v)), Substituted(v))
    BY <2>1, PassesSpread
  <2>4. Spread(Spread(b, Defaulted(v)), Substituted(v)) = Spread(b, twice)
    <3> DEFINE f == Defaulted(v)
               g == Substituted(v)
    <3>1. Replaces(f, Pieces) /\ Replaces(g, Pieces)
      BY <1>2 DEF Replaces
    <3>2. \A p \in ToSet(b) : twice[p] = Spread(f[p], g)
      BY <1>1
    <3> HIDE DEF f, g, Pieces, twice
    <3>3. Spread(Spread(b, f), g) = Spread(b, twice)
      BY <1>1, <3>1, <3>2, SpreadFuses
    <3>. QED  BY <3>3 DEF f, g
  <2>. QED  BY <2>2, <2>3, <2>4
<1>4. ASSUME NEW p \in ToSet(b) PROVE twice[p] = one[p]
  <2>1. p \in Pieces /\ p \in ToSet(s)
    BY <1>1
  <2> DEFINE d == Defaulted(v)[p]
  <2>2. twice[p] = Spread(d, Substituted(v)) /\ d \in Seq(Pieces)
    BY <1>2, <2>1
  <2>3. CASE p.is # "default"
    <3>1. d = <<p>>
      BY <2>1, <2>3 DEF Defaulted
    <3>2. Spread(<<p>>, Substituted(v)) = Substituted(v)[p]
      BY <1>2, <2>1, SpreadOne
    <3>3. p.is # "var" => Substituted(v)[p] = <<p>>
      BY <2>1 DEF Substituted
    <3>. QED  BY <2>1, <2>2, <3>1, <3>2, <3>3
  <2>4. CASE p.is = "default"
    <3>1. Plain(v)
      BY <2>1, <2>4 DEF Uses
    <3>2. ToSet(<<Text>>) = {Text}
      BY DEF ToSet
    <3>3. d = v[p.key].text \/ d = <<Text>>
      BY <2>1, <2>4 DEF Defaulted
    <3>4. ToSet(v[p.key].text) \subseteq {Text}
      BY <2>1, <2>4, <3>1, PieceFacts
    <3>5. ToSet(d) \subseteq {Text}
      BY <3>2, <3>3, <3>4
    <3>6. Text \in Pieces /\ Text.is # "var"
      BY <2>1, PieceFacts DEF Text
    <3>7. Substituted(v)[Text] = <<Text>>
      BY <3>6 DEF Substituted
    <3> HIDE DEF d
    <3>8. Spread(d, Substituted(v)) = d
      BY <2>2, <3>5, <3>7, SpreadKeeps
    <3>. QED  BY <2>1, <2>2, <2>4, <3>8 DEF d
  <2>. QED  BY <2>3, <2>4
<1>5. Spread(b, twice) = Spread(b, one)
  <2> HIDE DEF twice, one
  <2>. QED  BY <1>1, <1>4, SpreadAgrees
<1>6. Each(b, LAMBDA p : IF p.is = "var" THEN SubstituteVariables(<<p>>, v)
                                         ELSE Defaults(<<p>>, v)) = Spread(b, one)
  <2>1. ASSUME NEW p \in Pieces
        PROVE  one[p] = IF p.is = "var" THEN SubstituteVariables(<<p>>, v) ELSE Defaults(<<p>>, v)
    <3>1. <<p>> \in Seq(Pieces)
      BY PieceFacts
    <3>2. /\ SubstituteVariables(<<p>>, v) = Spread(<<p>>, Substituted(v))
          /\ Defaults(<<p>>, v) = Spread(<<p>>, Defaulted(v))
      BY <3>1, PassesSpread
    <3>3. /\ Spread(<<p>>, Substituted(v)) = Substituted(v)[p]
          /\ Spread(<<p>>, Defaulted(v)) = Defaulted(v)[p]
      BY <1>2, SpreadOne
    <3>. QED  BY <3>2, <3>3
  <2>2. DOMAIN b = 1 .. Len(b) /\ \A i \in 1 .. Len(b) : b[i] \in Pieces
    BY <1>1
  <2> HIDE DEF one
  <2>3. [i \in DOMAIN b |-> IF b[i].is = "var" THEN SubstituteVariables(<<b[i]>>, v)
                                               ELSE Defaults(<<b[i]>>, v)]
          = [i \in 1 .. Len(b) |-> one[b[i]]]
    BY <2>1, <2>2, Zenon
  <2>. QED  BY <2>3, Zenon DEF Each, Spread
<1>. QED  BY <1>3, <1>5, <1>6 DEF b

\* A flat text, rendered with plain values, has no marker of a block left.
LEMMA RenderedFlat ==
  ASSUME NEW s \in Seq(Pieces), NEW v \in Assigned, Flat(s), Plain(v)
  PROVE  Uses(Rendered(s, v), "if") \union Uses(Rendered(s, v), "endif") = {}
<1> DEFINE b == Blocks(s, v)
           d == Spread(b, Defaulted(v))
           r == Spread(d, Substituted(v))
<1>1. b \in Seq(Pieces) /\ \A p \in ToSet(b) : ~ Mark(p)
  BY BlocksPieces, BlocksOfFlat
<1>2. Substituted(v) \in [Pieces -> Seq(Pieces)] /\ Defaulted(v) \in [Pieces -> Seq(Pieces)]
  BY PassesTyped
<1> HIDE DEF b
<1>3. /\ d \in Seq(Pieces)
      /\ \A y : y \in ToSet(d) <=> \E x \in ToSet(b) : y \in ToSet(Defaulted(v)[x])
  BY <1>1, <1>2, SpreadElements
<1> HIDE DEF d
<1>4. /\ r \in Seq(Pieces)
      /\ \A y : y \in ToSet(r) <=> \E x \in ToSet(d) : y \in ToSet(Substituted(v)[x])
  BY <1>2, <1>3, SpreadElements
<1> HIDE DEF r
<1>5. ASSUME NEW x \in Pieces, ~ Mark(x)
      PROVE  /\ \A y \in ToSet(Defaulted(v)[x]) : ~ Mark(y)
             /\ \A y \in ToSet(Substituted(v)[x]) : ~ Mark(y)
  <2>1. ~ Mark(Text)
    BY DEF Mark, Text
  <2>2. ToSet(<<x>>) = {x} /\ ToSet(<<Text>>) = {Text}
    BY DEF ToSet
  <2>3. x.is \in {"var", "default"} => ToSet(v[x.key].text) \subseteq {Text}
    BY PieceFacts
  <2>4. \/ Defaulted(v)[x] = <<x>>
        \/ Defaulted(v)[x] = <<Text>>
        \/ x.is = "default" /\ Defaulted(v)[x] = v[x.key].text
    BY DEF Defaulted
  <2>5. Substituted(v)[x] = <<x>> \/ (x.is = "var" /\ Substituted(v)[x] = v[x.key].text)
    BY DEF Substituted
  <2>6. /\ ToSet(Defaulted(v)[x]) \subseteq {x, Text}
        /\ ToSet(Substituted(v)[x]) \subseteq {x, Text}
    BY <2>2, <2>3, <2>4, <2>5
  <2>. QED  BY <1>5, <2>1, <2>6
<1>6. ToSet(b) \subseteq Pieces /\ ToSet(d) \subseteq Pieces
  <2> HIDE DEF Pieces
  <2>. QED  BY <1>1, <1>3 DEF ToSet
<1>7. \A p \in ToSet(d) : ~ Mark(p)
  BY <1>1, <1>3, <1>5, <1>6
<1>8. \A p \in ToSet(r) : ~ Mark(p)
  BY <1>4, <1>5, <1>6, <1>7
<1>9. Rendered(s, v) = r
  <2>1. Defaults(b, v) = d
    BY <1>1, PassesSpread DEF d
  <2>2. SubstituteVariables(d, v) = r
    BY <1>3, PassesSpread DEF r
  <2>. QED  BY <2>1, <2>2 DEF Rendered, b
<1>. QED  BY <1>8, <1>9 DEF Uses, Mark

\* What is passed as plain text is filled in.
Unfilled(s, v) == {p \in Uses(s, "var") : v[p.key].defined}

LEMMA SubstitutedTexts ==
  ASSUME NEW s \in Seq(Pieces), NEW v \in Assigned, Plain(v)
  PROVE  Unfilled(SubstituteVariables(s, v), v) = {}
<1> DEFINE r == Spread(s, Substituted(v))
<1>1. Substituted(v) \in [Pieces -> Seq(Pieces)]
  BY PassesTyped
<1>2. /\ r \in Seq(Pieces)
      /\ \A y : y \in ToSet(r) <=> \E x \in ToSet(s) : y \in ToSet(Substituted(v)[x])
  BY <1>1, SpreadElements
<1>3. SubstituteVariables(s, v) = r
  BY PassesSpread
<1>4. ToSet(s) \subseteq Pieces
  <2> HIDE DEF Pieces
  <2>. QED  BY DEF ToSet
<1> HIDE DEF r
<1>5. Unfilled(r, v) = {}
  <2> SUFFICES ASSUME NEW y \in ToSet(r), y.is = "var", v[y.key].defined PROVE FALSE
    BY DEF Unfilled, Uses
  <2>1. PICK x \in ToSet(s) : y \in ToSet(Substituted(v)[x])
    BY <1>2
  <2>2. CASE x.is = "var" /\ v[x.key].defined
    <3>1. ToSet(v[x.key].text) \subseteq {Text}
      BY <1>4, <2>2, PieceFacts
    <3>2. Substituted(v)[x] = v[x.key].text
      BY <1>4, <2>2 DEF Substituted
    <3>. QED  BY <2>1, <3>1, <3>2 DEF Text
  <2>3. CASE ~ (x.is = "var" /\ v[x.key].defined)
    <3>1. Substituted(v)[x] = <<x>> /\ ToSet(<<x>>) = {x}
      BY <1>4, <2>3 DEF Substituted, ToSet
    <3>. QED  BY <2>1, <2>3, <3>1
  <2>. QED  BY <2>2, <2>3
<1>. QED  BY <1>3, <1>5

\* What was shown last stays what the passes make of its text.
LEMMA ShownInduction ==
  /\ TemplatesInit => ShownRendered
  /\ TemplatesInv /\ ShownRendered /\ [TemplatesNext]_templateVars => ShownRendered'
<1> DEFINE Texts == Seq(Pieces)
<1>1. Sources \subseteq Texts /\ NoText \in Texts /\ <<Text>> \in Texts /\ Assignments \subseteq Assigned
  BY TemplatesAssumption DEF NoText, Text, Pieces, Assigned
<1> HIDE DEF Texts
<1>2. EmailTexts = [subject : Texts, html : Texts, text : Texts]
  BY DEF EmailTexts, Texts
<1>3. Nothing.by = "none" /\ Missing \in EmailTexts
  BY <1>1, <1>2 DEF Nothing, Missing
<1>4. TemplatesInit => ShownRendered
  BY <1>3 DEF TemplatesInit, ShownRendered
<1>5. ASSUME TemplatesInv, ShownRendered, [TemplatesNext]_templateVars PROVE ShownRendered'
  <2>0. /\ registered \in [Names -> EmailTexts] /\ files \in [Names -> Sources]
        /\ fileCache \in [Names -> Sources \union {NoText}]
    BY <1>5 DEF TemplatesInv, TemplatesTypeOK, ShownRendered
  <2>1. ASSUME registered' \in [Names -> EmailTexts], shown' = Nothing PROVE ShownRendered'
    BY <1>3, <2>1 DEF ShownRendered
  <2>2. ASSUME NEW n \in Names, NEW html \in Sources, NEW text \in Sources \union {NoText},
               RegisterTemplate(n, html, text)
        PROVE  ShownRendered'
    <3>1. [subject |-> html, html |-> html, text |-> text] \in EmailTexts
      BY <1>1, <1>2
    <3>2. registered' \in [Names -> EmailTexts] /\ shown' = Nothing
      BY <2>0, <2>2, <3>1 DEF RegisterTemplate
    <3>. QED  BY <2>1, <3>2
  <2>3. CASE LoadTemplatesFromDirectory
    <3>1. \A n \in Names : [subject |-> <<Text>>, html |-> files[n], text |-> NoText] \in EmailTexts
      BY <1>1, <1>2, <2>0
    <3>2. registered' \in [Names -> EmailTexts] /\ shown' = Nothing
      BY <2>3, <3>1 DEF LoadTemplatesFromDirectory
    <3>. QED  BY <2>1, <3>2
  <2>4. CASE ClearTemplateCache \/ \E n \in Names : \E s \in Sources : EditFile(n, s)
    BY <2>0, <2>1, <2>4 DEF ClearTemplateCache, EditFile
  <2>5. ASSUME NEW n \in Names, NEW variables \in Assignments, RenderEmail(n, variables)
        PROVE  ShownRendered'
    <3> DEFINE t == registered[n]
    <3>1. t \in EmailTexts /\ variables \in Assigned
      BY <1>1, <2>0
    <3> HIDE DEF t
    <3>2. /\ registered' = registered
          /\ shown'.by = "email" /\ shown'.of = t /\ shown'.with = variables
          /\ shown'.as.subject = SubstituteVariables(t.subject, variables)
          /\ shown'.as.html = SubstituteVariables(t.html, variables)
          /\ shown'.as.text = IF t.text # NoText THEN SubstituteVariables(t.text, variables)
                                                 ELSE HtmlToPlainText(t.html)
      BY <2>5 DEF RenderEmail, t
    <3>. QED  BY <2>0, <3>1, <3>2 DEF ShownRendered
  <2>6. ASSUME NEW n \in Names, NEW variables \in Assignments, RenderTemplateFile(n, variables)
        PROVE  ShownRendered'
    <3> DEFINE s == LoadTemplate(n)
    <3>1. s \in Texts /\ variables \in Assigned
      BY <1>1, <2>0 DEF LoadTemplate
    <3> HIDE DEF s
    <3>2. /\ registered' = registered
          /\ shown'.by = "file" /\ shown'.of.text = s /\ shown'.with = variables
          /\ shown'.as.text = Rendered(s, variables)
      BY <2>6 DEF RenderTemplateFile, s, Missing
    <3>. QED  BY <2>0, <3>1, <3>2 DEF ShownRendered, Texts
  <2>7. CASE UNCHANGED templateVars
    BY <1>5, <2>7 DEF templateVars, ShownRendered
  <2>. QED  BY <1>5, <2>2, <2>3, <2>4, <2>5, <2>6, <2>7 DEF TemplatesNext
<1>. QED  BY <1>4, <1>5

\* A file that was rendered is what FilesRendered says it is.
LEMMA FilesAreRendered == ShownRendered => FilesRendered
<1> SUFFICES ASSUME ShownRendered, shown.by = "file" PROVE FilesRendered
  BY DEF FilesRendered
<1> DEFINE s == shown.of.text
           v == shown.with
<1>1. s \in Seq(Pieces) /\ v \in Assigned /\ shown.as.text = Rendered(s, v)
  BY DEF ShownRendered
<1> HIDE DEF s, v
<1>2. Uses(s, "default") = {} \/ Plain(v) =>
        shown.as.text = Each(Blocks(s, v), LAMBDA p : IF p.is = "var" THEN SubstituteVariables(<<p>>, v)
                                                                       ELSE Defaults(<<p>>, v))
  BY <1>1, PassesFuse
<1>3. Flat(s) /\ Plain(v) => Uses(shown.as.text, "if") \union Uses(shown.as.text, "endif") = {}
  BY <1>1, RenderedFlat
<1>. QED  BY <1>2, <1>3, Zenon DEF FilesRendered, s, v

\* An email that was rendered is what EmailsRendered says it is.
LEMMA EmailsAreRendered == ShownRendered => EmailsRendered
<1> SUFFICES ASSUME ShownRendered, shown.by = "email" PROVE EmailsRendered
  BY DEF EmailsRendered
<1> DEFINE of == shown.of
           v == shown.with
           as == shown.as
<1>1. /\ of \in EmailTexts /\ v \in Assigned
      /\ as.subject = SubstituteVariables(of.subject, v)
      /\ as.html = SubstituteVariables(of.html, v)
      /\ as.text = IF of.text # NoText THEN SubstituteVariables(of.text, v)
                                       ELSE HtmlToPlainText(of.html)
  BY DEF ShownRendered
<1> HIDE DEF of, v, as
<1>2. of.subject \in Seq(Pieces) /\ of.html \in Seq(Pieces) /\ of.text \in Seq(Pieces)
  <2> HIDE DEF Pieces
  <2>. QED  BY <1>1 DEF EmailTexts
<1>3. Plain(v) => Unfilled(as.subject, v) \union Unfilled(as.html, v) = {}
  BY <1>1, <1>2, SubstitutedTexts
<1>4. of.text # NoText => (Plain(v) => Unfilled(as.text, v) = {})
  BY <1>1, <1>2, SubstitutedTexts
<1>5. of.text = NoText =>
        Uses(as.text, "var")
          = {of.html[i] : i \in {k \in DOMAIN of.html : of.html[k].is = "var" /\ ~ InTag(of.html, k)}}
  BY <1>1, <1>2, TextOutsideTags
<1>. QED  BY <1>3, <1>4, <1>5, Zenon DEF EmailsRendered, Unfilled, of, v, as

-----------------------------------------------------------------------------
(* The services side by side.                                              *)

\* Every step of the services is one of each service, or leaves it alone.
LEMMA StepsOfEach ==
  ASSUME [Next]_vars
  PROVE  /\ [SchedulerNext]_schedulerVars /\ [DlqNext \/ PurgeAcknowledged]_dlqVars
         /\ [RecurringNext]_recurringVars /\ [VerifyNext]_verifyVars /\ [KeyNext]_keyStore
         /\ [LoggerNext]_loggerVars /\ [CustomerNext]_customerVars /\ [BillingNext]_billingVars
         /\ [BackupNext]_backupVars /\ [SignerNext]_signerVars /\ [TemplatesNext]_templateVars
<1>1. CASE Next
  <2>1. /\ [RecurringNext]_recurringVars /\ [VerifyNext]_verifyVars /\ [KeyNext]_keyStore
        /\ [LoggerNext]_loggerVars /\ [CustomerNext]_customerVars /\ [BillingNext]_billingVars
        /\ [BackupNext]_backupVars /\ [SignerNext]_signerVars /\ [TemplatesNext]_templateVars
    BY <1>1 DEF Next
  <2>2. MaintenanceNext \/ (OnceStep /\ UNCHANGED dlqVars) \/ UNCHANGED maintenanceVars
    BY <1>1 DEF Next
  <2>3. ASSUME MaintenanceNext
        PROVE  [SchedulerNext]_schedulerVars /\ [DlqNext \/ PurgeAcknowledged]_dlqVars
    <3>1. CASE CronStep /\ UNCHANGED dlqVars
      BY <3>1 DEF SchedulerNext, CronStep
    <3>2. CASE DlqNext /\ UNCHANGED schedulerVars
      BY <3>2
    <3>3. CASE PurgeRuns
      BY <3>3, MaintenanceAssumption DEF PurgeRuns, SchedulerNext, CronStep
    <3>4. CASE \E j \in CronJobs : RegisterTask(j) \/ OtherTaskEnds(j)
      BY <3>4 DEF RegisterTask, OtherTaskEnds, SchedulerNext, CronStep
    <3>. QED  BY <2>3, <3>1, <3>2, <3>3, <3>4 DEF MaintenanceNext
  <2>4. CASE OnceStep /\ UNCHANGED dlqVars
    BY <2>1, <2>4 DEF SchedulerNext
  <2>5. CASE UNCHANGED maintenanceVars
    BY <2>1, <2>5 DEF maintenanceVars
  <2>. QED  BY <2>1, <2>2, <2>3, <2>4, <2>5
<1>2. CASE UNCHANGED vars
  BY <1>2 DEF vars, maintenanceVars
<1>. QED  BY <1>1, <1>2

\* Together, the invariants of the services are inductive.
LEMMA Invariance == Spec => []IInv
<1>1. Init => IInv
  BY SchedulerInduction, RecurringInduction, DlqInduction, VerifyInduction, KeyInduction,
     SignerInduction, LoggerInduction, CustomerInduction, BillingInduction, BackupInduction,
     TemplatesInduction, AuditsInduction, NestingInduction, ShownInduction
  DEF Init, MaintenanceInit, IInv
<1>2. IInv /\ [Next]_vars => IInv'
  BY StepsOfEach, SchedulerInduction, RecurringInduction, DlqInduction, VerifyInduction,
     KeyInduction, SignerInduction, LoggerInduction, CustomerInduction, BillingInduction,
     BackupInduction, TemplatesInduction, AuditsInduction, NestingInduction, ShownInduction
  DEF IInv
<1>. QED  BY <1>1, <1>2, PTL DEF Spec

\* The schedulers' timers are those their tasks call for: a cron job ticks if and
\* only if it was scheduled and not paused since, a one-time task and a recurring
\* one have the timers their state says, however runs, pauses and removals
\* interleave; and the dead letter queue shows every letter nobody has handled
\* to a caller that asks for as many as there are, the oldest first, and counts them.
THEOREM TimersMatch == Spec => []SchedulersConsistent
<1>1. IInv => SchedulersConsistent
  BY UnhandledCounted DEF IInv, SchedulerInv, RecurringInv, SchedulersConsistent
<1>. QED  BY <1>1, Invariance, PTL

\* A verification token is spent once; only the newest key of a purpose is handed
\* out; what verifyToken says of a token depends on the secret it was signed with,
\* its age and its claims, as stated with SignedTokensVerify.
THEOREM CredentialsDie == Spec => []CredentialsStayDead
<1>1. IInv => CredentialsStayDead
  BY KeysFound, TokensVerify DEF IInv, VerifyInv, CredentialsStayDead
<1>. QED  BY <1>1, Invariance, PTL

\* Whatever listeners log and throw from within listeners: the history is the
\* newest events, every event is given to '*' listeners once or was cut off by a
\* listener that threw, and an event logged while another is being given to
\* listeners has been given to all of its own before that one goes on.
THEOREM LogsAreFaithful == Spec => []LogsFaithful
<1>1. IInv => LogsFaithful
  BY DEF IInv, LoggerInv, NestingInv, LogsFaithful
<1>. QED  BY <1>1, Invariance, PTL

\* The books balance in every state of the inductive invariant.
LEMMA BooksKept == IInv => BooksBalance
<1>1. IInv => interactions \in [Customers \X InteractionTypes -> Nat]
  BY DEF IInv, CustomerInv, CustomerTypeOK
<1>. QED
  BY <1>1, InvoicesDoAddUp, ReportsDoAgree, ReportDoesCountAll DEF IInv, BooksBalance

\* Subtotal and tax of an invoice add up to its total within a cent, and no discount
\* of up to 100 percent raises that by more, but for negative amounts and a tax above
\* 100 percent; customers' revenues, paid and outstanding amounts add up in the
\* reports, and interactions by customer and by type are the same number.
THEOREM BooksAreBalanced == Spec => []BooksBalance
BY BooksKept, Invariance, PTL

\* Emails stay unique unless an update rewrites one, the import's counters add up
\* to its rows and customers, no prune deletes a recent backup or gets past a
\* directory, and a cached file is one the disk has had since the last clear.
THEOREM StoresAgree == Spec => []StoresConsistent
<1>1. IInv => StoresConsistent
  BY BooksKept, BackupsRestore DEF IInv, CustomerInv, TemplatesInv, StoresConsistent
<1>. QED  BY <1>1, Invariance, PTL

\* A query returns the newest of the events it is for, and as many as it may; a file
\* is rendered in one pass over the pieces its blocks leave, none of them a marker,
\* and an email leaves no variable that was passed unfilled, but for a text made from
\* its HTML, which shows the variables outside of tags and no other: for every text,
\* every assignment and every audit log.
THEOREM OutputsAreSound == Spec => []OutputsSound
<1>1. IInv => QueriesReturnNewest
  BY QueriesNewest, LoggerAssumption DEF IInv, LoggerInv
<1>2. IInv => OutputsSound
  BY <1>1, FilesAreRendered, EmailsAreRendered DEF IInv, OutputsSound
<1>. QED  BY <1>2, Invariance, PTL

\* Every variable of the services keeps its type.
THEOREM ServicesTyped == Spec => []ServicesTypeOK
<1>1. KeyInv => KeyTypeOK
  <2> SUFFICES ASSUME KeyInv, NEW p \in Purposes, NEW i \in DOMAIN keyStore[p]
               PROVE  keyStore[p][i] \in KeyRecords
    BY DEF KeyInv, KeyTypeOK, KeyRecords
  <2>1. keyStore[p] \in Seq(KeyRecords)
    BY DEF KeyInv
  <2>. QED  BY <2>1
<1>2. IInv => ServicesTypeOK
  BY <1>1, BillingTyped, BackupsRestore
  DEF IInv, SchedulerInv, RecurringInv, DlqInv, VerifyInv, LoggerInv, CustomerInv,
      TemplatesInv, ServicesTypeOK
<1>. QED  BY <1>2, Invariance, PTL
=============================================================================
