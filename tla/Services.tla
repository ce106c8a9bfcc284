------------------------------ MODULE Services ------------------------------
(***************************************************************************)
(* The services without a database side by side.  They share no variable,  *)
(* so each behaviour runs one of them, with cron jobs and the dead letter  *)
(* queue they purge taken together, and leaves the others as they start.   *)
(***************************************************************************)
EXTENDS Maintenance, RecurringTasks, VerifyEmail, KeyManagement, EventLogger,
        CustomerStore, Billing, BackupRestore, TokenSigner, Templates

VARIABLE service

vars == <<service, maintenanceVars, recurringVars, verifyVars, keyStore, loggerVars,
          customerVars, billingVars, backupVars, signerVars, templateVars>>

Init ==
  /\ service \in {"maintenance", "once", "recurring", "tokens", "keys", "logs",
                 "customers", "billing", "backups", "signer", "templates"}
  /\ MaintenanceInit /\ RecurringInit /\ VerifyInit /\ KeyInit /\ LoggerInit
  /\ CustomerInit /\ BillingInit /\ BackupInit /\ SignerInit /\ TemplatesInit
  /\ service # "templates" => files = [n \in Names |-> CHOOSE s \in Sources : TRUE]

\* The service takes its step and the variables of the others stay as they are.
Next ==
  /\ UNCHANGED service
  /\ CASE service = "maintenance" -> MaintenanceNext
       [] service = "once" -> OnceStep /\ UNCHANGED dlqVars
       [] OTHER -> UNCHANGED maintenanceVars
  /\ IF service = "recurring" THEN RecurringNext ELSE UNCHANGED recurringVars
  /\ IF service = "tokens" THEN VerifyNext ELSE UNCHANGED verifyVars
  /\ IF service = "keys" THEN KeyNext ELSE UNCHANGED keyStore
  /\ IF service = "logs" THEN LoggerNext ELSE UNCHANGED loggerVars
  /\ IF service = "customers" THEN CustomerNext ELSE UNCHANGED customerVars
  /\ IF service = "billing" THEN BillingNext ELSE UNCHANGED billingVars
  /\ IF service = "backups" THEN BackupNext ELSE UNCHANGED backupVars
  /\ IF service = "signer" THEN SignerNext ELSE UNCHANGED signerVars
  /\ IF service = "templates" THEN TemplatesNext ELSE UNCHANGED templateVars

Spec == Init /\ [][Next]_vars /\ MaintenanceFairness

\* Every variable of the services has its type.
ServicesTypeOK ==
  /\ SchedulerTypeOK /\ DlqTypeOK /\ RecurringTypeOK /\ VerifyTypeOK /\ KeyTypeOK
  /\ LoggerTypeOK /\ CustomerTypeOK /\ BillingTypeOK /\ BackupTypeOK
  /\ SignerTypeOK /\ TemplatesTypeOK

\* The schedulers' timers are those their tasks call for, and the dead letter
\* queue that one of them purges loses nothing that was not handled.
SchedulersConsistent == CronTimersMatch /\ OnceTimersMatch /\ IntervalsMatch /\ UnhandledStay

\* Neither a token nor a key is of use again once it was spent, superseded or signed
\* with another secret; until then a signed token is, for whoever asks for its claims.
CredentialsStayDead == TokensSpentOnce /\ NewestKeyOnly /\ SignedTokensVerify

\* The event history is the newest events, and listeners are given each event once,
\* in an order that nested and throwing listeners cannot confuse.
LogsFaithful == HistoryIsNewest /\ EmittedOnce /\ NestedFirst

\* Invoices add up, before and after a discount, and so do the reports made of
\* invoices and of interactions, but for the exceptions stated with each.
BooksBalance == InvoicesAddUp /\ ReportsAgree /\ ReportCountsAll

\* Customers and imports, invoices and reports, backups and cached files are accounted
\* for, but for the exceptions stated with each.
StoresConsistent ==
  EmailsUnique /\ ImportAccounted /\ BooksBalance /\ BackupsSound /\ CacheIsRecent

\* Queries and rendered templates are what their callers take them for, but for the
\* exceptions stated with each.
OutputsSound == QueriesReturnNewest /\ FilesRendered /\ EmailsRendered
=============================================================================
