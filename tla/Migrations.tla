------------------------------ MODULE Migrations ------------------------------
(***************************************************************************)
(* The migrations runner of src/services/database/migrations.ts, run by    *)
(* several callers (instances of a deployment, or calls within one) on one *)
(* database.                                                               *)
(*                                                                         *)
(* PostgreSQL is external.  What is used of it: a transaction's changes    *)
(* appear at its commit or never; a statement sees what is committed when  *)
(* it runs (READ COMMITTED); creating, dropping, inserting or deleting what *)
(* another open transaction has created, dropped, inserted or deleted waits *)
(* for that transaction.  Losing the connection, or the process, ends the  *)
(* transaction, and at the COMMIT either way.                              *)
(***************************************************************************)
EXTENDS Integers, FiniteSets

CONSTANTS
  Versions,      \* versions in MIGRATIONS
  Callers,       \* concurrent callers of the runner
  MaxRollbacks,  \* bound on calls of rollbackMigrations
  MaxFaults      \* bound on failing statements and lost connections

ASSUME MigrationsAssumption ==
  /\ Versions \subseteq Nat /\ IsFiniteSet(Versions)
  /\ MaxRollbacks \in Nat /\ MaxFaults \in Nat

VARIABLES
  tracking,   \* schema_migrations exists
  tables,     \* versions whose change is in the committed schema
  recorded,   \* versions with a committed row in schema_migrations
  op,         \* the function a caller is in, or was in last
  step,       \* the statement it sends next; "idle" outside a call
  work,       \* versions it still has to apply or to roll back
  tx,         \* what its open transaction has changed
  failed,     \* callers whose last run ended in an error
  rollbacks, faults,
  overlapped  \* history: a run and a rollback have been under way together

migrationsVars ==
  <<tracking, tables, recorded, op, step, work, tx, failed, rollbacks, faults, overlapped>>

MigrationsInit ==
  /\ tracking = FALSE /\ tables = {} /\ recorded = {}
  /\ op = [c \in Callers |-> "run"]
  /\ step = [c \in Callers |-> "idle"]
  /\ work = [c \in Callers |-> {}]
  /\ tx = [c \in Callers |-> {}]
  /\ failed = {}
  /\ rollbacks = 0 /\ faults = 0
  /\ overlapped = FALSE

Active(c) == step[c] # "idle"
Least(S) == CHOOSE v \in S : \A w \in S : v <= w
Greatest(S) == CHOOSE v \in S : \A w \in S : w <= v

\* A run goes up from the lowest pending version, a rollback down.
Current(c) == IF op[c] = "run" THEN Least(work[c]) ELSE Greatest(work[c])

\* Another open transaction has made the same change.
Locked(c, what) ==
  \E d \in Callers \ {c} :
    what \in tx[d] /\ op[d] = op[c] /\ Current(d) = Current(c)

Return(c, outcome) ==
  /\ step' = [step EXCEPT ![c] = "idle"]
  /\ failed' = IF op[c] # "run" THEN failed
               ELSE IF outcome = "ok" THEN failed \ {c} ELSE failed \union {c}
  /\ work' = [work EXCEPT ![c] = {}]
  /\ tx' = [tx EXCEPT ![c] = {}]

-----------------------------------------------------------------------------
\* runMigrations, rollbackMigrations or getMigrationStatus is called.
Call(c, o) ==
  /\ ~ Active(c)
  /\ o = "rollback" => rollbacks < MaxRollbacks
  /\ rollbacks' = IF o = "rollback" THEN rollbacks + 1 ELSE rollbacks
  /\ op' = [op EXCEPT ![c] = o]
  /\ step' = [step EXCEPT ![c] = "ensure"]
  /\ overlapped' = (overlapped \/ \E d \in Callers :
                      Active(d) /\ {op[d], o} = {"run", "rollback"})
  /\ UNCHANGED <<tracking, tables, recorded, work, tx, failed, faults>>

EnsureMigrationsTable(c) ==
  /\ step[c] = "ensure"
  /\ tracking' = TRUE
  /\ step' = [step EXCEPT ![c] = "read"]
  /\ UNCHANGED <<tables, recorded, op, work, tx, failed, rollbacks, faults, overlapped>>

Begin(c, versions) ==
  IF versions = {} THEN Return(c, "ok")
  ELSE /\ step' = [step EXCEPT ![c] = "change"]
       /\ work' = [work EXCEPT ![c] = versions]
       /\ UNCHANGED <<tx, failed>>

LastApplied(n) == {v \in recorded : Cardinality({w \in recorded : v <= w}) <= n}

\* The applied versions are read once, outside of any transaction.
GetAppliedMigrations(c) ==
  /\ step[c] = "read" /\ op[c] # "status"
  /\ CASE op[c] = "run" -> Begin(c, Versions \ recorded)
       [] op[c] = "rollback" ->
            \E steps \in 0 .. Cardinality(Versions) : Begin(c, LastApplied(steps))
  /\ UNCHANGED <<tracking, tables, recorded, op, rollbacks, faults, overlapped>>

GetMigrationStatus(c) ==
  /\ step[c] = "read" /\ op[c] = "status"
  /\ Return(c, "ok")
  /\ UNCHANGED <<tracking, tables, recorded, op, rollbacks, faults, overlapped>>

\* A migration's "up" is CREATE TABLE IF NOT EXISTS, its "down" DROP TABLE IF
\* EXISTS: each changes the schema only where the other has left it.
HasEffect(c) == (Current(c) \in tables) # (op[c] = "run")

\* BEGIN and the migration's SQL.
ChangeSchema(c) ==
  /\ step[c] = "change"
  /\ ~ Locked(c, "table")
  /\ tx' = IF HasEffect(c) THEN [tx EXCEPT ![c] = @ \union {"table"}] ELSE tx
  /\ step' = [step EXCEPT ![c] = "record"]
  /\ UNCHANGED <<tracking, tables, recorded, op, work, failed, rollbacks, faults, overlapped>>

\* Mutant: the row is written through the pool instead of the transaction's client.
RecordVersionByPool(c) ==
  /\ step[c] = "record"
  /\ recorded' = IF op[c] = "run" THEN recorded \union {Current(c)}
                                  ELSE recorded \ {Current(c)}
  /\ step' = [step EXCEPT ![c] = "commit"]
  /\ UNCHANGED <<tracking, tables, op, work, tx, failed, rollbacks, faults, overlapped>>

\* The INSERT into, or DELETE from, schema_migrations.  The INSERT of a recorded
\* version violates the primary key.
RecordVersion(c) ==
  /\ step[c] = "record"
  /\ ~ Locked(c, "row")
  /\ IF Current(c) \in recorded /\ op[c] = "run"
     THEN step' = [step EXCEPT ![c] = "undo"] /\ UNCHANGED tx
     ELSE /\ step' = [step EXCEPT ![c] = "commit"]
          /\ IF Current(c) \notin recorded /\ op[c] = "rollback"
             THEN tx' = tx
             ELSE tx' = [tx EXCEPT ![c] = @ \union {"row"}]
  /\ UNCHANGED <<tracking, tables, recorded, op, work, failed, rollbacks, faults, overlapped>>

\* What the server does at a COMMIT.
Publish(c) ==
  LET change(S, what) ==
        IF what \notin tx[c] THEN S
        ELSE IF op[c] = "run" THEN S \union {Current(c)} ELSE S \ {Current(c)}
  IN  tables' = change(tables, "table") /\ recorded' = change(recorded, "row")

\* Mutant: the loop returns after its first migration.
CommitOnlyOne(c) ==
  /\ step[c] = "commit"
  /\ Publish(c)
  /\ Return(c, "ok")
  /\ UNCHANGED <<tracking, op, rollbacks, faults, overlapped>>

\* Mutant: COMMIT is left out, so the next migration begins on top of this one.
CommitLeftOut(c) ==
  /\ step[c] = "commit"
  /\ IF work[c] = {Current(c)} THEN Return(c, "ok")
     ELSE /\ work' = [work EXCEPT ![c] = @ \ {Current(c)}]
          /\ step' = [step EXCEPT ![c] = "change"]
          /\ UNCHANGED <<tx, failed>>
  /\ UNCHANGED <<tracking, tables, recorded, op, rollbacks, faults, overlapped>>

\* COMMIT; the loop goes on with the next version.
Commit(c) ==
  /\ step[c] = "commit"
  /\ Publish(c)
  /\ IF work[c] = {Current(c)} THEN Return(c, "ok")
     ELSE /\ work' = [work EXCEPT ![c] = @ \ {Current(c)}]
          /\ tx' = [tx EXCEPT ![c] = {}]
          /\ step' = [step EXCEPT ![c] = "change"]
          /\ UNCHANGED failed
  /\ UNCHANGED <<tracking, op, rollbacks, faults, overlapped>>

\* The catch block of withTransaction; the error leaves the loop.
Rollback(c) ==
  /\ step[c] = "undo"
  /\ Return(c, "error")
  /\ UNCHANGED <<tracking, tables, recorded, op, rollbacks, faults, overlapped>>

\* The server rejects a statement.
StatementFails(c) ==
  /\ faults < MaxFaults /\ faults' = faults + 1
  /\ \/ /\ step[c] \in {"ensure", "read"}
        /\ Return(c, "error")
     \/ /\ step[c] \in {"change", "record", "commit"}
        /\ step' = [step EXCEPT ![c] = "undo"]
        /\ UNCHANGED <<work, tx, failed>>
  /\ UNCHANGED <<tracking, tables, recorded, op, rollbacks, overlapped>>

\* The connection breaks or the process dies.  During a COMMIT the transaction
\* may have been committed or not.
ConnectionLost(c) ==
  /\ Active(c)
  /\ faults < MaxFaults /\ faults' = faults + 1
  /\ UNCHANGED <<tables, recorded>> \/ (step[c] = "commit" /\ Publish(c))
  /\ Return(c, "error")
  /\ UNCHANGED <<tracking, op, rollbacks, overlapped>>

-----------------------------------------------------------------------------
\* A statement of runMigrations, of rollbackMigrations, which sends the same ones
\* for the versions it removes, or of getMigrationStatus.
Proceed(c) ==
  \/ EnsureMigrationsTable(c) \/ GetAppliedMigrations(c) \/ GetMigrationStatus(c)
  \/ ChangeSchema(c) \/ RecordVersion(c) \/ Commit(c) \/ Rollback(c)

RunAgain(c) == c \in failed /\ Call(c, "run")

MigrationsNext ==
  \E c \in Callers :
    \/ \E o \in {"run", "rollback", "status"} : Call(c, o)
    \/ Proceed(c)
    \/ StatementFails(c) \/ ConnectionLost(c)

MigrationsSpec == MigrationsInit /\ [][MigrationsNext]_migrationsVars

\* The database answers, and whoever deploys runs a failed migration again
\* sooner or later.
MigrationsFairness ==
  \A c \in Callers : WF_migrationsVars(Proceed(c)) /\ SF_migrationsVars(RunAgain(c))

-----------------------------------------------------------------------------
MigrationsTypeOK ==
  /\ tracking \in BOOLEAN /\ overlapped \in BOOLEAN
  /\ tables \subseteq Versions /\ recorded \subseteq Versions
  /\ op \in [Callers -> {"run", "rollback", "status"}]
  /\ step \in [Callers -> {"idle", "ensure", "read", "change", "record", "commit", "undo"}]
  /\ work \in [Callers -> SUBSET Versions]
  /\ tx \in [Callers -> SUBSET {"table", "row"}]
  /\ failed \subseteq Callers
  /\ rollbacks \in 0 .. MaxRollbacks /\ faults \in 0 .. MaxFaults
  /\ \A c \in Callers : step[c] \in {"change", "record", "commit"} => work[c] # {}
  /\ \A c \in Callers : tx[c] # {} => step[c] \in {"record", "commit", "undo"}

\* The record and the schema agree, whatever callers overlap and wherever they
\* fail, unless a run overlaps with a rollback: the versions recorded are those
\* whose change is in the schema, and they have no gap.  (An overlapping
\* rollback can drop a table that a run has just found to exist.)
RecordMatchesSchema ==
  ~ overlapped =>
    /\ recorded = tables
    /\ \A v \in recorded : \A w \in Versions : w < v => w \in recorded

\* A run that returns has left everything applied, if no rollback overlapped;
\* and a run that is started gets there, however often it has to be repeated.
EventuallyMigrated ==
  \A c \in Callers :
    (Active(c) /\ op[c] = "run") ~> (recorded = Versions \/ overlapped)
=============================================================================
