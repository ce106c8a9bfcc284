------------------------------ MODULE Database ------------------------------
(***************************************************************************)
(* The database services side by side.  They share no variable, so each    *)
(* behaviour runs one of them, chosen at the start, and leaves the others  *)
(* in their initial state.                                                 *)
(***************************************************************************)
EXTENDS Migrations, PostgresService, VectorStore

VARIABLE service

vars == <<service, migrationsVars, poolVars, vectorVars>>

Init ==
  /\ service \in {"migrations", "pool", "vectors"}
  /\ MigrationsInit /\ PoolInit /\ VectorInit

\* The service takes its step and the variables of the others stay as they are.
Next ==
  /\ UNCHANGED service
  /\ IF service = "migrations" THEN MigrationsNext ELSE UNCHANGED migrationsVars
  /\ IF service = "pool" THEN PoolNext ELSE UNCHANGED poolVars
  /\ IF service = "vectors" THEN VectorNext ELSE UNCHANGED vectorVars

Spec == Init /\ [][Next]_vars /\ MigrationsFairness /\ PoolFairness

\* Every variable of the three services has its type.
DatabaseTypeOK == MigrationsTypeOK /\ PoolTypeOK /\ VectorTypeOK

\* What is started ends: a migration run in a migrated schema, and closePool.
StartedCallsEnd == EventuallyMigrated /\ ClosesEnd
=============================================================================
