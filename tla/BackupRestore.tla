----------------------------- MODULE BackupRestore -----------------------------
(***************************************************************************)
(* The backup directory of src/services/database/backupRestore.ts, shared  *)
(* by several processes.  Backups are numbered in the order of their names. *)
(*                                                                         *)
(* External: pg_dump writes the file given with -f whatever its output is  *)
(* piped into; the exit status of a pipe is that of its last command; psql  *)
(* succeeds whatever the statements it reads do, even if there are none;   *)
(* pg_restore fails if one statement does; unlink refuses a directory.     *)
(***************************************************************************)
EXTENDS Integers, Sequences, FiniteSets

CONSTANTS
  Pruners,    \* concurrent calls of pruneOldBackups, in processes of their own
  MaxBackups  \* bound on backups made

ASSUME BackupAssumption == MaxBackups \in Nat

Formats == {"plain", "custom", "directory", "tar"}

VARIABLES
  backups,    \* the backups begun: format, compress and state of the file
  onDisk,     \* those whose file is in the directory
  old,        \* those whose mtime is before the cutoff of a prune
  listed,     \* files a prune still has to visit
  doomed,     \* files older than the cutoff it took
  prune       \* "idle", "running", or how the last one ended: "ok", "thrown"

backupVars == <<backups, onDisk, old, listed, doomed, prune>>

BackupInit ==
  /\ backups = <<>> /\ onDisk = {} /\ old = {}
  /\ listed = [p \in Pruners |-> {}] /\ doomed = [p \in Pruners |-> {}]
  /\ prune = [p \in Pruners |-> "idle"]

\* Mutant: compress decides before the format does.
ExtensionByCompress(b) ==
  IF b.compress THEN ".gz" ELSE IF b.format = "custom" THEN ".dump" ELSE ".sql"

Extension(b) ==
  IF b.format = "custom" THEN ".dump" ELSE IF b.compress THEN ".gz" ELSE ".sql"

\* createBackup returned: the exit status of gzip hides a failure of pg_dump.
Reported(b) ==
  \/ b.state = "complete"
  \/ b.state = "broken" /\ b.compress /\ b.format # "custom"

\* What restoreBackup may do: the file goes to pg_restore or through cat or zcat to
\* psql, which can read plain SQL only; "misled" is a success in vain.  zcat
\* refuses what is not compressed.
RestoreResults(b) ==
  CASE Extension(b) = ".dump" /\ b.format = "custom" ->
         IF b.state = "complete" THEN {"restored", "failed"} ELSE {"failed"}
    [] Extension(b) = ".sql" /\ b.format = "plain" /\ b.state = "complete" ->
         {"restored", "misled", "failed"}
    [] OTHER -> {"misled", "failed"}

-----------------------------------------------------------------------------
\* createBackup up to the end of pg_dump's first write; the process that calls it
\* is blocked until pg_dump ends, others are not.
CreateBackup(format, compress) ==
  /\ Len(backups) < MaxBackups
  /\ backups' = Append(backups, [format |-> format, compress |-> compress,
                                 state |-> "writing"])
  /\ onDisk' = onDisk \union {Len(backups) + 1}
  /\ UNCHANGED <<old, listed, doomed, prune>>

\* pg_dump ends; the file of a failed one stays.
DumpEnds(n) ==
  /\ backups[n].state = "writing"
  /\ \E state \in {"complete", "broken"} : backups' = [backups EXCEPT ![n].state = state]
  /\ UNCHANGED <<onDisk, old, listed, doomed, prune>>

\* Backups age in the order they were made: a dump takes less than a day.
Ages ==
  /\ old' \in {old \union {n} : n \in {m \in DOMAIN backups : old = 1 .. m - 1}}
  /\ backups[Cardinality(old')].state # "writing"
  /\ UNCHANGED <<backups, onDisk, listed, doomed, prune>>

\* pruneOldBackups takes its cutoff and lists the directory ...
PruneOldBackups(p) ==
  /\ prune[p] # "running"
  /\ prune' = [prune EXCEPT ![p] = "running"]
  /\ listed' = [listed EXCEPT ![p] = onDisk]
  /\ doomed' = [doomed EXCEPT ![p] = onDisk \cap old]
  /\ UNCHANGED <<backups, onDisk, old>>

\* ... and visits the files in order.  It throws at one that another process has
\* deleted, and at a directory it wants to delete.
Refused(p, n) == n \notin onDisk \/ (n \in doomed[p] /\ backups[n].format = "directory")

Visit(p) ==
  \E n \in listed[p] :
    /\ prune[p] = "running"
    /\ \A m \in listed[p] : n <= m
    /\ IF Refused(p, n)
       THEN prune' = [prune EXCEPT ![p] = "thrown"] /\ UNCHANGED <<onDisk, listed>>
       ELSE /\ onDisk' = onDisk \ (doomed[p] \cap {n})
            /\ listed' = [listed EXCEPT ![p] = @ \ {n}]
            /\ UNCHANGED prune
    /\ UNCHANGED <<backups, old, doomed>>

PruneReturns(p) ==
  /\ prune[p] = "running" /\ listed[p] = {}
  /\ prune' = [prune EXCEPT ![p] = "ok"]
  /\ UNCHANGED <<backups, onDisk, old, listed, doomed>>

-----------------------------------------------------------------------------
BackupNext ==
  \/ \E format \in Formats : \E compress \in BOOLEAN : CreateBackup(format, compress)
  \/ \E n \in DOMAIN backups : DumpEnds(n)
  \/ Ages
  \/ \E p \in Pruners : PruneOldBackups(p) \/ Visit(p) \/ PruneReturns(p)

BackupSpec == BackupInit /\ [][BackupNext]_backupVars

-----------------------------------------------------------------------------
BackupTypeOK ==
  /\ \A n \in DOMAIN backups :
       backups[n] \in [format : Formats, compress : BOOLEAN,
                       state : {"writing", "complete", "broken"}]
  /\ onDisk \subseteq DOMAIN backups /\ old \subseteq DOMAIN backups
  /\ \A p \in Pruners : listed[p] \union doomed[p] \subseteq DOMAIN backups
  /\ prune \in [Pruners -> {"idle", "running", "ok", "thrown"}]

\* What createBackup reports can be restored by restoreBackup, if the format is
\* custom, or plain without compression, and restoring a custom backup never
\* reports success in vain.  No other combination can be restored at all.
ReportedIsRestorable ==
  \A n \in DOMAIN backups :
    LET b == backups[n]
        sound == b.format = "custom" \/ (b.format = "plain" /\ ~ b.compress)
    IN  /\ Reported(b) /\ sound => "restored" \in RestoreResults(b)
        /\ ~ sound => "restored" \notin RestoreResults(b)
        /\ b.format = "custom" => "misled" \notin RestoreResults(b)

\* Nothing recent is deleted, and a prune that returns has deleted every old
\* backup it found.  But no prune gets past a directory: as soon as a backup has
\* that format it stays for ever, and so does every later one.
PruneAccounted ==
  /\ DOMAIN backups \ onDisk \subseteq old
  /\ \A p \in Pruners : prune[p] = "ok" => doomed[p] \cap onDisk = {}
  /\ \A n \in DOMAIN backups : backups[n].format = "directory" =>
       n .. Len(backups) \subseteq onDisk

\* Backups are usable and kept as long as they should be.
BackupsSound == ReportedIsRestorable /\ PruneAccounted
=============================================================================
