---------------------------- MODULE DatabaseFile ----------------------------
(***************************************************************************)
(* The database as a file: the daemons' connections with SQLite's log      *)
(* beside the main file, and the commands of cli/tradectl.py that create,  *)
(* migrate, seed, back up, restore and delete it, any of which may die     *)
(* half way.  SQLite keeps committed transactions in the log until a       *)
(* checkpoint; the last connection to close makes one and removes it.      *)
(***************************************************************************)
EXTENDS Integers, FiniteSets

CONSTANTS
  Daemons,       \* processes with cached connections
  MaxTxns,       \* bound: transactions committed by the daemons
  MaxCommands,   \* bound: commands begun
  MaxDeaths      \* bound: commands that die

ASSUME DatabaseFileAssumption == {MaxTxns, MaxCommands, MaxDeaths} \subseteq Nat

VARIABLES
  main,      \* the file at db_path
  wal,       \* the log beside it: what its frames make of the file
  backups,   \* copies: of `backup`, and those made before deleting
  conn,      \* each daemon: no connection, the file, or one deleted since
  cmd,       \* the command of the one person at tradectl
  txns,      \* how many transactions the daemons have committed
  begun,     \* how many commands were begun
  scars,     \* history: where commands died
  unclean    \* history: a daemon was killed or had the file deleted under it

vars == <<main, wal, backups, conn, cmd, txns, begun, scars, unclean>>

Columns == {"entry_atm_iv", "entry_underlying"}

Content ==
  [txns : SUBSET (1 .. MaxTxns), tables : BOOLEAN, columns : SUBSET Columns,
   versions : SUBSET (1 .. 3), cash : {"none", "seed", "settings"}]

NoFile == [none |-> TRUE]

Empty == [txns |-> {}, tables |-> FALSE, columns |-> {}, versions |-> {},
          cash |-> "none"]

OldFile == [txns |-> {}, tables |-> TRUE, columns |-> {}, versions |-> {1},
            cash |-> "settings"]

Idle == [pc |-> "idle", kind |-> "migrate", applied |-> {}, chosen |-> Empty]

Init ==
  /\ main \in {NoFile, OldFile}
  /\ wal = NoFile
  /\ backups = {}
  /\ conn = [d \in Daemons |-> "none"]
  /\ cmd = Idle
  /\ txns = 0 /\ begun = 0 /\ scars = {} /\ unclean = FALSE

Exists == main # NoFile

(***************************************************************************)
(* What a connection to db_path reads.  SQLite drops the log of an empty   *)
(* file.                                                                   *)
(***************************************************************************)
View == IF ~Exists THEN Empty ELSE IF wal # NoFile THEN wal ELSE main

Connected == {"v1", "v2", "alter1", "alter2", "record", "seed", "settings"}

InUse == \E d \in Daemons : conn[d] = "file"

At(pc) == cmd.pc = pc
Goto(pc) == cmd' = [cmd EXCEPT !.pc = pc]
Ends == cmd' = Idle

FromDaemons == <<conn, txns, unclean>>
Histories == <<begun, scars>>

(***************************************************************************)
(* A connection of a command writes; the second form also closes it.       *)
(***************************************************************************)
Writes(content) ==
  /\ main' = IF Exists THEN main ELSE Empty
  /\ wal' = IF content # View THEN content ELSE IF Exists THEN wal ELSE NoFile

WritesAndCloses(content) ==
  IF InUse THEN Writes(content) ELSE main' = content /\ wal' = NoFile

-----------------------------------------------------------------------------
(* The daemons: get_conn, transaction, close_cached *)

Copying == cmd.pc \in {"copy", "unlink"}

Connect(d) ==
  /\ conn[d] = "none"
  /\ ~At("unlinkWal")         \* taken to be one moment for the daemons
  /\ conn' = [conn EXCEPT ![d] = "file"]
  /\ main' = IF Exists THEN main ELSE Empty
  /\ wal' = IF Exists THEN wal ELSE NoFile
  /\ unclean' = (unclean \/ Copying)
  /\ UNCHANGED <<backups, cmd, txns, Histories>>

Commit(d) ==
  /\ txns < MaxTxns
  /\ conn[d] = "deleted" \/ (conn[d] = "file" /\ View.tables)
  /\ txns' = txns + 1
  /\ wal' = IF conn[d] = "file"
              THEN [View EXCEPT !.txns = @ \union {txns + 1}] ELSE wal
  /\ UNCHANGED <<main, backups, conn, cmd, unclean, Histories>>

Checkpoint ==
  /\ InUse
  /\ main # View
  /\ main' = View
  /\ UNCHANGED <<wal, backups, cmd, FromDaemons, Histories>>

Disconnect(d) ==
  LET last == /\ conn[d] = "file"
              /\ \A e \in Daemons \ {d} : conn[e] # "file"
              /\ cmd.pc \notin Connected
  IN  /\ conn[d] # "none"
      /\ conn' = [conn EXCEPT ![d] = "none"]
      /\ main' = IF last THEN View ELSE main
      /\ wal' = IF last THEN NoFile ELSE wal
      /\ UNCHANGED <<backups, cmd, txns, unclean, Histories>>

Killed(d) ==
  /\ conn[d] # "none"
  /\ conn' = [conn EXCEPT ![d] = "none"]
  /\ unclean' = TRUE
  /\ UNCHANGED <<main, wal, backups, cmd, txns, Histories>>

Daemon(d) == Connect(d) \/ Commit(d) \/ Disconnect(d) \/ Killed(d)

-----------------------------------------------------------------------------
(* The commands begin *)

Begin(kind, pc) ==
  /\ At("idle") /\ begun < MaxCommands
  /\ begun' = begun + 1
  /\ cmd' = [Idle EXCEPT !.kind = kind, !.pc = pc]
  /\ UNCHANGED <<main, wal, backups, FromDaemons, scars>>

InitDb == Begin("init-db", "schema")

InitDbForce == Begin("init-db", IF Exists THEN "copy" ELSE "schema")

Migrate == Exists /\ Begin("migrate", "versions")

WipeAnyway == Begin("wipe", "copy")          \* mutant of Wipe
Wipe == Exists /\ Begin("wipe", "copy")

ReseedCash == Exists /\ Begin("reseed-cash", "settings")

RestorePc == IF Exists THEN "copy" ELSE "place"

Restore ==
  /\ At("idle") /\ begun < MaxCommands
  /\ begun' = begun + 1
  /\ \E b \in backups :
       cmd' = [Idle EXCEPT !.kind = "restore", !.chosen = b, !.pc = RestorePc]
  /\ UNCHANGED <<main, wal, backups, FromDaemons, scars>>

Backup ==         \* SQLite's online backup, log and all
  /\ Exists /\ At("idle") /\ begun < MaxCommands
  /\ begun' = begun + 1
  /\ backups' = backups \union {View}
  /\ WritesAndCloses(View)
  /\ UNCHANGED <<cmd, FromDaemons, scars>>

-----------------------------------------------------------------------------
(* Deleting: the copy is of the main file alone *)

NotCopied == {}                              \* mutant of Copied
Copied == {main}

CopyFile ==
  /\ At("copy")
  /\ backups' = backups \union Copied
  /\ unclean' = (unclean \/ InUse)
  /\ Goto("unlink")
  /\ UNCHANGED <<main, wal, conn, txns, Histories>>

UnlinkFile ==
  /\ At("unlink")
  /\ main' = NoFile
  /\ conn' = [d \in Daemons |-> IF conn[d] = "file" THEN "deleted" ELSE conn[d]]
  /\ unclean' = (unclean \/ InUse)
  /\ Goto("unlinkWal")
  /\ UNCHANGED <<wal, backups, txns, Histories>>

LogLeft == wal                               \* mutant of LogUnlinked
LogUnlinked == NoFile

AfterUnlink == IF cmd.kind = "restore" THEN "place" ELSE "schema"

UnlinkLog ==
  /\ At("unlinkWal")
  /\ wal' = LogUnlinked
  /\ IF cmd.kind = "wipe" THEN Ends ELSE Goto(AfterUnlink)
  /\ UNCHANGED <<main, backups, FromDaemons, Histories>>

PlaceBackup ==
  /\ At("place")
  /\ main' = cmd.chosen
  /\ Goto("versions")
  /\ UNCHANGED <<wal, backups, FromDaemons, Histories>>

-----------------------------------------------------------------------------
(* init_schema, _apply_migrations, seeding *)

SchemaBehind == {"entry_atm_iv"}             \* mutant of SchemaColumns
SchemaColumns == Columns

Schema ==         \* CREATE TABLE IF NOT EXISTS throughout
  /\ At("schema")
  /\ WritesAndCloses([View EXCEPT !.tables = TRUE,
                           !.columns = IF View.tables THEN @ ELSE SchemaColumns,
                           !.versions = @ \union {1}])
  /\ Goto("versions")
  /\ UNCHANGED <<backups, FromDaemons, Histories>>

ReadVersions ==
  /\ At("versions")
  /\ Writes(View)
  /\ cmd' = [cmd EXCEPT !.applied = View.versions, !.pc = "v1"]
  /\ UNCHANGED <<backups, FromDaemons, Histories>>

Script(version, here, next) ==   \* 001 and 002, whose statements can be rerun
  /\ At(here)
  /\ Writes(IF version \in cmd.applied THEN View
              ELSE [View EXCEPT !.versions = @ \union {version}])
  /\ Goto(next)
  /\ UNCHANGED <<backups, FromDaemons, Histories>>

MigrationsEnd(content) ==
  /\ WritesAndCloses(content)
  /\ IF cmd.kind = "init-db" THEN Goto("count") ELSE Ends
  /\ UNCHANGED <<backups, FromDaemons, Histories>>

UpToDate ==
  /\ At("alter1") /\ 3 \in cmd.applied
  /\ MigrationsEnd(View)

(***************************************************************************)
(* ALTER TABLE: another statement follows, the column is a duplicate and   *)
(* the whole file counts as applied, or there is no such table and the     *)
(* command fails.                                                          *)
(***************************************************************************)
AddsColumn(here, column, next) ==
  /\ At(here) /\ 3 \notin cmd.applied /\ View.tables
  /\ IF column \in View.columns
       THEN Writes(View) /\ Goto("record")
       ELSE Writes([View EXCEPT !.columns = @ \union {column}]) /\ Goto(next)
  /\ UNCHANGED <<backups, FromDaemons, Histories>>

MigrationRaises ==
  /\ At("alter1") \/ At("alter2")
  /\ 3 \notin cmd.applied /\ ~View.tables
  /\ WritesAndCloses(View)
  /\ Ends
  /\ UNCHANGED <<backups, FromDaemons, Histories>>

RecordsVersion ==
  /\ At("record")
  /\ MigrationsEnd([View EXCEPT !.versions = @ \union {3}])

CountCash ==
  /\ At("count")
  /\ IF View.tables /\ View.cash = "none"
       THEN Writes(View) /\ Goto("seed")
       ELSE WritesAndCloses(View) /\ Ends
  /\ UNCHANGED <<backups, FromDaemons, Histories>>

SeedAlone ==                                 \* mutant of Seed
  /\ At("seed")
  /\ WritesAndCloses([View EXCEPT !.cash = "seed"])
  /\ Ends
  /\ UNCHANGED <<backups, FromDaemons, Histories>>

Seed ==
  /\ At("seed")
  /\ Writes(IF View.cash = "none" THEN [View EXCEPT !.cash = "seed"] ELSE View)
  /\ Goto("settings")
  /\ UNCHANGED <<backups, FromDaemons, Histories>>

ApplySettings ==
  /\ At("settings")
  /\ WritesAndCloses(IF View.cash = "none" THEN View
                          ELSE [View EXCEPT !.cash = "settings"])
  /\ Ends
  /\ UNCHANGED <<backups, FromDaemons, Histories>>

Dies ==
  /\ ~At("idle")
  /\ Cardinality(scars) < MaxDeaths
  /\ scars' = scars \union {cmd.pc}
  /\ Ends
  /\ UNCHANGED <<main, wal, backups, FromDaemons, begun>>

Command ==
  \/ InitDb \/ InitDbForce \/ Migrate \/ Wipe \/ ReseedCash
  \/ Restore \/ Backup
  \/ CopyFile \/ UnlinkFile \/ UnlinkLog \/ PlaceBackup
  \/ Schema \/ ReadVersions
  \/ Script(1, "v1", "v2") \/ Script(2, "v2", "alter1")
  \/ UpToDate \/ AddsColumn("alter1", "entry_atm_iv", "alter2")
  \/ AddsColumn("alter2", "entry_underlying", "record")
  \/ MigrationRaises \/ RecordsVersion
  \/ CountCash \/ Seed \/ ApplySettings
  \/ Dies

Next ==
  \/ \E d \in Daemons : Daemon(d)
  \/ Checkpoint
  \/ Command

Spec == Init /\ [][Next]_vars

-----------------------------------------------------------------------------
Pcs == Connected \union {"idle", "copy", "unlink", "unlinkWal", "place", "schema",
                          "versions", "count"}

CommandType == [pc : Pcs, applied : SUBSET (1 .. 3), chosen : Content,
             kind : {"init-db", "migrate", "wipe", "restore", "reseed-cash"}]

TypeOK ==
  /\ main \in Content \union {NoFile} /\ wal \in Content \union {NoFile}
  /\ backups \in SUBSET Content
  /\ conn \in [Daemons -> {"none", "file", "deleted"}]
  /\ cmd \in CommandType
  /\ txns \in 0 .. MaxTxns /\ begun \in 0 .. MaxCommands
  /\ unclean \in BOOLEAN

(***************************************************************************)
(* wipe, restore and init-db --force copy the file before they delete it.  *)
(* As long as the daemons have been stopped first and in good order, and   *)
(* no command has died with the file open, every transaction is in the     *)
(* file or in a backup, wherever the commands die and are run again.       *)
(***************************************************************************)
Kept == View.txns \union UNION {b.txns : b \in backups}

NothingLost ==
  ~unclean /\ scars \intersect Connected = {} => 1 .. txns \subseteq Kept

(***************************************************************************)
(* docs/runbook.md: migrations are idempotent.  A migration recorded as    *)
(* applied is applied, although a duplicate column makes the file be       *)
(* recorded without having run, unless a migrator stands or has died       *)
(* between the two columns, or a copy was taken between them.              *)
(***************************************************************************)
RecordedMeansApplied ==
  /\ 3 \in View.versions
  /\ "alter2" \notin scars
  /\ ~At("alter2")
  /\ \A b \in backups : b.columns \in {{}, Columns}
  => View.columns = Columns

(***************************************************************************)
(* What restore puts in place is what a reader finds: no frames of the old *)
(* file's log are replayed over it, even when that file was in use or its  *)
(* daemon was killed.  (A restore that dies between the two unlinks leaves *)
(* such a log, and the next one does not look for it.)                     *)
(***************************************************************************)
RestoreIsExact ==
  [][At("place") /\ cmd'.pc = "versions" /\ "unlinkWal" \notin scars
       => View' = cmd.chosen]_vars

(***************************************************************************)
(* The capital and the loss limit are those of settings.toml and not the   *)
(* ones in seed.sql, except while init-db is between the two, has died     *)
(* there or was copied there: the next init-db counts a cash row and       *)
(* leaves it as it is.                                                     *)
(***************************************************************************)
SettingsApplied ==
  /\ View.cash = "seed"
  /\ "settings" \notin scars
  /\ \A b \in backups : b.cash # "seed"
  => At("settings")

=============================================================================
