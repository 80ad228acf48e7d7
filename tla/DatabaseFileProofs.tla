------------------------- MODULE DatabaseFileProofs -------------------------
(***************************************************************************)
(* However many daemons and commands there are, and wherever commands die: *)
(* no transaction is lost by a delete when the daemons were stopped first, *)
(* a restore is exact, and what a reader finds is neither half seeded nor  *)
(* half migrated.                                                          *)
(*                                                                         *)
(* The argument is about the log.  As long as everybody has closed in good *)
(* order, a log is there only while somebody has the file open; so the     *)
(* copy of the main file alone, which is all a delete leaves, is complete. *)
(***************************************************************************)
EXTENDS DatabaseFile, TLAPS

Whole == ~unclean /\ scars \intersect Connected = {}

(***************************************************************************)
(* Where there must be a file, and where there cannot be one.              *)
(***************************************************************************)
FileThere == InUse \/ cmd.pc \in Connected \union {"copy", "unlink"} => Exists

FileGone == At("unlinkWal") => ~Exists

(***************************************************************************)
(* Without a file there is no log but the one a dead delete has left, and  *)
(* none is there to be replayed over a backup.                             *)
(***************************************************************************)
NoStrayLog ==
  ~Exists /\ ~At("unlinkWal") /\ "unlinkWal" \notin scars => wal = NoFile

PlaceEmpty ==
  At("place") /\ (Whole \/ "unlinkWal" \notin scars)
    => wal = NoFile /\ main \in {NoFile, Empty}

(***************************************************************************)
(* In good order: the log belongs to an open connection, nobody writes to  *)
(* a deleted file, and what is about to be deleted is not in use and has   *)
(* been copied.                                                            *)
(***************************************************************************)
LogInUse == Whole => (wal # NoFile => InUse \/ cmd.pc \in Connected)

NoneDeleted == Whole => \A d \in Daemons : conn[d] # "deleted"

CopiedFirst == Whole /\ At("unlink") => ~InUse /\ main \in backups

DbInv ==
  /\ TypeOK
  /\ FileThere /\ FileGone /\ NoStrayLog /\ PlaceEmpty
  /\ LogInUse /\ NoneDeleted /\ CopiedFirst /\ NothingLost

-----------------------------------------------------------------------------
(* What a reader finds *)

LEMMA ContentIsFile ==
  ASSUME NEW c \in Content
  PROVE  c # NoFile
<1>1. "txns" \in DOMAIN c
  BY DEF Content
<1>2. "txns" \notin DOMAIN NoFile
  BY DEF NoFile
<1> QED
  BY <1>1, <1>2

LEMMA FilesTyped ==
  /\ Empty \in Content
  /\ OldFile \in Content
  BY DEF Empty, OldFile, Content, Columns

LEMMA ViewTyped ==
  ASSUME TypeOK
  PROVE  View \in Content
  BY FilesTyped DEF TypeOK, View, Exists

LEMMA ViewUnchanged ==
  ASSUME main' = main, wal' = wal
  PROVE  View' = View /\ Exists' = Exists
  BY DEF View, Exists

LEMMA WritesShow ==
  ASSUME TypeOK, NEW c \in Content, Writes(c)
  PROVE  /\ View' = c /\ Exists'
         /\ main' \in Content \union {NoFile} /\ wal' \in Content \union {NoFile}
<1>1. c # NoFile /\ Empty # NoFile /\ Empty \in Content
  BY ContentIsFile, FilesTyped
<1>2. CASE Exists
  <2>1. main' = main /\ main # NoFile
    BY <1>2 DEF Writes, Exists
  <2>2. wal' = IF c # View THEN c ELSE wal
    BY <1>2 DEF Writes
  <2> QED
    BY <1>1, <1>2, <2>1, <2>2 DEF TypeOK, View, Exists
<1>3. CASE ~Exists
  <2>1. main' = Empty /\ View = Empty
    BY <1>3 DEF Writes, View
  <2>2. wal' = IF c # View THEN c ELSE NoFile
    BY <1>3 DEF Writes
  <2> QED
    BY <1>1, <2>1, <2>2 DEF TypeOK, View, Exists
<1> QED
  BY <1>2, <1>3

LEMMA ClosingShows ==
  ASSUME TypeOK, NEW c \in Content, WritesAndCloses(c)
  PROVE  /\ View' = c /\ Exists'
         /\ main' \in Content \union {NoFile} /\ wal' \in Content \union {NoFile}
         /\ ~InUse => wal' = NoFile
<1>1. CASE InUse
  BY <1>1, WritesShow DEF WritesAndCloses
<1>2. CASE ~InUse
  <2>1. main' = c /\ wal' = NoFile
    BY <1>2 DEF WritesAndCloses
  <2> QED
    BY <2>1, ContentIsFile DEF View, Exists
<1> QED
  BY <1>1, <1>2

-----------------------------------------------------------------------------
(* The steps that write what they have read, with or without closing *)

Deleting == {"copy", "unlink", "unlinkWal", "place"}

WriteStep ==
  /\ \E c \in Content :
       /\ c.txns = View.txns
       /\ (Writes(c) /\ cmd'.pc \in Connected) \/ WritesAndCloses(c)
  /\ cmd.pc \notin Deleting /\ cmd'.pc \notin Deleting
  /\ cmd' \in CommandType /\ begun' \in 0 .. MaxCommands
  /\ backups \subseteq backups' /\ backups' \subseteq Content
  /\ conn' = conn /\ txns' = txns /\ unclean' = unclean /\ scars' = scars

LEMMA InUseUnchanged ==
  ASSUME conn' = conn
  PROVE  InUse' = InUse
  BY DEF InUse

LEMMA KeptGrows ==
  ASSUME View.txns \subseteq View'.txns, backups \subseteq backups'
  PROVE  Kept \subseteq Kept'
  BY DEF Kept

LEMMA WriteStepKeeps ==
  ASSUME DbInv, WriteStep
  PROVE  DbInv'
<1> USE DEF DbInv
<1>1. PICK c \in Content :
        /\ c.txns = View.txns
        /\ (Writes(c) /\ cmd'.pc \in Connected) \/ WritesAndCloses(c)
  BY DEF WriteStep
<1>2. /\ View' = c /\ Exists'
      /\ main' \in Content \union {NoFile} /\ wal' \in Content \union {NoFile}
      /\ cmd'.pc \notin Connected /\ ~InUse => wal' = NoFile
  BY <1>1, WritesShow, ClosingShows
<1>3. InUse' = InUse /\ Whole' = Whole
  BY InUseUnchanged DEF WriteStep, Whole
<1>4. TypeOK'
  BY <1>2 DEF TypeOK, WriteStep
<1>5. FileThere' /\ FileGone' /\ NoStrayLog' /\ PlaceEmpty'
  BY <1>2 DEF FileThere, FileGone, NoStrayLog, PlaceEmpty, At, WriteStep, Deleting
<1>6. LogInUse' /\ NoneDeleted' /\ CopiedFirst'
  BY <1>2, <1>3 DEF LogInUse, NoneDeleted, CopiedFirst, At, WriteStep, Deleting
<1>7. NothingLost'
  BY <1>1, <1>2, <1>3, KeptGrows DEF NothingLost, WriteStep, Whole
<1> QED
  BY <1>4, <1>5, <1>6, <1>7

Writing ==
  \/ Backup \/ Schema \/ ReadVersions
  \/ Script(1, "v1", "v2") \/ Script(2, "v2", "alter1")
  \/ UpToDate \/ AddsColumn("alter1", "entry_atm_iv", "alter2")
  \/ AddsColumn("alter2", "entry_underlying", "record")
  \/ MigrationRaises \/ RecordsVersion
  \/ CountCash \/ Seed \/ ApplySettings

LEMMA PcChanges ==
  ASSUME TypeOK, NEW pc \in Pcs, Goto(pc)
  PROVE  cmd' \in CommandType /\ cmd'.pc = pc
  BY DEF TypeOK, CommandType, Goto

LEMMA IdleTyped ==
  Idle \in CommandType /\ Idle.pc = "idle"
  BY FilesTyped DEF Idle, CommandType, Pcs

(***************************************************************************)
(* The changes these steps make to the content: one field at a time.       *)
(***************************************************************************)
LEMMA VersionAdded ==
  ASSUME NEW r \in Content, NEW v \in 1 .. 3
  PROVE  LET c == [r EXCEPT !.versions = @ \union {v}]
         IN  /\ c \in Content /\ c.txns = r.txns
             /\ c.versions = r.versions \union {v}
             /\ c.columns = r.columns /\ c.cash = r.cash
  BY DEF Content

LEMMA ColumnAdded ==
  ASSUME NEW r \in Content, NEW column \in Columns
  PROVE  LET c == [r EXCEPT !.columns = @ \union {column}]
         IN  /\ c \in Content /\ c.txns = r.txns
             /\ c.columns = r.columns \union {column} /\ c.tables = r.tables
             /\ c.versions = r.versions /\ c.cash = r.cash
  BY DEF Content

LEMMA CashSet ==
  ASSUME NEW r \in Content, NEW x \in {"seed", "settings"}
  PROVE  LET c == [r EXCEPT !.cash = x]
         IN  /\ c \in Content /\ c.txns = r.txns /\ c.cash = x
             /\ c.versions = r.versions /\ c.columns = r.columns
  BY DEF Content

LEMMA TablesMade ==
  ASSUME NEW r \in Content, NEW k \in SUBSET Columns
  PROVE  LET c == [r EXCEPT !.tables = TRUE, !.columns = k,
                            !.versions = @ \union {1}]
         IN  /\ c \in Content /\ c.txns = r.txns /\ c.columns = k
             /\ c.versions = r.versions \union {1} /\ c.cash = r.cash
<1>1. ASSUME NEW a \in Content
      PROVE  LET c == [a EXCEPT !.tables = TRUE]
             IN  /\ c \in Content /\ c.txns = a.txns /\ c.cash = a.cash
                 /\ c.versions = a.versions
  BY DEF Content
<1>2. ASSUME NEW a \in Content
      PROVE  LET c == [a EXCEPT !.columns = k]
             IN  /\ c \in Content /\ c.txns = a.txns /\ c.cash = a.cash
                 /\ c.versions = a.versions /\ c.columns = k
  BY DEF Content
<1>3. ASSUME NEW a \in Content
      PROVE  LET c == [a EXCEPT !.versions = r.versions \union {1}]
             IN  /\ c \in Content /\ c.txns = a.txns /\ c.cash = a.cash
                 /\ c.versions = r.versions \union {1} /\ c.columns = a.columns
  BY DEF Content
<1> DEFINE a == [r EXCEPT !.tables = TRUE]
           b == [a EXCEPT !.columns = k]
           c == [b EXCEPT !.versions = r.versions \union {1}]
<1>4. c = [r EXCEPT !.tables = TRUE, !.columns = k, !.versions = @ \union {1}]
  BY DEF Content
<1>5. /\ a \in Content /\ a.txns = r.txns /\ a.cash = r.cash
      /\ a.versions = r.versions
  BY <1>1
<1> HIDE DEF a
<1>6. /\ b \in Content /\ b.txns = r.txns /\ b.cash = r.cash
      /\ b.versions = r.versions /\ b.columns = k
  BY <1>2, <1>5
<1> HIDE DEF b
<1>7. /\ c \in Content /\ c.txns = r.txns /\ c.cash = r.cash
      /\ c.versions = r.versions \union {1} /\ c.columns = k
  BY <1>3, <1>6
<1> QED
  BY <1>4, <1>7

LEMMA IsWriteStep ==
  ASSUME TypeOK, NEW c \in Content, c.txns = View.txns,
         (Writes(c) /\ cmd'.pc \in Connected) \/ WritesAndCloses(c),
         cmd.pc \notin Deleting, cmd'.pc \notin Deleting, cmd' \in CommandType,
         UNCHANGED <<backups, FromDaemons, Histories>>
  PROVE  WriteStep
  BY DEF WriteStep, TypeOK, FromDaemons, Histories

LEMMA WritingSteps ==
  ASSUME TypeOK, Writing
  PROVE  WriteStep
<1> USE DEF Deleting, Connected, Pcs, At, Ends
<1>0. TypeOK /\ View \in Content /\ begun \in 0 .. MaxCommands /\ cmd \in CommandType
  BY ViewTyped DEF TypeOK
<1>1. CASE Backup
  <2>1. begun' \in 0 .. MaxCommands
    BY <1>0, <1>1, DatabaseFileAssumption DEF Backup
  <2>2. backups' = backups \union {View} /\ backups' \subseteq Content
    BY <1>0, <1>1 DEF Backup, TypeOK
  <2> QED
    BY <1>0, <1>1, <2>1, <2>2 DEF Backup, WriteStep, FromDaemons
<1>2. CASE Schema
  <2> DEFINE k == IF View.tables THEN View.columns ELSE SchemaColumns
             c == [View EXCEPT !.tables = TRUE, !.columns = k, !.versions = @ \union {1}]
  <2>1. k \in SUBSET Columns
    BY <1>0 DEF Content, SchemaColumns
  <2>2. c \in Content /\ c.txns = View.txns
    BY <1>0, <2>1, TablesMade
  <2>3. WritesAndCloses(c)
    BY <1>2 DEF Schema
  <2>4. cmd' \in CommandType /\ cmd'.pc = "versions"
    BY <1>0, <1>2, PcChanges DEF Schema
  <2> HIDE DEF c
  <2> QED
    BY <1>0, <1>2, <2>2, <2>3, <2>4, IsWriteStep DEF Schema
<1>3. CASE ReadVersions
  <2>1. cmd' \in CommandType /\ cmd'.pc = "v1"
    BY <1>0, <1>3 DEF ReadVersions, CommandType, Content
  <2> QED
    BY <1>0, <1>3, <2>1, IsWriteStep DEF ReadVersions
<1>4. ASSUME NEW v \in 1 .. 3, NEW here \in {"v1", "v2"}, NEW next \in {"v2", "alter1"},
             Script(v, here, next)
      PROVE  WriteStep
  <2> DEFINE c == IF v \in cmd.applied THEN View
                    ELSE [View EXCEPT !.versions = @ \union {v}]
  <2>1. c \in Content /\ c.txns = View.txns
    BY <1>0, VersionAdded
  <2>2. Writes(c)
    BY <1>4 DEF Script
  <2>3. cmd' \in CommandType /\ cmd'.pc = next
    BY <1>0, <1>4, PcChanges DEF Script
  <2> HIDE DEF c
  <2> QED
    BY <1>0, <1>4, <2>1, <2>2, <2>3, IsWriteStep DEF Script
<1>5. ASSUME NEW c \in Content, c.txns = View.txns, MigrationsEnd(c),
             cmd.pc \notin Deleting
      PROVE  WriteStep
  <2>1. cmd' \in CommandType /\ cmd'.pc \in {"count", "idle"}
    BY <1>0, <1>5, PcChanges, IdleTyped DEF MigrationsEnd
  <2> QED
    BY <1>0, <1>5, <2>1, IsWriteStep DEF MigrationsEnd
<1>6. CASE UpToDate
  BY <1>0, <1>5, <1>6 DEF UpToDate
<1>7. CASE RecordsVersion
  <2>1. 3 \in 1 .. 3
    OBVIOUS
  <2>2. /\ [View EXCEPT !.versions = @ \union {3}] \in Content
        /\ [View EXCEPT !.versions = @ \union {3}].txns = View.txns
    BY <1>0, <2>1, VersionAdded
  <2> QED
    BY <1>5, <1>7, <2>2 DEF RecordsVersion
<1>8. ASSUME NEW here \in {"alter1", "alter2"}, NEW column \in Columns,
             NEW next \in {"alter2", "record"}, AddsColumn(here, column, next)
      PROVE  WriteStep
  <2> DEFINE c == [View EXCEPT !.columns = @ \union {column}]
  <2>1. c \in Content /\ c.txns = View.txns
    BY <1>0, ColumnAdded
  <2>2. (Writes(View) /\ Goto("record")) \/ (Writes(c) /\ Goto(next))
    BY <1>8 DEF AddsColumn
  <2>3. cmd' \in CommandType /\ cmd'.pc \in {"record", "alter2"}
    BY <1>0, <2>2, PcChanges
  <2> HIDE DEF c
  <2> QED
    BY <1>0, <1>8, <2>1, <2>2, <2>3, IsWriteStep DEF AddsColumn
<1>9. CASE MigrationRaises
  BY <1>0, <1>9, IdleTyped, IsWriteStep DEF MigrationRaises
<1>10. CASE CountCash
  <2>1. (Writes(View) /\ Goto("seed")) \/ (WritesAndCloses(View) /\ Ends)
    BY <1>10 DEF CountCash
  <2>2. cmd' \in CommandType /\ cmd'.pc \in {"seed", "idle"}
    BY <1>0, <2>1, PcChanges, IdleTyped
  <2>3. (Writes(View) /\ cmd'.pc = "seed") \/ WritesAndCloses(View)
    BY <1>0, <2>1, PcChanges
  <2> QED
    BY <1>0, <1>10, <2>2, <2>3, IsWriteStep DEF CountCash
<1>11. CASE Seed
  <2> DEFINE c == IF View.cash = "none" THEN [View EXCEPT !.cash = "seed"] ELSE View
  <2>1. c \in Content /\ c.txns = View.txns
    BY <1>0, CashSet
  <2>2. Writes(c)
    BY <1>11 DEF Seed
  <2>3. cmd' \in CommandType /\ cmd'.pc = "settings"
    BY <1>0, <1>11, PcChanges DEF Seed
  <2> HIDE DEF c
  <2> QED
    BY <1>0, <1>11, <2>1, <2>2, <2>3, IsWriteStep DEF Seed
<1>12. CASE ApplySettings
  <2> DEFINE c == IF View.cash = "none" THEN View
                    ELSE [View EXCEPT !.cash = "settings"]
  <2>1. c \in Content /\ c.txns = View.txns
    BY <1>0, CashSet
  <2>2. WritesAndCloses(c)
    BY <1>12 DEF ApplySettings
  <2>3. cmd' \in CommandType /\ cmd'.pc = "idle"
    BY <1>12, IdleTyped DEF ApplySettings
  <2> HIDE DEF c
  <2> QED
    BY <1>0, <1>12, <2>1, <2>2, <2>3, IsWriteStep DEF ApplySettings
<1> QED
  BY <1>1, <1>2, <1>3, <1>4, <1>6, <1>7, <1>8, <1>9, <1>10, <1>11, <1>12
  DEF Writing, Columns

-----------------------------------------------------------------------------
(* Commands begin, and die *)

Files == <<main, wal, conn, txns>>

LEMMA SameFiles ==
  ASSUME UNCHANGED Files, backups \subseteq backups'
  PROVE  /\ Exists' = Exists /\ View' = View /\ InUse' = InUse
         /\ Kept \subseteq Kept'
  BY ViewUnchanged, InUseUnchanged, KeptGrows DEF Files

BeginsAt(pc) ==
  /\ At("idle") /\ cmd'.pc = pc
  /\ cmd' \in CommandType /\ begun' \in 0 .. MaxCommands
  /\ UNCHANGED <<main, wal, backups, FromDaemons, scars>>

LEMMA BeginsAtKeeps ==
  ASSUME DbInv, NEW pc \in {"schema", "copy", "versions", "settings", "place"},
         BeginsAt(pc),
         pc \in {"copy", "settings"} => Exists,
         pc = "place" => ~Exists
  PROVE  DbInv'
<1> USE DEF DbInv, BeginsAt, FromDaemons, At
<1>1. Exists' = Exists /\ View' = View /\ InUse' = InUse /\ Kept \subseteq Kept'
  BY SameFiles DEF Files
<1>2. Whole' = Whole
  BY DEF Whole
<1>3. TypeOK'
  BY DEF TypeOK
<1>4. FileThere' /\ FileGone' /\ NoStrayLog'
  BY <1>1 DEF FileThere, FileGone, NoStrayLog, Connected
<1>5. PlaceEmpty'
  <2> SUFFICES ASSUME pc = "place", Whole \/ "unlinkWal" \notin scars
               PROVE  wal = NoFile /\ main = NoFile
    BY <1>2 DEF PlaceEmpty
  <2>1. main = NoFile /\ ~InUse /\ cmd.pc \notin Connected
    BY DEF Exists, FileThere, Connected
  <2> QED
    BY <2>1 DEF NoStrayLog, LogInUse, Exists
<1>6. LogInUse' /\ NoneDeleted' /\ CopiedFirst'
  BY <1>1, <1>2 DEF LogInUse, NoneDeleted, CopiedFirst, Connected
<1>7. NothingLost'
  BY <1>1, <1>2 DEF NothingLost, Whole
<1> QED
  BY <1>3, <1>4, <1>5, <1>6, <1>7

LEMMA BeginTyped ==
  ASSUME TypeOK, NEW pc \in Pcs, NEW kind \in {"init-db", "migrate", "wipe",
         "restore", "reseed-cash"}, Begin(kind, pc)
  PROVE  BeginsAt(pc)
<1>1. begun' \in 0 .. MaxCommands
  BY DatabaseFileAssumption DEF Begin, TypeOK
<1>2. cmd' \in CommandType /\ cmd'.pc = pc
  BY FilesTyped DEF Begin, CommandType, Idle
<1> QED
  BY <1>1, <1>2 DEF Begin, BeginsAt

LEMMA BeginsKeep ==
  ASSUME DbInv, InitDb \/ InitDbForce \/ Migrate \/ Wipe \/ ReseedCash
  PROVE  DbInv'
<1>1. TypeOK
  BY DEF DbInv
<1>2. PICK pc \in {"schema", "copy", "versions", "settings"} :
        /\ pc \in {"copy", "settings"} => Exists
        /\ \E kind \in {"init-db", "migrate", "wipe", "restore", "reseed-cash"} :
             Begin(kind, pc)
  BY DEF InitDb, InitDbForce, Migrate, Wipe, ReseedCash
<1>3. BeginsAt(pc)
  BY <1>1, <1>2, BeginTyped DEF Pcs, Connected
<1> QED
  BY <1>2, <1>3, BeginsAtKeeps

LEMMA RestoreKeeps ==
  ASSUME DbInv, Restore
  PROVE  DbInv'
<1>1. TypeOK
  BY DEF DbInv
<1>2. begun' \in 0 .. MaxCommands
  BY <1>1, DatabaseFileAssumption DEF Restore, TypeOK
<1>3. cmd' \in CommandType /\ cmd'.pc = RestorePc
  BY <1>1 DEF Restore, TypeOK, CommandType, Idle, Pcs, Connected, RestorePc
<1>4. BeginsAt(RestorePc)
  BY <1>2, <1>3 DEF Restore, BeginsAt
<1> QED
  BY <1>4, BeginsAtKeeps DEF RestorePc

LEMMA DiesKeeps ==
  ASSUME DbInv, Dies
  PROVE  DbInv'
<1> USE DEF DbInv, FromDaemons, At
<1>1. Exists' = Exists /\ View' = View /\ InUse' = InUse /\ Kept \subseteq Kept'
  BY SameFiles DEF Files, Dies
<1>2. cmd' \in CommandType /\ cmd'.pc = "idle"
  BY IdleTyped DEF Dies, Ends
<1>3. Whole' => Whole /\ cmd.pc \notin Connected
  BY DEF Whole, Dies
<1>4. TypeOK'
  BY <1>2 DEF TypeOK, Dies
<1>5. FileThere' /\ FileGone' /\ NoStrayLog' /\ PlaceEmpty'
  BY <1>1, <1>2 DEF FileThere, FileGone, NoStrayLog, PlaceEmpty, Connected, Dies
<1>6. LogInUse' /\ NoneDeleted' /\ CopiedFirst'
  BY <1>1, <1>2, <1>3 DEF LogInUse, NoneDeleted, CopiedFirst, Dies
<1>7. NothingLost'
  BY <1>1, <1>3 DEF NothingLost, Whole, Dies
<1> QED
  BY <1>4, <1>5, <1>6, <1>7

-----------------------------------------------------------------------------
(* Deleting *)

LEMMA CopyFileKeeps ==
  ASSUME DbInv, CopyFile
  PROVE  DbInv'
<1> USE DEF DbInv, At
<1>1. Exists' = Exists /\ View' = View /\ InUse' = InUse /\ Kept \subseteq Kept'
  BY SameFiles DEF Files, CopyFile
<1>2. cmd' \in CommandType /\ cmd'.pc = "unlink"
  BY PcChanges DEF CopyFile, Pcs
<1>3. Exists /\ main \in Content
  BY DEF FileThere, CopyFile, Exists, TypeOK
<1>4. Whole' => Whole /\ ~InUse
  BY DEF Whole, CopyFile, Histories
<1>5. TypeOK'
  BY <1>2, <1>3 DEF TypeOK, CopyFile, Copied, Histories
<1>6. FileThere' /\ FileGone' /\ NoStrayLog' /\ PlaceEmpty'
  BY <1>1, <1>2, <1>3 DEF FileThere, FileGone, NoStrayLog, PlaceEmpty
<1>7. LogInUse'
  BY <1>1, <1>4 DEF LogInUse, CopyFile, Connected
<1>8. NoneDeleted' /\ CopiedFirst'
  BY <1>1, <1>4 DEF NoneDeleted, CopiedFirst, CopyFile, Copied
<1>9. NothingLost'
  BY <1>1, <1>4 DEF NothingLost, Whole, CopyFile
<1> QED
  BY <1>5, <1>6, <1>7, <1>8, <1>9

LEMMA UnlinkFileKeeps ==
  ASSUME DbInv, UnlinkFile
  PROVE  DbInv'
<1> USE DEF DbInv, At
<1>1. cmd' \in CommandType /\ cmd'.pc = "unlinkWal"
  BY PcChanges DEF UnlinkFile, Pcs
<1>2. ~Exists' /\ ~InUse'
  BY DEF UnlinkFile, Exists, InUse
<1>3. TypeOK'
  BY <1>1 DEF TypeOK, UnlinkFile, Histories
<1>4. FileThere' /\ FileGone' /\ NoStrayLog' /\ PlaceEmpty'
  BY <1>1, <1>2 DEF FileThere, FileGone, NoStrayLog, PlaceEmpty, Connected
<1>5. Whole' => Whole /\ ~InUse
  BY DEF Whole, UnlinkFile, Histories
<1>6. Whole' => wal = NoFile /\ main \in backups /\ conn' = conn
  <2> SUFFICES ASSUME Whole, ~InUse
               PROVE  wal = NoFile /\ main \in backups /\ conn' = conn
    BY <1>5
  <2>1. wal = NoFile /\ main \in backups
    BY DEF LogInUse, CopiedFirst, UnlinkFile, Connected
  <2>2. conn' = conn
    BY DEF UnlinkFile, InUse, TypeOK
  <2> QED
    BY <2>1, <2>2
<1>7. LogInUse' /\ NoneDeleted' /\ CopiedFirst'
  BY <1>1, <1>5, <1>6 DEF LogInUse, NoneDeleted, CopiedFirst, UnlinkFile
<1>8. NothingLost'
  <2> SUFFICES ASSUME Whole, ~InUse, wal = NoFile, main \in backups
               PROVE  Kept \subseteq Kept'
    BY <1>5, <1>6 DEF NothingLost, Whole, UnlinkFile
  <2>1. Exists /\ View = main
    BY DEF FileThere, UnlinkFile, View
  <2>2. Kept = UNION {b.txns : b \in backups}
    BY <2>1 DEF Kept
  <2> QED
    BY <2>2 DEF Kept, UnlinkFile
<1> QED
  BY <1>3, <1>4, <1>7, <1>8

LEMMA UnlinkLogKeeps ==
  ASSUME DbInv, UnlinkLog
  PROVE  DbInv'
<1> USE DEF DbInv, At, FromDaemons, Histories
<1>1. cmd' \in CommandType /\ cmd'.pc \in {"idle", "place", "schema"}
  BY PcChanges, IdleTyped DEF UnlinkLog, AfterUnlink, Ends, Pcs
<1>2. main = NoFile /\ main' = NoFile /\ wal' = NoFile
  BY DEF FileGone, Exists, UnlinkLog, LogUnlinked
<1>3. ~Exists /\ ~Exists' /\ View' = View /\ InUse' = InUse /\ Whole' = Whole
  BY <1>2, InUseUnchanged DEF Exists, View, UnlinkLog, Whole
<1>4. TypeOK'
  BY <1>1, <1>2 DEF TypeOK, UnlinkLog
<1>5. ~InUse
  BY <1>3 DEF FileThere
<1>6. FileThere' /\ FileGone' /\ NoStrayLog' /\ PlaceEmpty'
  BY <1>1, <1>2, <1>3, <1>5 DEF FileThere, FileGone, NoStrayLog, PlaceEmpty, Connected
<1>7. LogInUse' /\ NoneDeleted' /\ CopiedFirst'
  BY <1>1, <1>2, <1>3 DEF LogInUse, NoneDeleted, CopiedFirst, UnlinkLog
<1>8. NothingLost'
  BY <1>3, KeptGrows DEF NothingLost, Whole, UnlinkLog
<1> QED
  BY <1>4, <1>6, <1>7, <1>8

LEMMA PlaceBackupKeeps ==
  ASSUME DbInv, PlaceBackup
  PROVE  DbInv'
<1> USE DEF DbInv, At, FromDaemons, Histories
<1>1. cmd' \in CommandType /\ cmd'.pc = "versions"
  BY PcChanges DEF PlaceBackup, Pcs
<1>2. main' \in Content
  BY DEF PlaceBackup, TypeOK, CommandType
<1>3. Exists' /\ InUse' = InUse /\ Whole' = Whole
  BY <1>2, ContentIsFile, InUseUnchanged DEF Exists, PlaceBackup, Whole
<1>4. TypeOK'
  BY <1>1, <1>2 DEF TypeOK, PlaceBackup
<1>5. FileThere' /\ FileGone' /\ NoStrayLog' /\ PlaceEmpty'
  BY <1>1, <1>3 DEF FileThere, FileGone, NoStrayLog, PlaceEmpty
<1>6. Whole => wal = NoFile /\ main \in {NoFile, Empty}
  BY DEF PlaceEmpty, PlaceBackup
<1>7. LogInUse' /\ NoneDeleted' /\ CopiedFirst'
  BY <1>1, <1>3, <1>6 DEF LogInUse, NoneDeleted, CopiedFirst, PlaceBackup
<1>8. NothingLost'
  <2>1. Whole => View.txns = {}
    BY <1>6 DEF View, Exists, Empty
  <2> QED
    BY <1>3, <2>1, KeptGrows DEF NothingLost, Whole, PlaceBackup, Kept
<1> QED
  BY <1>4, <1>5, <1>7, <1>8

-----------------------------------------------------------------------------
(* The daemons *)

LEMMA ConnectKeeps ==
  ASSUME DbInv, NEW d \in Daemons, Connect(d)
  PROVE  DbInv'
<1> USE DEF DbInv, At, Histories
<1>1. conn' = [conn EXCEPT ![d] = "file"] /\ conn'[d] = "file" /\ InUse'
  BY DEF Connect, TypeOK, InUse
<1>2. /\ Exists => main' = main /\ wal' = wal
      /\ ~Exists => main' = Empty /\ wal' = NoFile
      /\ cmd.pc # "unlinkWal" /\ cmd' = cmd
  BY DEF Connect
<1>3. Exists' /\ View' = View
  BY <1>2, ContentIsFile, FilesTyped DEF Exists, View
<1>4. Whole' => Whole /\ cmd.pc \notin {"copy", "unlink"}
  BY DEF Whole, Connect, Copying
<1>5. TypeOK'
  <2>1. main' \in Content \union {NoFile} /\ wal' \in Content \union {NoFile}
    BY <1>2, FilesTyped DEF TypeOK
  <2>2. unclean' \in BOOLEAN
    BY DEF Connect, Copying
  <2> QED
    BY <1>1, <2>1, <2>2 DEF TypeOK, Connect
<1>6. FileThere' /\ FileGone' /\ NoStrayLog'
  BY <1>2, <1>3 DEF FileThere, FileGone, NoStrayLog
<1>7. PlaceEmpty'
  <2>1. CASE Exists
    BY <1>2, <1>4, <2>1 DEF PlaceEmpty, Connect
  <2>2. CASE ~Exists
    BY <1>2, <2>2 DEF PlaceEmpty
  <2> QED
    BY <2>1, <2>2
<1>8. LogInUse' /\ NoneDeleted' /\ CopiedFirst'
  BY <1>1, <1>2, <1>4 DEF LogInUse, NoneDeleted, CopiedFirst, TypeOK
<1>9. NothingLost'
  BY <1>3, <1>4, KeptGrows DEF NothingLost, Whole, Connect
<1> QED
  BY <1>5, <1>6, <1>7, <1>8, <1>9

LEMMA CommitKeeps ==
  ASSUME DbInv, NEW d \in Daemons, Commit(d)
  PROVE  DbInv'
<1> USE DEF DbInv, At, Histories
<1>1. InUse' = InUse /\ Whole' = Whole /\ Exists' = Exists
  BY InUseUnchanged DEF Commit, Whole, Exists
<1>2. txns + 1 \in 1 .. MaxTxns /\ txns' = txns + 1 /\ txns \in Nat
  BY DatabaseFileAssumption DEF Commit, TypeOK
<1>3. [View EXCEPT !.txns = @ \union {txns + 1}] \in Content
  BY <1>2, ViewTyped DEF Content
<1>4. TypeOK'
  BY <1>2, <1>3 DEF TypeOK, Commit
<1>5. conn[d] = "file" => InUse /\ Exists /\ View.tables
  BY DEF InUse, FileThere, Commit
<1>6. FileThere' /\ FileGone' /\ NoStrayLog'
  BY <1>1, <1>5 DEF FileThere, FileGone, NoStrayLog, Commit
<1>7. PlaceEmpty'
  <2> SUFFICES ASSUME cmd.pc = "place", wal = NoFile, main \in {NoFile, Empty}
               PROVE  wal' = wal
    BY <1>1 DEF PlaceEmpty, Commit
  <2>1. ~View.tables
    BY DEF View, Empty, Exists
  <2> QED
    BY <1>5, <2>1 DEF Commit
<1>8. LogInUse' /\ NoneDeleted' /\ CopiedFirst'
  BY <1>1, <1>5 DEF LogInUse, NoneDeleted, CopiedFirst, Commit
<1>9. NothingLost'
  <2> SUFFICES ASSUME Whole, 1 .. txns \subseteq Kept
               PROVE  1 .. txns' \subseteq Kept'
    BY <1>1 DEF NothingLost, Whole
  <2>1. conn[d] = "file" /\ main' = main /\ Exists
        /\ wal' = [View EXCEPT !.txns = @ \union {txns + 1}]
    BY <1>5 DEF NoneDeleted, Commit
  <2>2. View' = wal'
    BY <1>1, <1>3, <2>1, ContentIsFile DEF View
  <2>3. View'.txns = View.txns \union {txns + 1}
    BY <2>1, <2>2, ViewTyped DEF Content
  <2>4. Kept' = Kept \union {txns + 1}
    BY <2>3 DEF Kept, Commit
  <2> QED
    BY <1>2, <2>4
<1> QED
  BY <1>4, <1>6, <1>7, <1>8, <1>9

LEMMA CheckpointKeeps ==
  ASSUME DbInv, Checkpoint
  PROVE  DbInv'
<1> USE DEF DbInv, At, Histories, FromDaemons
<1>1. InUse' = InUse /\ InUse /\ Whole' = Whole
  BY InUseUnchanged DEF Checkpoint, Whole
<1>2. Exists /\ main' = View /\ wal' = wal /\ View \in Content
  BY ViewTyped DEF Checkpoint, FileThere
<1>3. Exists' /\ View' = View
  BY <1>2, ContentIsFile DEF Exists, View
<1>4. TypeOK'
  BY <1>2 DEF TypeOK, Checkpoint
<1>5. FileThere' /\ FileGone' /\ NoStrayLog'
  BY <1>2, <1>3 DEF FileThere, FileGone, NoStrayLog, Checkpoint
<1>6. PlaceEmpty'
  BY <1>1, <1>2 DEF PlaceEmpty, Checkpoint, View
<1>7. LogInUse' /\ NoneDeleted' /\ CopiedFirst'
  BY <1>1 DEF LogInUse, NoneDeleted, CopiedFirst, Checkpoint
<1>8. NothingLost'
  BY <1>1, <1>3, KeptGrows DEF NothingLost, Whole, Checkpoint
<1> QED
  BY <1>4, <1>5, <1>6, <1>7, <1>8

LEMMA DisconnectKeeps ==
  ASSUME DbInv, NEW d \in Daemons, Disconnect(d)
  PROVE  DbInv'
<1> USE DEF DbInv, At, Histories
<1> DEFINE last == /\ conn[d] = "file"
                   /\ \A e \in Daemons \ {d} : conn[e] # "file"
                   /\ cmd.pc \notin Connected
<1>1. /\ main' = (IF last THEN View ELSE main)
      /\ wal' = (IF last THEN NoFile ELSE wal)
      /\ conn' = [conn EXCEPT ![d] = "none"]
      /\ cmd' = cmd
  BY DEF Disconnect
<1>2. Whole' = Whole
  BY DEF Disconnect, Whole
<1>3. conn[d] = "file" => Exists
  BY DEF InUse, FileThere
<1>4. Exists' = Exists /\ View' = View
  <2>1. CASE last
    BY <1>1, <1>3, <2>1, ViewTyped, ContentIsFile DEF Exists, View
  <2>2. CASE ~last
    BY <1>1, <2>2, ViewUnchanged
  <2> QED
    BY <2>1, <2>2
<1>5. InUse' => InUse
  BY <1>1 DEF InUse, TypeOK
<1>6. InUse => InUse' \/ last \/ cmd.pc \in Connected
  BY <1>1 DEF InUse, TypeOK
<1>7. TypeOK'
  BY <1>1, ViewTyped DEF TypeOK, Disconnect
<1>8. FileThere' /\ FileGone' /\ NoStrayLog'
  BY <1>1, <1>4, <1>5 DEF FileThere, FileGone, NoStrayLog, Disconnect
<1>9. PlaceEmpty'
  BY <1>1, <1>2 DEF PlaceEmpty, Disconnect, View, Exists
<1>10. LogInUse'
  BY <1>1, <1>2, <1>6 DEF LogInUse
<1>11. NoneDeleted'
  BY <1>1, <1>2 DEF NoneDeleted, TypeOK
<1>12. CopiedFirst'
  <2> SUFFICES ASSUME Whole, At("unlink")
               PROVE  FALSE
    BY <1>1, <1>2 DEF CopiedFirst
  <2> QED
    BY DEF CopiedFirst, NoneDeleted, InUse, Disconnect, TypeOK
<1>13. NothingLost'
  BY <1>2, <1>4, KeptGrows DEF NothingLost, Whole, Disconnect
<1> QED
  BY <1>7, <1>8, <1>9, <1>10, <1>11, <1>12, <1>13

LEMMA KilledKeeps ==
  ASSUME DbInv, NEW d \in Daemons, Killed(d)
  PROVE  DbInv'
<1> USE DEF DbInv, At, Histories
<1>1. Exists' = Exists /\ View' = View
  BY ViewUnchanged DEF Killed
<1>2. ~Whole'
  BY DEF Whole, Killed
<1>3. InUse' => InUse
  BY DEF InUse, Killed, TypeOK
<1>4. TypeOK'
  BY DEF TypeOK, Killed
<1>5. FileThere' /\ FileGone' /\ NoStrayLog' /\ PlaceEmpty'
  BY <1>1, <1>2, <1>3 DEF FileThere, FileGone, NoStrayLog, PlaceEmpty, Killed
<1>6. LogInUse' /\ NoneDeleted' /\ CopiedFirst' /\ NothingLost'
  BY <1>2 DEF LogInUse, NoneDeleted, CopiedFirst, NothingLost, Whole
<1> QED
  BY <1>4, <1>5, <1>6

-----------------------------------------------------------------------------
(* The invariant, and what follows *)

LEMMA InitDbInv ==
  ASSUME Init
  PROVE  DbInv
<1>1. main = NoFile \/ (main = OldFile /\ main # NoFile)
  BY FilesTyped, ContentIsFile DEF Init
<1>2. cmd \in CommandType /\ At("idle")
  BY IdleTyped DEF Init, At
<1>3. ~InUse /\ txns = 0
  BY DEF Init, InUse
<1>4. TypeOK
  <2>1. MaxTxns \in Nat /\ MaxCommands \in Nat
    BY DatabaseFileAssumption
  <2>2. txns \in 0 .. MaxTxns /\ begun \in 0 .. MaxCommands
    BY <2>1 DEF Init
  <2>3. /\ main \in Content \union {NoFile} /\ wal \in Content \union {NoFile}
        /\ backups \in SUBSET Content /\ unclean \in BOOLEAN
    BY FilesTyped DEF Init
  <2>4. conn \in [Daemons -> {"none", "file", "deleted"}]
    BY DEF Init
  <2> QED
    BY <1>2, <2>2, <2>3, <2>4 DEF TypeOK
<1>5. FileThere /\ FileGone /\ NoStrayLog /\ PlaceEmpty
  BY <1>2, <1>3 DEF FileThere, FileGone, NoStrayLog, PlaceEmpty, At, Connected, Init
<1>6. LogInUse /\ NoneDeleted /\ CopiedFirst /\ NothingLost
  BY <1>2, <1>3 DEF LogInUse, NoneDeleted, CopiedFirst, NothingLost, At, Init
<1> QED
  BY <1>4, <1>5, <1>6 DEF DbInv

LEMMA StutterKeeps ==
  ASSUME DbInv, UNCHANGED vars
  PROVE  DbInv'
<1>1. Exists' = Exists /\ View' = View /\ InUse' = InUse /\ Kept' = Kept
  BY ViewUnchanged, InUseUnchanged DEF vars, Kept
<1>2. Whole' = Whole
  BY DEF vars, Whole
<1> QED
  BY <1>1, <1>2 DEF DbInv, vars, TypeOK, FileThere, FileGone, NoStrayLog, PlaceEmpty,
     LogInUse, NoneDeleted, CopiedFirst, NothingLost, Whole, At

LEMMA NextKeeps ==
  ASSUME DbInv, [Next]_vars
  PROVE  DbInv'
<1>1. CASE UNCHANGED vars
  BY <1>1, StutterKeeps
<1>2. CASE \E d \in Daemons : Daemon(d)
  BY <1>2, ConnectKeeps, CommitKeeps, DisconnectKeeps, KilledKeeps DEF Daemon
<1>3. CASE Checkpoint
  BY <1>3, CheckpointKeeps
<1>4. CASE Writing
  BY <1>4, WritingSteps, WriteStepKeeps DEF DbInv
<1>5. CASE Command /\ ~Writing
  BY <1>5, BeginsKeep, RestoreKeeps, CopyFileKeeps, UnlinkFileKeeps, UnlinkLogKeeps,
     PlaceBackupKeeps, DiesKeeps DEF Command, Writing
<1> QED
  BY <1>1, <1>2, <1>3, <1>4, <1>5 DEF Next

(***************************************************************************)
(* The files, connections and commands keep their types, and the whole     *)
(* argument above holds, in every state.                                   *)
(***************************************************************************)
THEOREM FileInvariant == Spec => []DbInv
<1>1. Init => DbInv
  BY InitDbInv
<1>2. DbInv /\ [Next]_vars => DbInv'
  BY NextKeeps
<1> QED
  BY <1>1, <1>2, PTL DEF Spec

(***************************************************************************)
(* Files, log, backups, connections and the command keep their shape.      *)
(***************************************************************************)
THEOREM FileTypes == Spec => []TypeOK
<1>1. DbInv => TypeOK
  BY DEF DbInv
<1> QED
  BY <1>1, FileInvariant, PTL

(***************************************************************************)
(* tradectl wipe, restore and init-db --force, for any number of daemons,  *)
(* transactions, commands and deaths: if the daemons were stopped first    *)
(* and no command died with the file open, no transaction is lost.         *)
(***************************************************************************)
THEOREM DeletesLoseNothing == Spec => []NothingLost
<1>1. DbInv => NothingLost
  BY DEF DbInv
<1> QED
  BY <1>1, FileInvariant, PTL

(***************************************************************************)
(* tradectl restore, even beside daemons that use or have used the file:   *)
(* what a reader finds after it is the backup.                             *)
(***************************************************************************)
THEOREM RestoresExactly == Spec => RestoreIsExact
<1>1. DbInv /\ [Next]_vars =>
        [At("place") /\ cmd'.pc = "versions" /\ "unlinkWal" \notin scars
           => View' = cmd.chosen]_vars
  <2> SUFFICES ASSUME DbInv, Next, At("place"), cmd'.pc = "versions",
                      "unlinkWal" \notin scars
               PROVE  View' = cmd.chosen
    OBVIOUS
  <2>1. PlaceBackup
    BY IdleTyped DEF Next, Command, Daemon, Connect, Commit, Disconnect, Killed,
       Checkpoint, InitDb, InitDbForce, Migrate, Wipe, ReseedCash, Begin, Restore,
       Backup, CopyFile, UnlinkFile, UnlinkLog, Schema, ReadVersions, Script, UpToDate,
       AddsColumn, MigrationRaises, RecordsVersion, CountCash, Seed, ApplySettings,
       Dies, Ends, At, DbInv
  <2>2. wal' = NoFile /\ main' = cmd.chosen
    BY <2>1 DEF DbInv, PlaceEmpty, PlaceBackup
  <2>3. cmd.chosen # NoFile
    BY ContentIsFile DEF DbInv, TypeOK, CommandType
  <2> QED
    BY <2>2, <2>3 DEF View, Exists
<1> QED
  BY <1>1, FileInvariant, PTL DEF Spec, RestoreIsExact

-----------------------------------------------------------------------------
(* Halfway states: what a reader finds while a command is between two      *)
(* writes, and nothing else may be left with                               *)

(***************************************************************************)
(* What a reader finds, and what is in the log, replayed or left behind.   *)
(***************************************************************************)
Shown == {View} \union ({wal} \ {NoFile})

ChosenKnown == cmd.chosen \in backups \union {Empty}

SeedsGood == "settings" \notin scars /\ \A b \in backups : b.cash # "seed"

SeedBetween == SeedsGood /\ ~At("settings") => \A f \in Shown : f.cash # "seed"

AltersGood ==
  "alter2" \notin scars /\ \A b \in backups : b.columns \in {{}, Columns}

Recorded(f) == 3 \in f.versions => f.columns = Columns

RecordedFiles ==
  AltersGood =>
    \A f \in Shown \union backups \union ({main} \ {NoFile}) : Recorded(f)

HalvesBetween ==
  AltersGood /\ ~At("alter2") => \A f \in Shown : f.columns \in {{}, Columns}

Migrating == cmd.pc \in {"v1", "v2", "alter1", "alter2", "record"}

VersionsRead == Migrating /\ 3 \notin cmd.applied => 3 \notin View.versions

AltersInTurn ==
  /\ At("alter2") => /\ 3 \notin cmd.applied /\ View.tables
                     /\ "entry_atm_iv" \in View.columns
  /\ At("record") /\ AltersGood => View.columns = Columns

HalfwayInv ==
  /\ ChosenKnown /\ SeedBetween
  /\ RecordedFiles /\ HalvesBetween /\ VersionsRead /\ AltersInTurn

(***************************************************************************)
(* Steps that write: afterwards nothing but the new content is shown.      *)
(***************************************************************************)
LEMMA WrittenShown ==
  ASSUME TypeOK, NEW c \in Content, Writes(c) \/ WritesAndCloses(c)
  PROVE  View' = c /\ Shown' = {c} /\ main' \in {main, Empty, c}
<1>1. View' = c
  BY WritesShow, ClosingShows
<1>2. CASE Writes(c)
  <2>1. Exists => wal' = (IF c # View THEN c ELSE wal)
    BY <1>2 DEF Writes
  <2>2. ~Exists => wal' = (IF c # View THEN c ELSE NoFile)
    BY <1>2 DEF Writes
  <2>3. wal' \in {c, NoFile}
    BY <2>1, <2>2 DEF View
  <2> QED
    BY <1>1, <1>2, <2>3 DEF Shown, Writes
<1>3. CASE ~Writes(c)
  <2>1. main' = c /\ wal' = NoFile
    BY <1>3 DEF WritesAndCloses
  <2> QED
    BY <1>1, <2>1 DEF Shown
<1> QED
  BY <1>2, <1>3

LEMMA EmptyFits ==
  Recorded(Empty) /\ Empty.columns \in {{}, Columns} /\ Empty.cash # "seed"
  BY DEF Empty, Recorded

LEMMA WriteFits ==
  ASSUME DbInv, HalfwayInv, NEW c \in Content, Writes(c) \/ WritesAndCloses(c),
         backups' = backups, scars' = scars,
         cmd'.chosen \in backups \union {Empty},
         SeedsGood /\ cmd'.pc # "settings" => c.cash # "seed",
         AltersGood => Recorded(c),
         AltersGood /\ cmd'.pc # "alter2" => c.columns \in {{}, Columns},
         cmd'.pc \in {"v1", "v2", "alter1", "alter2", "record"}
           /\ 3 \notin cmd'.applied => 3 \notin c.versions,
         cmd'.pc = "alter2" => /\ 3 \notin cmd'.applied /\ c.tables
                               /\ "entry_atm_iv" \in c.columns,
         cmd'.pc = "record" /\ AltersGood => c.columns = Columns
  PROVE  HalfwayInv'
<1>1. View' = c /\ Shown' = {c} /\ main' \in {main, Empty, c}
  BY WrittenShown DEF DbInv
<1>2. SeedsGood' = SeedsGood /\ AltersGood' = AltersGood
  BY DEF SeedsGood, AltersGood
<1>3. ChosenKnown'
  BY DEF ChosenKnown
<1>4. SeedBetween' /\ HalvesBetween'
  BY <1>1, <1>2 DEF SeedBetween, HalvesBetween, At
<1>5. RecordedFiles'
  BY <1>1, <1>2, EmptyFits DEF RecordedFiles, HalfwayInv
<1>6. VersionsRead' /\ AltersInTurn'
  BY <1>1, <1>2 DEF VersionsRead, AltersInTurn, Migrating, At
<1> QED
  BY <1>3, <1>4, <1>5, <1>6 DEF HalfwayInv

(***************************************************************************)
(* What the writing commands have read.                                    *)
(***************************************************************************)
LEMMA ViewFits ==
  ASSUME HalfwayInv
  PROVE  /\ SeedsGood /\ ~At("settings") => View.cash # "seed"
         /\ AltersGood => Recorded(View)
         /\ AltersGood /\ ~At("alter2") => View.columns \in {{}, Columns}
  BY DEF HalfwayInv, SeedBetween, RecordedFiles, HalvesBetween, Shown

LEMMA GotoKeepsRead ==
  ASSUME TypeOK, NEW pc \in Pcs, Goto(pc)
  PROVE  /\ cmd'.pc = pc /\ cmd'.applied = cmd.applied /\ cmd'.chosen = cmd.chosen
  BY DEF TypeOK, CommandType, Goto

LEMMA WritingFits ==
  ASSUME DbInv, HalfwayInv, Writing
  PROVE  HalfwayInv'
<1> USE DEF At, Pcs, Connected
<1>0. TypeOK /\ View \in Content /\ cmd.chosen \in backups \union {Empty}
  BY ViewTyped DEF DbInv, HalfwayInv, ChosenKnown
<1>1. /\ SeedsGood /\ ~At("settings") => View.cash # "seed"
      /\ AltersGood => Recorded(View)
      /\ AltersGood /\ ~At("alter2") => View.columns \in {{}, Columns}
  BY ViewFits
<1>2. /\ Migrating /\ 3 \notin cmd.applied => 3 \notin View.versions
      /\ At("alter2") => /\ 3 \notin cmd.applied /\ View.tables
                         /\ "entry_atm_iv" \in View.columns
      /\ At("record") /\ AltersGood => View.columns = Columns
  BY DEF HalfwayInv, VersionsRead, AltersInTurn
<1>3. /\ Idle.pc = "idle" /\ Idle.chosen = Empty
  BY DEF Idle
<1>4. CASE Backup
  <2>1. View' = View /\ Shown' = {View} /\ main' \in {main, Empty, View}
    BY <1>0, <1>4, WrittenShown DEF Backup
  <2>2. SeedsGood' => SeedsGood
    BY <1>4 DEF SeedsGood, Backup
  <2>3. AltersGood' => AltersGood
    BY <1>4 DEF AltersGood, Backup
  <2>4. ChosenKnown' /\ cmd' = cmd /\ At("idle")
    BY <1>0, <1>4 DEF ChosenKnown, Backup
  <2>5. SeedBetween' /\ HalvesBetween'
    BY <1>1, <2>1, <2>2, <2>3, <2>4 DEF SeedBetween, HalvesBetween
  <2>6. RecordedFiles'
    BY <1>1, <1>4, <2>1, <2>3, EmptyFits DEF RecordedFiles, Backup, HalfwayInv
  <2>7. VersionsRead' /\ AltersInTurn'
    BY <2>4 DEF VersionsRead, AltersInTurn, Migrating
  <2> QED
    BY <2>4, <2>5, <2>6, <2>7 DEF HalfwayInv
<1>5. CASE Schema
  <2> DEFINE k == IF View.tables THEN View.columns ELSE SchemaColumns
             c == [View EXCEPT !.tables = TRUE, !.columns = k, !.versions = @ \union {1}]
  <2>1. k \in SUBSET Columns /\ k \in {View.columns, Columns}
    BY <1>0 DEF Content, SchemaColumns
  <2>2. /\ c \in Content /\ c.cash = View.cash /\ c.columns = k
        /\ c.versions = View.versions \union {1}
    BY <1>0, <2>1, TablesMade
  <2>3. WritesAndCloses(c) /\ backups' = backups /\ scars' = scars
    BY <1>5 DEF Schema, Histories
  <2>4. cmd'.pc = "versions" /\ cmd'.chosen = cmd.chosen /\ cmd.pc = "schema"
    BY <1>0, <1>5, GotoKeepsRead DEF Schema
  <2> HIDE DEF c
  <2> QED
    BY <1>0, <1>1, <2>1, <2>2, <2>3, <2>4, WriteFits DEF Recorded
<1>6. CASE ReadVersions
  <2>1. Writes(View) /\ backups' = backups /\ scars' = scars /\ cmd.pc = "versions"
    BY <1>6 DEF ReadVersions, Histories
  <2>2. cmd'.pc = "v1" /\ cmd'.chosen = cmd.chosen /\ cmd'.applied = View.versions
    BY <1>0, <1>6 DEF ReadVersions, TypeOK, CommandType
  <2> QED
    BY <1>0, <1>1, <2>1, <2>2, WriteFits
<1>7. ASSUME NEW v \in 1 .. 2, NEW here \in {"v1", "v2"}, NEW next \in {"v2", "alter1"},
             Script(v, here, next)
      PROVE  HalfwayInv'
  <2> DEFINE c == IF v \in cmd.applied THEN View
                    ELSE [View EXCEPT !.versions = @ \union {v}]
  <2>0. v \in 1 .. 3 /\ v # 3
    OBVIOUS
  <2>1. /\ c \in Content /\ c.cash = View.cash /\ c.columns = View.columns
        /\ c.versions \in {View.versions, View.versions \union {v}}
    BY <1>0, <2>0, VersionAdded
  <2>2. Writes(c) /\ backups' = backups /\ scars' = scars
    BY <1>7 DEF Script, Histories
  <2>3. /\ cmd'.pc = next /\ cmd'.chosen = cmd.chosen /\ cmd'.applied = cmd.applied
        /\ cmd.pc = here
    BY <1>0, <1>7, GotoKeepsRead DEF Script
  <2> HIDE DEF c
  <2> QED
    BY <1>0, <1>1, <1>2, <2>0, <2>1, <2>2, <2>3, WriteFits DEF Recorded, Migrating
<1>8. CASE UpToDate
  <2>1. /\ WritesAndCloses(View) /\ backups' = backups /\ scars' = scars
        /\ cmd.pc = "alter1"
    BY <1>8 DEF UpToDate, MigrationsEnd, Histories
  <2>2. cmd'.pc \in {"count", "idle"} /\ cmd'.chosen \in {cmd.chosen, Empty}
    BY <1>0, <1>3, <1>8, GotoKeepsRead DEF UpToDate, MigrationsEnd, Ends
  <2> QED
    BY <1>0, <1>1, <2>1, <2>2, WriteFits
<1>9. CASE RecordsVersion
  <2> DEFINE c == [View EXCEPT !.versions = @ \union {3}]
  <2>1. 3 \in 1 .. 3
    OBVIOUS
  <2>2. /\ c \in Content /\ c.cash = View.cash /\ c.columns = View.columns
    BY <1>0, <2>1, VersionAdded
  <2>3. WritesAndCloses(c) /\ backups' = backups /\ scars' = scars /\ cmd.pc = "record"
    BY <1>9 DEF RecordsVersion, MigrationsEnd, Histories
  <2>4. cmd'.pc \in {"count", "idle"} /\ cmd'.chosen \in {cmd.chosen, Empty}
    BY <1>0, <1>3, <1>9, GotoKeepsRead DEF RecordsVersion, MigrationsEnd, Ends
  <2> HIDE DEF c
  <2> QED
    BY <1>0, <1>1, <1>2, <2>2, <2>3, <2>4, WriteFits DEF Recorded
<1>10. ASSUME NEW here, NEW column, NEW next,
              \/ here = "alter1" /\ column = "entry_atm_iv" /\ next = "alter2"
              \/ here = "alter2" /\ column = "entry_underlying" /\ next = "record",
              AddsColumn(here, column, next)
       PROVE  HalfwayInv'
  <2> DEFINE c == [View EXCEPT !.columns = @ \union {column}]
  <2>1. /\ c \in Content /\ c.cash = View.cash /\ c.versions = View.versions
        /\ c.columns = View.columns \union {column} /\ c.tables = View.tables
    BY <1>0, <1>10, ColumnAdded DEF Columns
  <2>2. /\ 3 \notin cmd.applied /\ backups' = backups /\ scars' = scars /\ cmd.pc = here
        /\ 3 \notin View.versions /\ View.tables
    BY <1>2, <1>10 DEF AddsColumn, Histories, Migrating
  <2>3. CASE column \in View.columns
    <3>1. Writes(View) /\ Goto("record")
      BY <1>10, <2>3 DEF AddsColumn
    <3>2. cmd'.pc = "record" /\ cmd'.chosen = cmd.chosen
      BY <1>0, <3>1, GotoKeepsRead
    <3>3. AltersGood => View.columns = Columns
      BY <1>0, <1>1, <1>2, <1>10, <2>2, <2>3 DEF Columns, Content
    <3> QED
      BY <1>0, <1>1, <2>2, <3>1, <3>2, <3>3, <1>10, WriteFits
  <2>4. CASE column \notin View.columns
    <3>1. Writes(c) /\ Goto(next)
      BY <1>10, <2>4 DEF AddsColumn
    <3>2. /\ cmd'.pc = next /\ cmd'.chosen = cmd.chosen /\ cmd'.applied = cmd.applied
      BY <1>0, <1>10, <3>1, GotoKeepsRead
    <3>3. next = "record" => c.columns = Columns
      BY <1>0, <1>2, <1>10, <2>1, <2>2 DEF Columns, Content
    <3> HIDE DEF c
    <3> QED
      BY <1>0, <1>1, <1>10, <2>1, <2>2, <3>1, <3>2, <3>3, WriteFits DEF Recorded
  <2> QED
    BY <2>3, <2>4
<1>11. CASE MigrationRaises
  <2>1. /\ WritesAndCloses(View) /\ backups' = backups /\ scars' = scars
        /\ cmd.pc \in {"alter1", "alter2"} /\ ~View.tables /\ cmd' = Idle
    BY <1>11 DEF MigrationRaises, Histories, Ends
  <2>2. cmd.pc = "alter1"
    BY <1>2, <2>1
  <2> QED
    BY <1>0, <1>1, <1>3, <2>1, <2>2, WriteFits
<1>12. CASE CountCash
  <2>1. /\ Writes(View) \/ WritesAndCloses(View)
        /\ backups' = backups /\ scars' = scars /\ cmd.pc = "count"
    BY <1>12 DEF CountCash, Histories
  <2>2. cmd'.pc \in {"seed", "idle"} /\ cmd'.chosen \in {cmd.chosen, Empty}
    BY <1>0, <1>3, <1>12, GotoKeepsRead DEF CountCash, Ends
  <2> QED
    BY <1>0, <1>1, <2>1, <2>2, WriteFits
<1>13. CASE Seed
  <2> DEFINE c == IF View.cash = "none" THEN [View EXCEPT !.cash = "seed"] ELSE View
  <2>1. c \in Content /\ c.versions = View.versions /\ c.columns = View.columns
    BY <1>0, CashSet
  <2>2. Writes(c) /\ backups' = backups /\ scars' = scars /\ cmd.pc = "seed"
    BY <1>13 DEF Seed, Histories
  <2>3. cmd'.pc = "settings" /\ cmd'.chosen = cmd.chosen
    BY <1>0, <1>13, GotoKeepsRead DEF Seed
  <2> HIDE DEF c
  <2> QED
    BY <1>0, <1>1, <2>1, <2>2, <2>3, WriteFits DEF Recorded
<1>14. CASE ApplySettings
  <2> DEFINE c == IF View.cash = "none" THEN View
                    ELSE [View EXCEPT !.cash = "settings"]
  <2>1. /\ c \in Content /\ c.versions = View.versions /\ c.columns = View.columns
        /\ c.cash # "seed"
    BY <1>0, CashSet
  <2>2. WritesAndCloses(c) /\ backups' = backups /\ scars' = scars /\ cmd.pc = "settings"
    BY <1>14 DEF ApplySettings, Histories
  <2>3. cmd' = Idle
    BY <1>14 DEF ApplySettings, Ends
  <2> HIDE DEF c
  <2> QED
    BY <1>0, <1>1, <1>3, <2>1, <2>2, <2>3, WriteFits DEF Recorded
<1> QED
  BY <1>4, <1>5, <1>6, <1>7, <1>8, <1>9, <1>10, <1>11, <1>12, <1>13, <1>14
  DEF Writing

(***************************************************************************)
(* The other steps move what is there: into the file, out of the log, into *)
(* a backup or back.                                                       *)
(***************************************************************************)
MoveStep ==
  /\ Shown' \subseteq Shown \union {Empty, cmd.chosen}
  /\ main' \in Shown \union {main, NoFile, Empty, cmd.chosen}
  /\ backups \subseteq backups' /\ backups' \subseteq backups \union ({main} \ {NoFile})
  /\ scars \subseteq scars' /\ cmd'.chosen \in backups \union {Empty}

LEMMA MoveStepFits ==
  ASSUME DbInv, HalfwayInv, MoveStep,
         At("settings") => "settings" \in scars' \/ cmd'.pc = "settings",
         At("alter2") => "alter2" \in scars' \/ cmd'.pc = "alter2",
         \/ cmd'.pc \notin {"v1", "v2", "alter1", "alter2", "record"}
         \/ cmd' = cmd /\ View' = View
  PROVE  HalfwayInv'
<1>1. SeedsGood' => SeedsGood
  BY DEF SeedsGood, MoveStep
<1>2. AltersGood' => AltersGood
  BY DEF AltersGood, MoveStep
<1>3. cmd.chosen \in backups \union {Empty}
  BY DEF HalfwayInv, ChosenKnown
<1>4. ChosenKnown'
  BY DEF ChosenKnown, MoveStep
<1>5. SeedBetween'
  <2>1. SeedsGood => cmd.chosen.cash # "seed"
    BY <1>3, EmptyFits DEF SeedsGood
  <2>2. SeedsGood' /\ ~At("settings")' => ~At("settings")
    BY DEF SeedsGood, At
  <2> QED
    BY <1>1, <2>1, <2>2, EmptyFits DEF SeedBetween, HalfwayInv, MoveStep
<1>6. HalvesBetween'
  <2>1. AltersGood => cmd.chosen.columns \in {{}, Columns}
    BY <1>3, EmptyFits DEF AltersGood
  <2>2. AltersGood' /\ ~At("alter2")' => ~At("alter2")
    BY DEF AltersGood, At
  <2> QED
    BY <1>2, <2>1, <2>2, EmptyFits DEF HalvesBetween, HalfwayInv, MoveStep
<1>7. RecordedFiles'
  <2>1. AltersGood => Recorded(cmd.chosen)
    BY <1>3, EmptyFits DEF HalfwayInv, RecordedFiles
  <2> QED
    BY <1>2, <2>1, EmptyFits DEF RecordedFiles, HalfwayInv, MoveStep
<1>8. VersionsRead' /\ AltersInTurn'
  BY <1>2 DEF VersionsRead, AltersInTurn, Migrating, At, HalfwayInv
<1> QED
  BY <1>4, <1>5, <1>6, <1>7, <1>8 DEF HalfwayInv

LEMMA SameFilesShown ==
  ASSUME main' = main, wal' = wal
  PROVE  Shown' = Shown /\ View' = View
  BY ViewUnchanged DEF Shown

LEMMA CommandsMove ==
  ASSUME DbInv, HalfwayInv,
         \/ InitDb \/ InitDbForce \/ Migrate \/ Wipe \/ ReseedCash \/ Restore
         \/ CopyFile \/ UnlinkFile \/ UnlinkLog \/ PlaceBackup \/ Dies
  PROVE  HalfwayInv'
<1> USE DEF At, Histories, FromDaemons
<1>0. TypeOK /\ Idle.pc = "idle" /\ Idle.chosen = Empty
  BY DEF DbInv, Idle
<1>1. cmd.chosen \in backups \union {Empty}
  BY DEF HalfwayInv, ChosenKnown
<1>2. ASSUME NEW pc \in {"schema", "copy", "versions", "settings"},
             NEW kind \in {"init-db", "migrate", "wipe", "reseed-cash"},
             Begin(kind, pc)
      PROVE  HalfwayInv'
  <2>1. cmd.pc = "idle" /\ cmd'.pc = pc /\ cmd'.chosen = Empty
    BY <1>0, <1>2 DEF Begin, Idle
  <2>2. MoveStep
    BY <1>2, <2>1, SameFilesShown DEF MoveStep, Begin
  <2> QED
    BY <2>1, <2>2, MoveStepFits
<1>3. CASE InitDb \/ InitDbForce \/ Migrate \/ Wipe \/ ReseedCash
  BY <1>2, <1>3 DEF InitDb, InitDbForce, Migrate, Wipe, ReseedCash
<1>4. CASE Restore
  <2>1. /\ cmd.pc = "idle" /\ cmd'.pc \in {"copy", "place"}
        /\ cmd'.chosen \in backups
    BY <1>0, <1>4 DEF Restore, Idle, RestorePc
  <2>2. MoveStep
    BY <1>4, <2>1, SameFilesShown DEF MoveStep, Restore
  <2> QED
    BY <2>1, <2>2, MoveStepFits
<1>5. CASE CopyFile
  <2>1. cmd.pc = "copy" /\ cmd'.pc = "unlink" /\ cmd'.chosen = cmd.chosen
    BY <1>0, <1>5, GotoKeepsRead DEF CopyFile, Pcs
  <2>2. main # NoFile
    BY <2>1 DEF DbInv, FileThere, Exists
  <2>3. MoveStep
    BY <1>1, <1>5, <2>1, <2>2, SameFilesShown DEF MoveStep, CopyFile, Copied
  <2> QED
    BY <2>1, <2>3, MoveStepFits
<1>6. CASE UnlinkFile
  <2>1. cmd.pc = "unlink" /\ cmd'.pc = "unlinkWal" /\ cmd'.chosen = cmd.chosen
    BY <1>0, <1>6, GotoKeepsRead DEF UnlinkFile, Pcs
  <2>2. main' = NoFile /\ wal' = wal /\ View' = Empty
    BY <1>6 DEF UnlinkFile, View, Exists
  <2>3. MoveStep
    BY <1>1, <1>6, <2>1, <2>2 DEF MoveStep, UnlinkFile, Shown
  <2> QED
    BY <2>1, <2>3, MoveStepFits
<1>7. CASE UnlinkLog
  <2>1. /\ cmd.pc = "unlinkWal" /\ cmd'.pc \in {"idle", "place", "schema"}
        /\ cmd'.chosen \in {cmd.chosen, Empty}
    BY <1>0, <1>7, GotoKeepsRead DEF UnlinkLog, AfterUnlink, Ends, Pcs
  <2>2. main' = main /\ wal' = NoFile /\ View' \in {Empty, main'}
    BY <1>7 DEF UnlinkLog, LogUnlinked, View
  <2>3. View' = Empty
    BY <2>1, <2>2 DEF DbInv, FileGone, Exists, View
  <2>4. MoveStep
    BY <1>1, <1>7, <2>1, <2>2, <2>3 DEF MoveStep, UnlinkLog, Shown
  <2> QED
    BY <2>1, <2>4, MoveStepFits
<1>8. CASE PlaceBackup
  <2>1. cmd.pc = "place" /\ cmd'.pc = "versions" /\ cmd'.chosen = cmd.chosen
    BY <1>0, <1>8, GotoKeepsRead DEF PlaceBackup, Pcs
  <2>2. main' = cmd.chosen /\ wal' = wal /\ View' \in {Empty, wal, cmd.chosen}
    BY <1>8 DEF PlaceBackup, View
  <2>3. View' = wal => wal # NoFile
    BY <2>2, ContentIsFile, FilesTyped DEF TypeOK, CommandType, View, DbInv
  <2>4. MoveStep
    BY <1>1, <1>8, <2>1, <2>2, <2>3 DEF MoveStep, PlaceBackup, Shown
  <2> QED
    BY <2>1, <2>4, MoveStepFits
<1>9. CASE Dies
  <2>1. cmd' = Idle /\ cmd.pc \in scars'
    BY <1>9 DEF Dies, Ends
  <2>2. MoveStep
    BY <1>0, <1>9, <2>1, SameFilesShown DEF MoveStep, Dies
  <2> QED
    BY <1>0, <2>1, <2>2, MoveStepFits
<1> QED
  BY <1>3, <1>4, <1>5, <1>6, <1>7, <1>8, <1>9

LEMMA DaemonsMove ==
  ASSUME DbInv, HalfwayInv,
         \/ Checkpoint
         \/ \E d \in Daemons : Connect(d) \/ Disconnect(d) \/ Killed(d)
  PROVE  HalfwayInv'
<1> USE DEF Histories, FromDaemons
<1>1. cmd.chosen \in backups \union {Empty} /\ cmd' = cmd
      /\ backups' = backups /\ scars' = scars
  BY DEF HalfwayInv, ChosenKnown, Checkpoint, Connect, Disconnect, Killed
<1>2. /\ View' = View
      /\ Shown' \subseteq Shown \union {Empty}
      /\ main' \in Shown \union {main, Empty}
  <2>1. CASE Checkpoint
    <3>1. Exists /\ main' = View /\ wal' = wal /\ View \in Content
      BY <2>1, ViewTyped DEF Checkpoint, DbInv, FileThere
    <3>2. View' = View
      BY <3>1, ContentIsFile DEF View, Exists
    <3> QED
      BY <3>1, <3>2 DEF Shown
  <2>2. CASE \E d \in Daemons : Connect(d)
    <3>1. /\ Exists => main' = main /\ wal' = wal
          /\ ~Exists => main' = Empty /\ wal' = NoFile
      BY <2>2 DEF Connect
    <3>2. View' = View
      BY <3>1, ContentIsFile, FilesTyped DEF Exists, View
    <3> QED
      BY <3>1, <3>2 DEF Shown
  <2>3. ASSUME NEW d \in Daemons, Disconnect(d)
        PROVE  /\ View' = View
               /\ Shown' \subseteq Shown \union {Empty}
               /\ main' \in Shown \union {main, Empty}
    <3>1. conn[d] = "file" => Exists
      BY DEF DbInv, InUse, FileThere
    <3>2. \/ main' = main /\ wal' = wal
          \/ main' = View /\ wal' = NoFile /\ Exists
      BY <2>3, <3>1 DEF Disconnect
    <3>3. View' = View
      BY <3>2, ViewTyped, ContentIsFile DEF Exists, View, DbInv
    <3> QED
      BY <3>2, <3>3 DEF Shown
  <2>4. CASE \E d \in Daemons : Killed(d)
    <3>1. main' = main /\ wal' = wal
      BY <2>4 DEF Killed
    <3> QED
      BY <3>1, SameFilesShown
  <2> QED
    BY <2>1, <2>2, <2>3, <2>4
<1>3. MoveStep
  BY <1>1, <1>2 DEF MoveStep
<1> QED
  BY <1>1, <1>2, <1>3, MoveStepFits DEF At

LEMMA CommitFits ==
  ASSUME DbInv, HalfwayInv, NEW d \in Daemons, Commit(d)
  PROVE  HalfwayInv'
<1> USE DEF Histories
<1>1. /\ cmd' = cmd /\ backups' = backups /\ scars' = scars /\ main' = main
      /\ cmd.chosen \in backups \union {Empty}
  BY DEF Commit, HalfwayInv, ChosenKnown
<1>2. CASE conn[d] = "file"
  <2> DEFINE c == [View EXCEPT !.txns = @ \union {txns + 1}]
  <2>1. Exists /\ View \in Content /\ wal' = c
    BY <1>2, ViewTyped DEF DbInv, InUse, FileThere, Commit
  <2>2. txns + 1 \in 1 .. MaxTxns
    BY DatabaseFileAssumption DEF Commit, DbInv, TypeOK
  <2>3. /\ c \in Content /\ c.cash = View.cash /\ c.columns = View.columns
        /\ c.versions = View.versions /\ c.tables = View.tables
    BY <2>1, <2>2 DEF Content
  <2> HIDE DEF c
  <2>4. View' = c /\ Shown' = {c}
    BY <1>1, <2>1, <2>3, ContentIsFile DEF View, Shown, Exists
  <2>5. SeedsGood' = SeedsGood /\ AltersGood' = AltersGood
    BY <1>1 DEF SeedsGood, AltersGood
  <2>6. ChosenKnown' /\ SeedBetween' /\ HalvesBetween'
    BY <1>1, <2>3, <2>4, <2>5, ViewFits
    DEF ChosenKnown, SeedBetween, HalvesBetween, At
  <2>7. RecordedFiles'
    BY <1>1, <2>3, <2>4, <2>5, ViewFits DEF RecordedFiles, HalfwayInv, Recorded
  <2>8. VersionsRead' /\ AltersInTurn'
    BY <1>1, <2>3, <2>4, <2>5 DEF VersionsRead, AltersInTurn, Migrating, At, HalfwayInv
  <2> QED
    BY <2>6, <2>7, <2>8 DEF HalfwayInv
<1>3. CASE conn[d] # "file"
  <2>1. wal' = wal
    BY <1>3 DEF Commit
  <2>2. MoveStep /\ View' = View
    BY <1>1, <2>1, SameFilesShown DEF MoveStep
  <2> QED
    BY <1>1, <2>2, MoveStepFits DEF At
<1> QED
  BY <1>2, <1>3

LEMMA HalfwayNext ==
  ASSUME DbInv, HalfwayInv, [Next]_vars
  PROVE  HalfwayInv'
<1>1. CASE UNCHANGED vars
  <2>1. View' = View /\ Shown' = Shown
    BY <1>1, SameFilesShown DEF vars
  <2> QED
    BY <1>1, <2>1 DEF vars, HalfwayInv, ChosenKnown, SeedBetween, SeedsGood,
       RecordedFiles, AltersGood, HalvesBetween, VersionsRead, AltersInTurn, Migrating,
       At, Recorded
<1>2. CASE \E d \in Daemons : Daemon(d)
  BY <1>2, DaemonsMove, CommitFits DEF Daemon
<1>3. CASE Checkpoint
  BY <1>3, DaemonsMove
<1>4. CASE Writing
  BY <1>4, WritingFits
<1>5. CASE Command /\ ~Writing
  BY <1>5, CommandsMove DEF Command, Writing
<1> QED
  BY <1>1, <1>2, <1>3, <1>4, <1>5 DEF Next

LEMMA InitHalfway ==
  ASSUME Init
  PROVE  HalfwayInv
<1>1. OldFile \in Content /\ OldFile # NoFile /\ wal = NoFile /\ backups = {}
  BY FilesTyped, ContentIsFile DEF Init
<1>2. View \in {Empty, OldFile} /\ Shown = {View} /\ main \in {NoFile, OldFile}
  BY <1>1 DEF Init, View, Shown, Exists
<1>3. cmd.pc = "idle" /\ cmd.chosen = Empty
  BY DEF Init, Idle
<1>4. Recorded(OldFile) /\ OldFile.columns = {} /\ OldFile.cash # "seed"
  BY DEF Recorded, OldFile
<1>5. ChosenKnown /\ SeedBetween /\ HalvesBetween
  BY <1>2, <1>3, <1>4, EmptyFits DEF ChosenKnown, SeedBetween, HalvesBetween
<1>6. RecordedFiles
  BY <1>1, <1>2, <1>4, EmptyFits DEF RecordedFiles
<1>7. VersionsRead /\ AltersInTurn
  BY <1>3 DEF VersionsRead, AltersInTurn, Migrating, At
<1> QED
  BY <1>5, <1>6, <1>7 DEF HalfwayInv

(***************************************************************************)
(* tradectl's commands stop halfway in these ways only, whatever dies: the *)
(* argument about what is shown holds in every state.                      *)
(***************************************************************************)
THEOREM HalfwayInvariant == Spec => []HalfwayInv
<1>1. Init => HalfwayInv
  BY InitHalfway
<1>2. DbInv /\ HalfwayInv /\ [Next]_vars => HalfwayInv'
  BY HalfwayNext
<1> QED
  BY <1>1, <1>2, FileInvariant, PTL DEF Spec

(***************************************************************************)
(* tradectl init-db and reseed-cash: a reader finds the capital and the    *)
(* limits of settings.toml, never those of seed.sql, unless an init-db is  *)
(* between the two, died there or was copied there.                        *)
(***************************************************************************)
THEOREM SettingsReachTheDesk == Spec => []SettingsApplied
<1>1. HalfwayInv => SettingsApplied
  BY DEF HalfwayInv, SeedBetween, SeedsGood, SettingsApplied, Shown
<1> QED
  BY <1>1, HalfwayInvariant, PTL

(***************************************************************************)
(* _apply_migrations: a migration recorded as applied is applied, although *)
(* a duplicate column is taken for the whole migration, unless a migrator  *)
(* stands or died between its two columns, or a copy was taken there.      *)
(***************************************************************************)
THEOREM MigrationsRecorded == Spec => []RecordedMeansApplied
<1>1. HalfwayInv => RecordedMeansApplied
  BY DEF HalfwayInv, RecordedFiles, AltersGood, Recorded, RecordedMeansApplied, Shown
<1> QED
  BY <1>1, HalfwayInvariant, PTL

=============================================================================
