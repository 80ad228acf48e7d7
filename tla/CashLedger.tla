----------------------------- MODULE CashLedger -----------------------------
(***************************************************************************)
(* The cash table, which TradeDesk sees as one record.  A change of mode   *)
(* or of P&L appends a copy of the current row; the current row is the one *)
(* `ORDER BY ts DESC LIMIT 1` finds, so who is heard last depends on the   *)
(* timestamps.  They are strings and sort as such.  Everyone but the       *)
(* reconciler writes UTC, milliseconds and a 'Z'; the reconciler writes    *)
(* datetime.now(), local time, microseconds and no zone.                   *)
(*                                                                         *)
(* Each writer reads and appends in one BEGIN IMMEDIATE transaction, except *)
(* reseed-cash, which runs an INSERT and an UPDATE in autocommit mode.     *)
(***************************************************************************)
EXTENDS Integers, Sequences

CONSTANTS
  Offset,        \* local time minus UTC, on the machine of the reconciler
  Starting,      \* starting_capital of seed.sql and settings.toml
  DefaultMode,   \* mode.default of settings.toml
  Gains,         \* what a closed position can realize
  MaxTime,       \* bound: clock, in milliseconds
  MaxRows        \* bound: cash rows

Modes == {"paper", "draft", "live", "halt"}

ASSUME LedgerAssumption ==
  /\ Offset \in Int
  /\ Starting \in Nat
  /\ DefaultMode \in Modes
  /\ Gains \subseteq Int
  /\ MaxTime \in Nat
  /\ MaxRows \in Nat

VARIABLES
  rows,         \* the table, in order of rowid
  now,          \* the clock, in UTC
  reconciler,   \* a pass is "idle", or "pulling" the positions from IB
  reseed,       \* a reseed-cash is "idle", or has "inserted" its row
  asked,        \* history: the mode last asked for, and what has undone it
  booked        \* history: the sum of what was booked

ledgerVars == <<rows, now, reconciler, reseed, asked, booked>>

(***************************************************************************)
(* A mode asked for by a person or by the reconciler has been undone by    *)
(* nothing, by a reseed, or by sharing a millisecond with another row.     *)
(***************************************************************************)
Asked == [mode : Modes, undone : {"no", "reseed", "millisecond"}]

CashRow == [ts : Int, mode : Modes, pnl : Int, balance : Int, high : Int]

TypeOK ==
  /\ rows \in Seq(CashRow) /\ rows # << >>
  /\ now \in Nat
  /\ reconciler \in {"idle", "pulling"}
  /\ reseed \in {"idle", "inserted"}
  /\ asked \in Asked
  /\ booked \in Int

Unseeded ==          \* mutant of Init
  /\ rows = << >>
  /\ now = 0
  /\ reconciler = "idle"
  /\ reseed = "idle"
  /\ asked = [mode |-> "paper", undone |-> "no"]
  /\ booked = 0

Init ==
  /\ rows = <<[ts |-> 1, mode |-> "paper", pnl |-> 0,
               balance |-> Starting, high |-> Starting]>>
  /\ now = 0
  /\ reconciler = "idle"
  /\ reseed = "idle"
  /\ asked = [mode |-> "paper", undone |-> "no"]
  /\ booked = 0

-----------------------------------------------------------------------------
(***************************************************************************)
(* The two formats as sort keys, two for each millisecond.  Up to the      *)
(* milliseconds they agree; then '.123Z' has its Z, and '.123456' a digit, *)
(* which sorts before any letter (as does '', when the microseconds are    *)
(* zero and left out).                                                     *)
(***************************************************************************)
UtcStamp == 2 * now + 1                 \* utc_now_iso
LocalStamp == 2 * (now + Offset)        \* datetime.now().isoformat()

(***************************************************************************)
(* Ties are common: the index on ts is read backwards and so gives the     *)
(* youngest of the rows with the highest ts.                               *)
(***************************************************************************)
OldestOfTies(i, j) ==                                     \* mutant of Supersedes
  \/ rows[i].ts > rows[j].ts
  \/ rows[i].ts = rows[j].ts /\ i <= j
Supersedes(i, j) ==
  \/ rows[i].ts > rows[j].ts
  \/ rows[i].ts = rows[j].ts /\ i >= j

CurrentRow == CHOOSE i \in DOMAIN rows : \A j \in DOMAIN rows : Supersedes(i, j)

Current == rows[CurrentRow]

AppendRow(row) ==
  /\ Len(rows) < MaxRows
  /\ rows' = Append(rows, row)

Tick ==
  /\ now < MaxTime
  /\ now' = now + 1
  /\ UNCHANGED <<rows, reconciler, reseed, asked, booked>>

(***************************************************************************)
(* tradectl mode, halt, unhalt and POST /mode, /halt, /unhalt.             *)
(***************************************************************************)
SetMode(mode) ==
  /\ AppendRow([Current EXCEPT !.ts = UtcStamp, !.mode = mode])
  /\ asked' = [mode |-> mode, undone |-> "no"]
  /\ UNCHANGED <<now, reconciler, reseed, booked>>

OldHigh(gain) == Current.high                             \* mutant of Watermark
Watermark(gain) ==
  IF Current.balance + gain > Current.high THEN Current.balance + gain
                                           ELSE Current.high

UpdateDailyPnl(gain) ==
  /\ AppendRow([Current EXCEPT !.ts = UtcStamp, !.pnl = @ + gain,
                               !.balance = @ + gain, !.high = Watermark(gain)])
  /\ booked' = booked + gain
  /\ UNCHANGED <<now, reconciler, reseed, asked>>

-----------------------------------------------------------------------------
(* reconcile and persist_report *)

ReconcileBegins ==     \* in paper mode there is nothing to compare
  /\ reconciler = "idle"
  /\ Current.mode # "paper"
  /\ reconciler' = "pulling"
  /\ UNCHANGED <<rows, now, reseed, asked, booked>>

ReconcileEnds ==       \* consistent, or the desk is halted already
  /\ reconciler = "pulling"
  /\ reconciler' = "idle"
  /\ UNCHANGED <<rows, now, reseed, asked, booked>>

ReconcileHalts ==
  /\ reconciler = "pulling"
  /\ Current.mode # "halt"
  /\ AppendRow([Current EXCEPT !.ts = LocalStamp, !.mode = "halt"])
  /\ asked' = [mode |-> "halt",
               undone |-> IF Current.ts = UtcStamp THEN "millisecond" ELSE "no"]
  /\ reconciler' = "idle"
  /\ UNCHANGED <<now, reseed, booked>>

-----------------------------------------------------------------------------
(* reseed_cash *)

ReseedInserts ==
  /\ reseed = "idle"
  /\ AppendRow([Current EXCEPT !.ts = UtcStamp])
  /\ reseed' = "inserted"
  /\ UNCHANGED <<now, reconciler, asked, booked>>

(***************************************************************************)
(* _apply_settings_to_cash_row edits whatever row is current by now, its   *)
(* mode included, although nobody has asked for one.                       *)
(***************************************************************************)
ReseedUpdates ==
  /\ reseed = "inserted"
  /\ rows' = [rows EXCEPT ![CurrentRow] =
                [@ EXCEPT !.balance = Starting, !.high = Starting,
                          !.mode = DefaultMode]]
  /\ asked' = [asked EXCEPT !.undone = "reseed"]
  /\ reseed' = "idle"
  /\ UNCHANGED <<now, reconciler, booked>>

ReseedDies ==          \* settings.toml is missing or unreadable
  /\ reseed = "inserted"
  /\ reseed' = "idle"
  /\ UNCHANGED <<rows, now, reconciler, asked, booked>>

Next ==
  \/ Tick
  \/ \E mode \in Modes : SetMode(mode)
  \/ \E gain \in Gains : UpdateDailyPnl(gain)
  \/ ReconcileBegins \/ ReconcileEnds \/ ReconcileHalts
  \/ ReseedInserts \/ ReseedUpdates \/ ReseedDies

Spec == Init /\ [][Next]_ledgerVars

-----------------------------------------------------------------------------
(***************************************************************************)
(* core/db.py, utc_now_iso: rows sort by timestamp in the order they were  *)
(* written.  Whoever asked for a mode last is heard: no booking, no pass   *)
(* and no command in between brings an older mode back.  Two things do     *)
(* undo it: a reseed, which brings the default mode, and the format of the *)
(* reconciler's timestamp, when another row has the same millisecond.      *)
(***************************************************************************)
LastAskedIsCurrent ==
  CASE asked.undone = "no"     -> Current.mode = asked.mode
    [] asked.undone = "reseed" -> Current.mode = DefaultMode
    [] OTHER                   -> TRUE

(***************************************************************************)
(* No realized P&L is lost from the current row, whatever was appended or  *)
(* edited since: daily_loss_halt is checked against it.                    *)
(***************************************************************************)
AllBookedIsCurrent == Current.pnl = booked

(***************************************************************************)
(* The high watermark is never below the balance, although reseed-cash     *)
(* resets both in a row it did not read.                                   *)
(***************************************************************************)
WatermarkAboveBalance == Current.high >= Current.balance

=============================================================================
