----------------------------- MODULE DeskTables -----------------------------
(***************************************************************************)
(* The SQLite tables the daemons share, and the write helpers of           *)
(* core/db.py.  Every helper runs in a BEGIN IMMEDIATE transaction of its  *)
(* own, so one helper call is one atomic change of one table; nothing      *)
(* spans two helpers.  Rows are never deleted: a table is a sequence, and  *)
(* the index of a row is its AUTOINCREMENT id.                             *)
(*                                                                         *)
(* A price stands for (combo mid) * qty * 1000, the signed dollar value of *)
(* the whole order: positive for a debit, negative for a credit.           *)
(***************************************************************************)
EXTENDS Integers, Sequences, FiniteSetsExt, FiniteSums

CONSTANTS
  Strategies,      \* ids of the enabled strategies
  Prices,          \* the dollar values a combo can be quoted at
  MaxLosses,       \* the max_loss values a signal can carry
  MaxRecs,         \* bound: recommendations ever inserted
  MaxCrashes,      \* bound: crashes of the daemon process or of an operator's
  MaxFaults        \* bound: exceptions raised by a database write

(***************************************************************************)
(* The source column tells closings from openings.                         *)
(***************************************************************************)
PositionManager == "position_manager"

ASSUME DeskAssumption ==
  /\ PositionManager \notin Strategies
  /\ Prices \subseteq Int
  /\ MaxLosses \subseteq Nat
  /\ MaxRecs \in Nat
  /\ MaxCrashes \in Nat
  /\ MaxFaults \in Nat

VARIABLES
  recs,        \* recommendations
  orders,      \* orders
  positions,   \* positions
  cash,        \* mode and daily_pnl of the current cash row (see CashLedger)
  slipped,     \* history: openings recorded since the desk was halted
  crashes,     \* how many crashes happened, at most MaxCrashes
  faults       \* how many writes failed, at most MaxFaults

deskVars == <<recs, orders, positions, cash, slipped, crashes, faults>>

Modes == {"paper", "draft", "live", "halt"}

Recommendation ==
  [source : Strategies \cup {PositionManager}, position : Nat, maxLoss : Nat,
   status : {"pending", "approved", "rejected", "executed"}]

Order == [rec : Nat, price : Int, status : {"draft", "filled", "cancelled"}]

Position ==
  [rec : Nat, strategy : Strategies, debit : Int, realized : Int,
   status : {"open", "closing", "closed"}]

DeskTypeOK ==
  /\ recs \in Seq(Recommendation)
  /\ orders \in Seq(Order)
  /\ positions \in Seq(Position)
  /\ cash \in [mode : Modes, dailyPnl : Int]
  /\ slipped \in Nat
  /\ crashes \in 0 .. MaxCrashes
  /\ faults \in 0 .. MaxFaults

(***************************************************************************)
(* db/seed.sql: one cash row in paper mode, the other tables empty.        *)
(***************************************************************************)
DeskInit ==
  /\ recs = << >>
  /\ orders = << >>
  /\ positions = << >>
  /\ cash = [mode |-> "paper", dailyPnl |-> 0]
  /\ slipped = 0
  /\ crashes = 0
  /\ faults = 0

-----------------------------------------------------------------------------
(* Reading *)

AllAreOpenings(r) == TRUE                     \* mutant of IsOpening
IsOpening(r) == recs[r].source # PositionManager

Dollars(x) == IF x < 0 THEN -x ELSE x

ActiveOrders(r) ==
  {o \in DOMAIN orders : orders[o].rec = r /\ orders[o].status = "draft"}

FilledOrders(r) ==
  {o \in DOMAIN orders : orders[o].rec = r /\ orders[o].status = "filled"}

Held == {p \in DOMAIN positions : positions[p].status \in {"open", "closing"}}

HeldBy(s) == {p \in Held : positions[p].strategy = s}

(***************************************************************************)
(* count_active_orders_by_strategy joins an order with its recommendation. *)
(***************************************************************************)
StagedBy(s) ==
  {o \in DOMAIN orders : /\ orders[o].status = "draft"
                         /\ recs[orders[o].rec].source = s}

PendingRecs == {r \in DOMAIN recs : recs[r].status = "pending"}

PendingClose(p) ==
  {r \in DOMAIN recs : /\ recs[r].source = PositionManager
                       /\ recs[r].position = p
                       /\ recs[r].status \in {"pending", "approved"}}

OpenRisk(P) == Total([p \in DOMAIN positions |-> Dollars(positions[p].debit)], P)

Staged == {o \in DOMAIN orders : orders[o].status = "draft"}

StagedRisk == Total([o \in DOMAIN orders |-> Dollars(orders[o].price)], Staged)

-----------------------------------------------------------------------------
(* Writing *)

InsertRec(source, position, maxLoss) ==
  /\ Len(recs) < MaxRecs
  /\ recs' = Append(recs, [source |-> source, position |-> position,
                           maxLoss |-> maxLoss, status |-> "pending"])

UpdateRec(r, status) == recs' = [recs EXCEPT ![r].status = status]

InsertOrder(r, price, status) ==
  orders' = Append(orders, [rec |-> r, price |-> price, status |-> status])

UpdateOrder(o, status) == orders' = [orders EXCEPT ![o].status = status]

InsertPosition(r, debit) ==
  positions' = Append(positions, [rec |-> r, strategy |-> recs[r].source,
                                  debit |-> debit, realized |-> 0,
                                  status |-> "open"])

(***************************************************************************)
(* Any status but 'closed' is written with realized_pnl = NULL (0 here),   *)
(* and whatever the status of the row was before.                          *)
(***************************************************************************)
UpdatePosition(p, status, realized) ==
  positions' = [positions EXCEPT
                  ![p].status = status,
                  ![p].realized = IF status = "closed" THEN realized ELSE 0]

PnlForgotten(gain) == cash' = cash            \* mutant of UpdateDailyPnl
UpdateDailyPnl(gain) == cash' = [cash EXCEPT !.dailyPnl = @ + gain]

(***************************************************************************)
(* History, not code: an order that opens risk is being recorded now.      *)
(***************************************************************************)
RecordOpening == slipped' = IF cash.mode = "halt" THEN slipped + 1 ELSE slipped

=============================================================================
