----------------------------- MODULE TradeDesk -----------------------------
(***************************************************************************)
(* The trading core as one system: the trader thread, the position-manager *)
(* thread and people's commands over the shared tables, at the grain of    *)
(* single transactions, with crashes and failing writes.                   *)
(***************************************************************************)
EXTENDS TraderDaemon, PositionManager, HumanOperators

CONSTANT TicksOverlap   \* TRUE: the threads of daemons/main.py; FALSE: one
                        \* tick at a time, as `--once` runs and the tests do

ASSUME DeskShapeAssumption == TicksOverlap \in BOOLEAN

vars == <<deskVars, trader, manager, human>>

Init == DeskInit /\ TraderInit /\ ManagerInit /\ HumanInit

TypeOK == DeskTypeOK /\ TraderTypeOK /\ ManagerTypeOK /\ HumanTypeOK

TraderBegins ==
  /\ TicksOverlap \/ manager.pc = "idle"
  /\ TickStart
  /\ UNCHANGED <<manager, human>>

TraderStep == TraderWorks /\ UNCHANGED <<manager, human>>

TraderFails == TraderRaises /\ UNCHANGED <<manager, human>>

ManagerBegins ==
  /\ TicksOverlap \/ trader.pc = "idle"
  /\ ListPositions
  /\ UNCHANGED <<trader, human>>

ManagerStep == ManagerWorks /\ UNCHANGED <<trader, human>>

ManagerFails == ManagerRaises /\ UNCHANGED <<trader, human>>

ModeCommand ==
  /\ \E mode \in SettableModes : SetMode(mode)
  /\ UNCHANGED <<trader, manager, human>>

Command ==
  /\ \E h \in Operators : CommandBegins(h) \/ CommandWorks(h) \/ CommandDies(h)
  /\ UNCHANGED <<trader, manager>>

(***************************************************************************)
(* The daemon process dies; both threads restart with nothing but the DB.  *)
(***************************************************************************)
Crash ==
  /\ trader.pc # "idle" \/ manager.pc # "idle"
  /\ crashes < MaxCrashes
  /\ crashes' = crashes + 1
  /\ trader' = IdleTrader
  /\ manager' = IdleManager
  /\ UNCHANGED <<recs, orders, positions, cash, slipped, faults, human>>

Next ==
  \/ TraderBegins \/ TraderStep \/ TraderFails
  \/ ManagerBegins \/ ManagerStep \/ ManagerFails
  \/ ModeCommand \/ Command
  \/ Crash

Spec == Init /\ [][Next]_vars

(***************************************************************************)
(* trader_worker loops for ever and a tick waits for nothing but its own   *)
(* transactions, so a tick begun ends and, unless the desk is halted,      *)
(* another begins.  Quotes are the market's: a leg that the trader looks   *)
(* for again and again is found quoted at last.                            *)
(***************************************************************************)
Fairness ==
  /\ WF_vars(TraderBegins) /\ WF_vars(TraderStep)
  /\ SF_vars(\E x \in Prices : CloseQuoted(x) /\ UNCHANGED <<manager, human>>)

FairSpec == Spec /\ Fairness

-----------------------------------------------------------------------------
(* Halting *)

OpeningRecorded ==
  /\ Len(orders') > Len(orders)
  /\ IsOpening(orders'[Len(orders')].rec)

(***************************************************************************)
(* A tick works with the mode it read at its start, but every opening is   *)
(* sized against the current cash row: after a halt at most the one        *)
(* opening that was already admitted is still recorded.                    *)
(***************************************************************************)
OpeningsAfterHalt == slipped <= 1

(***************************************************************************)
(* No opening is recorded once the day's loss has reached the halt level:  *)
(* the size check is stale when the order is inserted, but only the thread *)
(* that sizes also books P&L.                                              *)
(***************************************************************************)
LossHaltRespected ==
  [][OpeningRecorded => cash.dailyPnl > -DailyLossHalt]_vars

-----------------------------------------------------------------------------
(* Each decision takes effect once *)

(***************************************************************************)
(* Every crash can have left one fill whose recommendation is still        *)
(* pending, and so can two failing writes (a handler's and the except      *)
(* branch's): no recommendation is filled more often than that.            *)
(***************************************************************************)
FillsPerRestart ==
  \A r \in DOMAIN recs :
    Cardinality(FilledOrders(r)) <= 1 + crashes + faults \div 2

ClosingFills == {o \in DOMAIN orders : /\ orders[o].status = "filled"
                                       /\ ~IsOpening(orders[o].rec)}

ClosedBy(o) == recs[orders[o].rec].position

(***************************************************************************)
(* Without crashes and failing writes a position is sold once, although    *)
(* the manager decides on a stale list and writes in two transactions.     *)
(***************************************************************************)
ClosedOnce ==
  crashes = 0 /\ faults = 0 =>
    \A o, n \in ClosingFills : ClosedBy(o) = ClosedBy(n) => o = n

Gain(o) == orders[o].price - positions[ClosedBy(o)].debit

(***************************************************************************)
(* The P&L of the day is what the closing orders made, less the one whose  *)
(* booking is still to come.  A close is recorded in four transactions, of *)
(* which the booking is the last: every crash and every failing write can  *)
(* have lost one booking, and nothing else does.                           *)
(***************************************************************************)
PnlBooked ==
  \E lost \in SUBSET ClosingFills :
    /\ Cardinality(lost) <= crashes + faults
    /\ cash.dailyPnl =
         Total([o \in ClosingFills |-> Gain(o)], ClosingFills \ lost)
         - (IF trader.pc \in {"closePosition", "closeRec", "closePnl"}
              THEN Realized ELSE 0)

(***************************************************************************)
(* With one person at work a recommendation has at most one draft order:   *)
(* the trader looks before it stages, and the person may be half way       *)
(* through cancelling.  (Two people can break it.)                         *)
(***************************************************************************)
StagedOnce ==
  \A r \in DOMAIN recs : \A o, n \in ActiveOrders(r) : o = n

-----------------------------------------------------------------------------
(* Limits *)

(***************************************************************************)
(* docs/safety.md: what is held and staged never exceeds max_book_pct.     *)
(* The check is made on the recommendation's max_loss before the order     *)
(* exists.  A position that has been sold is not held, although a late     *)
(* write of the manager can set it back to 'closing'.                      *)
(***************************************************************************)
Sold == {ClosedBy(o) : o \in ClosingFills}

BookRiskBound == OpenRisk(Held \ Sold) + StagedRisk <= BookLimit

(***************************************************************************)
(* docs/safety.md: what a strategy holds never exceeds                     *)
(* single_strategy_pct.  The check leaves the staged orders out, which is  *)
(* safe only because a staged order never becomes a position.              *)
(***************************************************************************)
StrategyShareBound ==
  \A s \in Strategies : OpenRisk(HeldBy(s) \ Sold) <= StrategyLimit

(***************************************************************************)
(* A strategy never has more than max_concurrent positions and staged      *)
(* orders, although the slots are counted before the recommendations are   *)
(* inserted and acted upon.  (A person half way through a rejection has    *)
(* freed a slot whose recommendation the trader may stage again, so        *)
(* nothing is said once an order has been cancelled.)                      *)
(***************************************************************************)
SlotsBound ==
  (\A o \in DOMAIN orders : orders[o].status # "cancelled") =>
    \A s \in Strategies :
      Cardinality(HeldBy(s)) + Cardinality(StagedBy(s)) <= MaxConcurrent

-----------------------------------------------------------------------------
(* Exits *)

(***************************************************************************)
(* PositionManager.tick: 'closing' positions already have a pending close  *)
(* recommendation (unless the trader is just handing the position back).   *)
(***************************************************************************)
ClosingHasPendingClose ==
  \A p \in DOMAIN positions :
    positions[p].status = "closing" =>
      \/ PendingClose(p) # {}
      \/ trader.pc = "reopen" /\ Closing = p

Status(p) == IF p \in DOMAIN positions THEN positions[p].status ELSE "none"

(***************************************************************************)
(* A position put up for exit, with its recommendation pending, is         *)
(* eventually closed or handed back, whatever the manager does meanwhile.  *)
(* Three things excuse the desk.  It is halted: such a tick returns before *)
(* the exits (trader_daemon.py:371).  A write failed: between the trader's *)
(* two it leaves the position closing with nothing pending.  Or it was     *)
(* sold before: an overlapping manager made it closing again, and the      *)
(* trader does not sell it twice.                                          *)
(***************************************************************************)
ExitHappens ==
  \A p \in 1 .. MaxRecs :
    Status(p) = "closing" /\ PendingClose(p) # {} /\ p \notin Sold
      ~> \/ Status(p) \in {"open", "closed"}
         \/ cash.mode = "halt"
         \/ crashes + faults > 0

(***************************************************************************)
(* The desk keeps the promise of PositionBook.  A close that has reached   *)
(* the position but not yet the cash row counts as booked.                 *)
(***************************************************************************)
Book == INSTANCE PositionBook WITH
  Gains <- {x - y : x, y \in Prices},
  book <- [p \in DOMAIN positions |-> [stage |-> positions[p].status,
                                       realized |-> positions[p].realized]],
  pnl <- cash.dailyPnl + (IF trader.pc \in {"closeRec", "closePnl"}
                            THEN Realized ELSE 0)

KeepsBook == Book!BookSpec

=============================================================================
