---------------------------- MODULE TraderDaemon ----------------------------
(***************************************************************************)
(* One thread of daemons/main.py: TraderDaemon.tick and the two handlers   *)
(* it routes pending recommendations to.  Each action ends at one database *)
(* call, so every other thread and process can act between any two of      *)
(* them.  The mode and the list of pending ids are read once per tick and  *)
(* used, stale, until the tick ends.                                       *)
(*                                                                         *)
(* check_proposed_order reads cash, positions and orders in turn.  The     *)
(* writers that can come between the reads touch one table each, so the    *)
(* reads are taken together, with the read of cash.                        *)
(***************************************************************************)
EXTENDS DeskTables

CONSTANTS
  Tier,            \* the tier of each strategy in strategies.yaml
  MaxConcurrent,   \* max_concurrent of a strategy
  PositionLimit,   \* starting_capital * max_position_pct
  BookLimit,       \* starting_capital * max_book_pct
  StrategyLimit,   \* starting_capital * single_strategy_pct
  DailyLossHalt    \* daily_loss_halt of the cash row

ASSUME TraderAssumption ==
  /\ Tier \in [Strategies -> {"experimental", "shadow", "paper", "draft", "live"}]
  /\ MaxConcurrent \in Nat
  /\ {PositionLimit, BookLimit, StrategyLimit, DailyLossHalt} \subseteq Nat

VARIABLE trader    \* the locals of the tick

Handling ==        \* the places inside a handler, where it may raise
  {"rec", "size", "draft", "paper", "live", "fillPosition", "fillRec",
   "gone", "closeOrder", "closePosition", "closeRec", "closePnl",
   "unclose", "reopen", "note"}

Places == {"idle", "tick", "eval", "next", "error"} \cup Handling

TraderTypeOK ==
  trader \in [pc : Places,
              mode : Modes, todo : SUBSET DOMAIN recs, rec : 0 .. Len(recs),
              slots : [Strategies -> Nat], price : Int]

IdleTrader ==
  [pc |-> "idle", mode |-> "halt", todo |-> {}, rec |-> 0,
   slots |-> [s \in Strategies |-> 0], price |-> 0]

TraderInit == trader = IdleTrader

Goto(pc) == trader' = [trader EXCEPT !.pc = pc]

At(pc) == trader.pc = pc

NextRec == trader' = [trader EXCEPT !.pc = "next", !.rec = 0, !.price = 0]

Closing == recs[trader.rec].position    \* the N of "Position N exit:"

-----------------------------------------------------------------------------
(* tick and evaluate_strategies *)

Executable(mode) ==
  CASE mode = "paper" -> {"paper", "draft", "live"}
    [] mode = "draft" -> {"draft", "live"}
    [] mode = "live"  -> {"live"}
    [] mode = "halt"  -> {}

TickStart ==
  /\ At("idle")
  /\ cash.mode # "halt"
  /\ trader' = [trader EXCEPT !.pc = "tick", !.mode = cash.mode]
  /\ UNCHANGED deskVars

SlotsHeld == [s \in Strategies |-> Cardinality(HeldBy(s))]   \* mutant of SlotsTaken
SlotsTaken == [s \in Strategies |-> Cardinality(HeldBy(s)) + Cardinality(StagedBy(s))]

CountSlots ==
  /\ At("tick")
  /\ trader' = [trader EXCEPT !.pc = "eval", !.slots = SlotsTaken]
  /\ UNCHANGED deskVars

(***************************************************************************)
(* Strategy s, loaded for the mode of the tick, signals once more and      *)
(* can_open_more lets the signal through.                                  *)
(***************************************************************************)
Emit(s, maxLoss) ==
  /\ At("eval")
  /\ Tier[s] \in Executable(trader.mode)
  /\ trader.slots[s] < MaxConcurrent
  /\ InsertRec(s, 0, maxLoss)
  /\ trader' = [trader EXCEPT !.slots[s] = @ + 1]
  /\ UNCHANGED <<orders, positions, cash, slipped, crashes, faults>>

(***************************************************************************)
(* From "tick": without strategies or a snapshot nothing is evaluated.     *)
(***************************************************************************)
ListPending ==
  /\ trader.pc \in {"tick", "eval"}
  /\ trader' = [IdleTrader EXCEPT !.pc = "next", !.mode = trader.mode,
                                  !.todo = PendingRecs]
  /\ UNCHANGED deskVars

TakeRec ==
  /\ At("next")
  /\ \E r \in trader.todo :
       /\ \A q \in trader.todo : r <= q
       /\ trader' = [trader EXCEPT !.pc = "rec", !.rec = r, !.todo = @ \ {r}]
  /\ UNCHANGED deskVars

TickEnd ==
  /\ At("next")
  /\ trader.todo = {}
  /\ trader' = IdleTrader
  /\ UNCHANGED deskVars

-----------------------------------------------------------------------------
(* _handle_opening_rec and _paper_fill *)

HaltIgnored == TRUE                          \* mutant of NotHalted
NotHalted == cash.mode # "halt"

LossCheckedLate == cash.dailyPnl >= -DailyLossHalt   \* mutant of LossAllows
LossAllows == cash.dailyPnl > -DailyLossHalt

HeldTotal(r) == OpenRisk(Held) + recs[r].maxLoss     \* mutant of NewTotal
NewTotal(r) == OpenRisk(Held) + StagedRisk + recs[r].maxLoss

ShareOfTheBook(r) == recs[r].maxLoss <= StrategyLimit   \* mutant of ShareAllows
ShareAllows(r) == OpenRisk(HeldBy(recs[r].source)) + recs[r].maxLoss <= StrategyLimit

(***************************************************************************)
(* core/sizing.py: check_proposed_order                                    *)
(***************************************************************************)
SizeAllows(r) ==
  LET maxLoss == recs[r].maxLoss
  IN  /\ NotHalted
      /\ LossAllows
      /\ maxLoss <= PositionLimit
      /\ NewTotal(r) <= BookLimit
      /\ ShareAllows(r)

OpeningStaged ==     \* an active order exists: leave it to the human
  /\ At("rec") /\ IsOpening(trader.rec)
  /\ ActiveOrders(trader.rec) # {}
  /\ NextRec
  /\ UNCHANGED deskVars

StagedOrNot ==       \* mutant of OpeningFresh
  /\ At("rec") /\ IsOpening(trader.rec)
  /\ Goto("size")
  /\ UNCHANGED deskVars

OpeningFresh ==
  /\ At("rec") /\ IsOpening(trader.rec)
  /\ ActiveOrders(trader.rec) = {}
  /\ Goto("size")
  /\ UNCHANGED deskVars

(***************************************************************************)
(* Refused by the size check, by the DTE policy or for a missing quote:    *)
(* the last two may happen to any recommendation.                          *)
(***************************************************************************)
Refuse ==
  /\ At("size")
  /\ UpdateRec(trader.rec, "rejected")
  /\ NextRec
  /\ UNCHANGED <<orders, positions, cash, slipped, crashes, faults>>

Admit(price) ==
  /\ At("size")
  /\ SizeAllows(trader.rec)
  /\ trader' = [trader EXCEPT !.pc = trader.mode, !.price = price]
  /\ UNCHANGED deskVars

StageDraft ==
  /\ At("draft")
  /\ InsertOrder(trader.rec, trader.price, "draft")
  /\ RecordOpening
  /\ Goto("note")
  /\ UNCHANGED <<recs, positions, cash, crashes, faults>>

RefuseLive ==
  /\ At("live")
  /\ UpdateRec(trader.rec, "rejected")
  /\ NextRec
  /\ UNCHANGED <<orders, positions, cash, slipped, crashes, faults>>

FillOrder ==
  /\ At("paper")
  /\ InsertOrder(trader.rec, trader.price, "filled")
  /\ RecordOpening
  /\ Goto("fillPosition")
  /\ UNCHANGED <<recs, positions, cash, crashes, faults>>

FillPosition ==
  /\ At("fillPosition")
  /\ InsertPosition(trader.rec, trader.price)
  /\ Goto("fillRec")
  /\ UNCHANGED <<recs, orders, cash, slipped, crashes, faults>>

FillLeftPending ==   \* mutant of FillRec
  /\ At("fillRec")
  /\ NextRec
  /\ UNCHANGED deskVars

FillRec ==
  /\ At("fillRec")
  /\ UpdateRec(trader.rec, "executed")
  /\ NextRec
  /\ UNCHANGED <<orders, positions, cash, slipped, crashes, faults>>

-----------------------------------------------------------------------------
(* _handle_closing_rec *)

CloseGone ==         \* the position is neither open nor closing
  /\ At("rec") /\ ~IsOpening(trader.rec)
  /\ Closing \notin Held
  /\ Goto("gone")
  /\ UNCHANGED deskVars

MarkGone ==
  /\ At("gone")
  /\ UpdateRec(trader.rec, "executed")
  /\ NextRec
  /\ UNCHANGED <<orders, positions, cash, slipped, crashes, faults>>

CloseUnquoted ==     \* a leg has no quote: left pending for the next tick
  /\ At("rec") /\ ~IsOpening(trader.rec)
  /\ Closing \in Held
  /\ NextRec
  /\ UNCHANGED deskVars

CloseQuoted(price) ==
  /\ At("rec") /\ ~IsOpening(trader.rec)
  /\ Closing \in Held
  /\ trader' = [trader EXCEPT
                  !.pc = IF trader.mode = "paper" THEN "closeOrder" ELSE "unclose",
                  !.price = price]
  /\ UNCHANGED deskVars

CloseValue == trader.price                   \* mutant of Realized
Realized == trader.price - positions[Closing].debit

CloseOrder ==
  /\ At("closeOrder")
  /\ InsertOrder(trader.rec, trader.price, "filled")
  /\ Goto("closePosition")
  /\ UNCHANGED <<recs, positions, cash, slipped, crashes, faults>>

ClosePosition ==
  /\ At("closePosition")
  /\ UpdatePosition(Closing, "closed", Realized)
  /\ Goto("closeRec")
  /\ UNCHANGED <<recs, orders, cash, slipped, crashes, faults>>

CloseRec ==
  /\ At("closeRec")
  /\ UpdateRec(trader.rec, "executed")
  /\ Goto("closePnl")
  /\ UNCHANGED <<orders, positions, cash, slipped, crashes, faults>>

ClosePnl ==
  /\ At("closePnl")
  /\ UpdateDailyPnl(Realized)
  /\ Goto("note")
  /\ UNCHANGED <<recs, orders, positions, slipped, crashes, faults>>

RefuseClose ==       \* draft and live: closing is not implemented there
  /\ At("unclose")
  /\ UpdateRec(trader.rec, "rejected")
  /\ Goto("reopen")
  /\ UNCHANGED <<orders, positions, cash, slipped, crashes, faults>>

LeftClosing ==       \* mutant of Reopen
  /\ At("reopen")
  /\ NextRec
  /\ UNCHANGED deskVars

Reopen ==
  /\ At("reopen")
  /\ UpdatePosition(Closing, "open", 0)
  /\ NextRec
  /\ UNCHANGED <<recs, orders, cash, slipped, crashes, faults>>

-----------------------------------------------------------------------------
(* The commentary that ends a handler, and exceptions *)

Note ==
  /\ At("note")
  /\ NextRec
  /\ UNCHANGED deskVars

(***************************************************************************)
(* A database call raises ("database is locked" after busy_timeout).       *)
(***************************************************************************)
HandlerRaises ==
  /\ trader.pc \in Handling
  /\ faults < MaxFaults
  /\ faults' = faults + 1
  /\ Goto("error")
  /\ UNCHANGED <<recs, orders, positions, cash, slipped, crashes>>

HandlerError ==      \* the except branch of tick
  /\ At("error")
  /\ UpdateRec(trader.rec, "rejected")
  /\ NextRec
  /\ UNCHANGED <<orders, positions, cash, slipped, crashes, faults>>

TickRaises ==        \* outside the try of a recommendation: the tick is over
  /\ trader.pc \in {"tick", "eval", "error"}
  /\ faults < MaxFaults
  /\ faults' = faults + 1
  /\ trader' = IdleTrader
  /\ UNCHANGED <<recs, orders, positions, cash, slipped, crashes>>

(***************************************************************************)
(* A tick once begun: every step but its start and the exceptions.         *)
(***************************************************************************)
TraderWorks ==
  \/ CountSlots \/ ListPending \/ TakeRec \/ TickEnd
  \/ \E s \in Strategies, l \in MaxLosses : Emit(s, l)
  \/ OpeningStaged \/ OpeningFresh \/ Refuse \/ StageDraft \/ RefuseLive
  \/ \E x \in Prices : Admit(x)
  \/ FillOrder \/ FillPosition \/ FillRec
  \/ CloseGone \/ MarkGone \/ CloseUnquoted
  \/ \E x \in Prices : CloseQuoted(x)
  \/ CloseOrder \/ ClosePosition \/ CloseRec \/ ClosePnl
  \/ RefuseClose \/ Reopen
  \/ Note \/ HandlerError

TraderRaises == HandlerRaises \/ TickRaises

=============================================================================
