--------------------------- MODULE TradeDeskProofs ---------------------------
(***************************************************************************)
(* What holds of TradeDesk for every value of its constants.  The          *)
(* inductive invariant is built in layers: types, then where a handler is  *)
(* with respect to the tables (Placed), then one layer per property.  In   *)
(* order: what is filled, staged and closed and how often; what the books  *)
(* add up to and the limits; and, one tick at a time, the pending closes,  *)
(* the refinement of PositionBook and the slots.                           *)
(***************************************************************************)
EXTENDS TradeDesk, FiniteSumsProofs

-----------------------------------------------------------------------------
(* The write helpers of DeskTables *)

(***************************************************************************)
(* A table is a sequence: writing a row keeps the others and their number, *)
(* inserting a row keeps all the rows there were.                          *)
(***************************************************************************)
LEMMA RowWritten ==
  ASSUME NEW S, NEW t \in Seq(S), NEW i \in DOMAIN t, NEW x \in S
  PROVE  /\ [t EXCEPT ![i] = x] \in Seq(S)
         /\ Len([t EXCEPT ![i] = x]) = Len(t)
         /\ DOMAIN [t EXCEPT ![i] = x] = DOMAIN t
  OBVIOUS

LEMMA RowInserted ==
  ASSUME NEW S, NEW t \in Seq(S), NEW x \in S
  PROVE  /\ Append(t, x) \in Seq(S)
         /\ Len(Append(t, x)) = Len(t) + 1
         /\ DOMAIN t \subseteq DOMAIN Append(t, x)
         /\ \A i \in DOMAIN t : Append(t, x)[i] = t[i]
         /\ Append(t, x)[Len(t) + 1] = x
  OBVIOUS

LEMMA InsertRecType ==
  ASSUME DeskTypeOK, NEW source \in Strategies \cup {PositionManager},
         NEW position \in Nat, NEW maxLoss \in Nat,
         InsertRec(source, position, maxLoss)
  PROVE  /\ recs' \in Seq(Recommendation)
         /\ Len(recs') = Len(recs) + 1
         /\ DOMAIN recs \subseteq DOMAIN recs'
         /\ \A r \in DOMAIN recs : recs'[r] = recs[r]
  <1> DEFINE row == [source |-> source, position |-> position,
                     maxLoss |-> maxLoss, status |-> "pending"]
  <1>1. row \in Recommendation
    BY DEF Recommendation
  <1>2. recs' = Append(recs, row)
    BY DEF InsertRec
  <1> QED
    BY <1>1, <1>2, RowInserted DEF DeskTypeOK

(***************************************************************************)
(* A write of a status leaves the source and the position of every         *)
(* recommendation alone, and the status of all the others.                 *)
(***************************************************************************)
LEMMA UpdateRecType ==
  ASSUME DeskTypeOK, NEW r \in DOMAIN recs,
         NEW status \in {"pending", "approved", "rejected", "executed"},
         UpdateRec(r, status)
  PROVE  /\ recs' \in Seq(Recommendation)
         /\ Len(recs') = Len(recs)
         /\ DOMAIN recs' = DOMAIN recs
         /\ recs'[r].status = status
         /\ \A q \in DOMAIN recs : /\ recs'[q].source = recs[q].source
                                   /\ recs'[q].position = recs[q].position
                                   /\ q # r => recs'[q] = recs[q]
  <1> DEFINE row == [recs[r] EXCEPT !.status = status]
  <1>1. recs \in Seq(Recommendation) /\ recs[r] \in Recommendation
    BY DEF DeskTypeOK
  <1>2. row \in Recommendation
    BY <1>1 DEF Recommendation
  <1>3. recs' = [recs EXCEPT ![r] = row]
    BY DEF UpdateRec
  <1>4. row.source = recs[r].source /\ row.position = recs[r].position /\ row.status = status
    BY <1>1 DEF Recommendation
  <1>5. /\ recs' \in Seq(Recommendation)
        /\ Len(recs') = Len(recs)
        /\ DOMAIN recs' = DOMAIN recs
    BY <1>1, <1>2, <1>3, RowWritten
  <1>6. recs'[r] = row /\ \A q \in DOMAIN recs : q # r => recs'[q] = recs[q]
    BY <1>1, <1>3
  <1> HIDE DEF row
  <1> QED
    BY <1>4, <1>5, <1>6

LEMMA InsertOrderType ==
  ASSUME DeskTypeOK, NEW r \in Nat, NEW price \in Int,
         NEW status \in {"draft", "filled", "cancelled"},
         InsertOrder(r, price, status)
  PROVE  /\ orders' \in Seq(Order)
         /\ Len(orders') = Len(orders) + 1
         /\ DOMAIN orders \subseteq DOMAIN orders'
         /\ \A o \in DOMAIN orders : orders'[o] = orders[o]
         /\ orders'[Len(orders) + 1] = [rec |-> r, price |-> price, status |-> status]
         /\ DOMAIN orders' = DOMAIN orders \cup {Len(orders) + 1}
  <1>1. [rec |-> r, price |-> price, status |-> status] \in Order
    BY DEF Order
  <1> QED
    BY <1>1, RowInserted DEF DeskTypeOK, InsertOrder

LEMMA UpdateOrderType ==
  ASSUME DeskTypeOK, NEW o \in DOMAIN orders,
         NEW status \in {"draft", "filled", "cancelled"}, UpdateOrder(o, status)
  PROVE  /\ orders' \in Seq(Order)
         /\ Len(orders') = Len(orders)
         /\ DOMAIN orders' = DOMAIN orders
         /\ orders'[o].status = status
         /\ \A n \in DOMAIN orders : /\ orders'[n].rec = orders[n].rec
                                     /\ n # o => orders'[n] = orders[n]
  <1> DEFINE row == [orders[o] EXCEPT !.status = status]
  <1>1. orders \in Seq(Order) /\ orders[o] \in Order
    BY DEF DeskTypeOK
  <1>2. row \in Order
    BY <1>1 DEF Order
  <1>3. orders' = [orders EXCEPT ![o] = row]
    BY DEF UpdateOrder
  <1>4. row.rec = orders[o].rec /\ row.status = status
    BY <1>1 DEF Order
  <1>5. /\ orders' \in Seq(Order)
        /\ Len(orders') = Len(orders)
        /\ DOMAIN orders' = DOMAIN orders
    BY <1>1, <1>2, <1>3, RowWritten
  <1>6. orders'[o] = row /\ \A n \in DOMAIN orders : n # o => orders'[n] = orders[n]
    BY <1>1, <1>3
  <1> HIDE DEF row
  <1> QED
    BY <1>4, <1>5, <1>6

LEMMA InsertPositionType ==
  ASSUME DeskTypeOK, NEW r \in DOMAIN recs, recs[r].source \in Strategies,
         NEW debit \in Int, InsertPosition(r, debit)
  PROVE  /\ positions' \in Seq(Position)
         /\ Len(positions') = Len(positions) + 1
         /\ DOMAIN positions \subseteq DOMAIN positions'
  <1>1. r \in Nat
    BY DEF DeskTypeOK
  <1>2. [rec |-> r, strategy |-> recs[r].source, debit |-> debit,
         realized |-> 0, status |-> "open"] \in Position
    BY <1>1 DEF Position
  <1> QED
    BY <1>2, RowInserted DEF DeskTypeOK, InsertPosition

LEMMA UpdatePositionType ==
  ASSUME DeskTypeOK, NEW p \in DOMAIN positions, NEW realized \in Int,
         NEW status \in {"open", "closing", "closed"},
         UpdatePosition(p, status, realized)
  PROVE  /\ positions' \in Seq(Position)
         /\ Len(positions') = Len(positions)
         /\ DOMAIN positions' = DOMAIN positions
  <1> DEFINE gain == IF status = "closed" THEN realized ELSE 0
             row == [positions[p] EXCEPT !.status = status, !.realized = gain]
  <1>1. positions \in Seq(Position) /\ positions[p] \in Position
    BY DEF DeskTypeOK
  <1>2. row \in Position
    <2>1. gain \in Int
      OBVIOUS
    <2> HIDE DEF gain
    <2> QED
      BY <1>1, <2>1 DEF Position
  <1>3. positions' = [positions EXCEPT ![p] = row]
    BY DEF UpdatePosition
  <1> HIDE DEF row
  <1> QED
    BY <1>1, <1>2, <1>3, RowWritten

-----------------------------------------------------------------------------
(* Types, and where a handler is *)

BeforeOpening == {"size", "draft", "paper", "live"}
DuringOpening == {"fillPosition", "fillRec"}
BeforeClosing == {"closeOrder", "unclose"}
DuringClosing == {"closePosition", "closeRec", "closePnl", "reopen"}

(***************************************************************************)
(* Inside a handler there is a recommendation, it is of the kind that the  *)
(* handler is for, and the position it closes exists.                      *)
(***************************************************************************)
Placed ==
  /\ trader.pc # "idle" => trader.mode # "halt"
  /\ trader.pc \in Handling \cup {"error"} => trader.rec \in DOMAIN recs
  /\ trader.pc \in BeforeOpening \cup DuringOpening => IsOpening(trader.rec)
  /\ trader.pc \in BeforeClosing \cup DuringClosing =>
       ~IsOpening(trader.rec) /\ Closing \in DOMAIN positions

(***************************************************************************)
(* No step takes a row away, and none changes what kind of recommendation  *)
(* a row is.                                                               *)
(***************************************************************************)
TablesGrow ==
  /\ Len(recs') >= Len(recs) /\ DOMAIN recs \subseteq DOMAIN recs'
  /\ \A r \in DOMAIN recs : /\ recs'[r].source = recs[r].source
                             /\ recs'[r].position = recs[r].position
  /\ Len(orders') >= Len(orders)
  /\ Len(positions') >= Len(positions) /\ DOMAIN positions \subseteq DOMAIN positions'

LEMMA Lengths ==
  ASSUME DeskTypeOK
  PROVE  /\ Len(recs) \in Nat /\ DOMAIN recs = 1 .. Len(recs)
         /\ Len(orders) \in Nat /\ DOMAIN orders = 1 .. Len(orders)
         /\ Len(positions) \in Nat /\ DOMAIN positions = 1 .. Len(positions)
  BY DEF DeskTypeOK

LEMMA Unwritten ==
  ASSUME DeskTypeOK, UNCHANGED deskVars
  PROVE  DeskTypeOK' /\ TablesGrow
  BY Lengths DEF DeskTypeOK, deskVars, TablesGrow

(***************************************************************************)
(* A process that does not move stays well placed while the tables grow.   *)
(***************************************************************************)
LEMMA TraderStays ==
  ASSUME TypeOK, Placed, TablesGrow, DeskTypeOK', trader' = trader
  PROVE  TraderTypeOK' /\ Placed'
  <1>1. TraderTypeOK'
    BY Lengths DEF TypeOK, TraderTypeOK, TablesGrow
  <1>2. Placed'
    BY DEF Placed, TablesGrow, IsOpening, Closing, Handling, BeforeOpening,
           DuringOpening, BeforeClosing, DuringClosing
  <1> QED
    BY <1>1, <1>2

LEMMA ManagerStays ==
  ASSUME TypeOK, TablesGrow, DeskTypeOK', manager' = manager
  PROVE  ManagerTypeOK'
  BY Lengths DEF TypeOK, ManagerTypeOK, TablesGrow

LEMMA HumanStays ==
  ASSUME TypeOK, TablesGrow, DeskTypeOK', human' = human
  PROVE  HumanTypeOK'
  BY Lengths DEF TypeOK, HumanTypeOK, TablesGrow

(***************************************************************************)
(* SlotsTaken counts finite sets.                                          *)
(***************************************************************************)
LEMMA SlotsTakenType ==
  ASSUME DeskTypeOK
  PROVE  SlotsTaken \in [Strategies -> Nat]
  <1> SUFFICES ASSUME NEW s \in Strategies
               PROVE  Cardinality(HeldBy(s)) + Cardinality(StagedBy(s)) \in Nat
    BY DEF SlotsTaken
  <1>1. IsFiniteSet(1 .. Len(positions)) /\ IsFiniteSet(1 .. Len(orders))
    BY Lengths, FS_Interval
  <1>2. HeldBy(s) \subseteq 1 .. Len(positions) /\ StagedBy(s) \subseteq 1 .. Len(orders)
    BY Lengths DEF HeldBy, Held, StagedBy
  <1>3. IsFiniteSet(HeldBy(s)) /\ IsFiniteSet(StagedBy(s))
    BY <1>1, <1>2, FS_Subset
  <1> QED
    BY <1>3, FS_CardinalityType

(***************************************************************************)
(* The slots of the trader's locals, whose values are functions, written.  *)
(***************************************************************************)
LEMMA SlotsWritten ==
  ASSUME NEW C, NEW M, NEW T, NEW R, NEW L, NEW P,
         NEW t \in [pc : C, mode : M, todo : T, rec : R, slots : L, price : P],
         NEW c \in C, NEW l \in L
  PROVE  [t EXCEPT !.pc = c, !.slots = l] \in
           [pc : C, mode : M, todo : T, rec : R, slots : L, price : P]
  OBVIOUS

LEMMA RealizedType ==
  ASSUME TypeOK, Closing \in DOMAIN positions
  PROVE  Realized \in Int
  <1>1. positions[Closing].debit \in Int
    <2>1. positions[Closing] \in Position
      BY DEF TypeOK, DeskTypeOK
    <2> QED
      BY <2>1 DEF Position
  <1>2. trader.price \in Int
    BY DEF TypeOK, TraderTypeOK
  <1> QED
    BY <1>1, <1>2 DEF Realized

LEMMA IdleTraderType ==
  ASSUME NEW n \in Nat, NEW D
  PROVE  IdleTrader \in [pc : Places, mode : Modes, todo : SUBSET D,
                         rec : 0 .. n, slots : [Strategies -> Nat], price : Int]
  BY DEF IdleTrader, Places, Modes

LEMMA LocalsOutgrown ==
  ASSUME TypeOK, TablesGrow, DeskTypeOK'
  PROVE  trader \in [pc : Places, mode : Modes, todo : SUBSET DOMAIN recs',
                     rec : 0 .. Len(recs'), slots : [Strategies -> Nat], price : Int]
  BY Lengths DEF TypeOK, TraderTypeOK, TablesGrow

(***************************************************************************)
(* The two ways a handler moves on.                                        *)
(***************************************************************************)
LEMMA GotoPlaced ==
  ASSUME TypeOK, Placed, TablesGrow, DeskTypeOK', NEW pc \in Places, Goto(pc),
         trader.pc \in Handling,
         \/ pc \in {"error", "note", "gone"}
         \/ pc \in BeforeOpening \cup DuringOpening /\ IsOpening(trader.rec)
         \/ /\ pc \in BeforeClosing \cup DuringClosing
            /\ ~IsOpening(trader.rec)
            /\ Closing \in DOMAIN positions
  PROVE  TraderTypeOK' /\ Placed'
  <1>1. trader' = [trader EXCEPT !.pc = pc]
    BY DEF Goto
  <1>2. TraderTypeOK'
    BY <1>1, LocalsOutgrown DEF TraderTypeOK
  <1>3. trader'.pc = pc /\ trader'.rec = trader.rec /\ trader'.mode = trader.mode
    BY <1>1 DEF TypeOK, TraderTypeOK
  <1>4. trader.rec \in DOMAIN recs /\ trader.mode # "halt"
    BY DEF Placed, Handling
  <1>5. IsOpening(trader.rec)' <=> IsOpening(trader.rec)
    BY <1>3, <1>4 DEF IsOpening, TablesGrow
  <1>6. Closing' = Closing
    BY <1>3, <1>4 DEF Closing, TablesGrow
  <1>7. trader'.rec \in DOMAIN recs'
    BY <1>3, <1>4 DEF TablesGrow
  <1> QED
    BY <1>2, <1>3, <1>4, <1>5, <1>6, <1>7 DEF Placed, TablesGrow,
       BeforeOpening, DuringOpening, BeforeClosing, DuringClosing

LEMMA NextRecPlaced ==
  ASSUME TypeOK, Placed, TablesGrow, DeskTypeOK', NextRec, trader.pc # "idle"
  PROVE  TraderTypeOK' /\ Placed'
  <1>1. trader' = [trader EXCEPT !.pc = "next", !.rec = 0, !.price = 0]
    BY DEF NextRec
  <1>2. TraderTypeOK'
    <2>1. Len(recs') \in Nat /\ "next" \in Places
      BY DEF DeskTypeOK, Places
    <2> QED
      <3> DEFINE locals == [pc : Places, mode : Modes, todo : SUBSET DOMAIN recs',
                            rec : 0 .. Len(recs'), slots : [Strategies -> Nat], price : Int]
      <3>1. trader \in locals
        BY LocalsOutgrown
      <3>2. 0 \in 0 .. Len(recs') /\ 0 \in Int
        BY <2>1
      <3>3. trader' \in locals
        BY <1>1, <2>1, <3>1, <3>2
      <3> QED
        BY <3>3 DEF TraderTypeOK
  <1>3. trader'.pc = "next" /\ trader'.mode = trader.mode
    BY <1>1 DEF TypeOK, TraderTypeOK
  <1> QED
    BY <1>2, <1>3 DEF Placed, Handling,
       BeforeOpening, DuringOpening, BeforeClosing, DuringClosing

LEMMA TraderBeginsPlaced ==
  ASSUME TypeOK, Placed, TickStart
  PROVE  DeskTypeOK' /\ TablesGrow /\ TraderTypeOK' /\ Placed'
  <1>1. DeskTypeOK' /\ TablesGrow
    BY Unwritten DEF TypeOK, TickStart
  <1>2. cash.mode \in Modes
    BY DEF TypeOK, DeskTypeOK
  <1>3. TraderTypeOK'
    BY <1>2 DEF TypeOK, TraderTypeOK, Places, TickStart, deskVars
  <1>4. Placed'
    BY DEF TypeOK, TraderTypeOK, Placed, TickStart, Handling,
           BeforeOpening, DuringOpening, BeforeClosing, DuringClosing
  <1> QED
    BY <1>1, <1>3, <1>4

LEMMA TraderWorksPlaced ==
  ASSUME TypeOK, Placed, TraderWorks
  PROVE  DeskTypeOK' /\ TablesGrow /\ TraderTypeOK' /\ Placed'
  <1> DEFINE Goal == DeskTypeOK' /\ TablesGrow /\ TraderTypeOK' /\ Placed'
  <1> USE DEF TypeOK
  <1>a. UNCHANGED deskVars => DeskTypeOK' /\ TablesGrow
    BY Unwritten
  <1>1. CASE CountSlots
    <2>1. SlotsTaken \in [Strategies -> Nat]
      BY SlotsTakenType
    <2>2. TraderTypeOK'
      <3> DEFINE taken == SlotsTaken
      <3>1. taken \in [Strategies -> Nat] /\ recs' = recs
        BY <1>1, <2>1 DEF CountSlots, deskVars
      <3>2. trader' = [trader EXCEPT !.pc = "eval", !.slots = taken]
        BY <1>1 DEF CountSlots
      <3>3. trader \in [pc : Places, mode : Modes, todo : SUBSET DOMAIN recs',
                        rec : 0 .. Len(recs'), slots : [Strategies -> Nat], price : Int]
        BY <3>1 DEF TraderTypeOK
      <3>4. "eval" \in Places
        BY DEF Places
      <3> HIDE DEF taken
      <3>5. trader' \in [pc : Places, mode : Modes, todo : SUBSET DOMAIN recs',
                         rec : 0 .. Len(recs'), slots : [Strategies -> Nat], price : Int]
        BY <3>1, <3>2, <3>3, <3>4, SlotsWritten
      <3> QED
        BY <3>5 DEF TraderTypeOK
    <2>3. Placed'
      BY <1>1 DEF CountSlots, TraderTypeOK, Placed, At, Handling,
         BeforeOpening, DuringOpening, BeforeClosing, DuringClosing
    <2> QED
      BY <1>1, <1>a, <2>2, <2>3 DEF CountSlots
  <1>2. CASE ListPending
    <2>1. TraderTypeOK'
      <3>1. IdleTrader \in [pc : Places, mode : Modes, todo : SUBSET DOMAIN recs',
               rec : 0 .. Len(recs'), slots : [Strategies -> Nat], price : Int]
        BY <1>2, <1>a, Lengths, IdleTraderType DEF ListPending, deskVars
      <3>2. PendingRecs \subseteq DOMAIN recs' /\ trader.mode \in Modes /\ "next" \in Places
        BY <1>2 DEF ListPending, deskVars, PendingRecs, TraderTypeOK, Places
      <3> QED
        BY <1>2, <3>1, <3>2 DEF ListPending, TraderTypeOK
    <2>2. Placed'
      BY <1>2 DEF ListPending, TraderTypeOK, IdleTrader, Placed, Handling,
         BeforeOpening, DuringOpening, BeforeClosing, DuringClosing
    <2> QED
      BY <1>2, <1>a, <2>1, <2>2 DEF ListPending
  <1>3. CASE TakeRec
    <2>1. PICK r \in trader.todo :
            trader' = [trader EXCEPT !.pc = "rec", !.rec = r, !.todo = @ \ {r}]
      BY <1>3 DEF TakeRec
    <2>2. r \in DOMAIN recs /\ r \in 0 .. Len(recs)
      BY Lengths DEF TraderTypeOK
    <2>3. TraderTypeOK'
      BY <1>3, <2>1, <2>2 DEF TakeRec, TraderTypeOK, Places, Handling, deskVars
    <2>4. Placed'
      BY <1>3, <2>1, <2>2 DEF TakeRec, TraderTypeOK, Placed, At, deskVars,
         BeforeOpening, DuringOpening, BeforeClosing, DuringClosing
    <2> QED
      BY <1>3, <1>a, <2>3, <2>4 DEF TakeRec
  <1>4. CASE TickEnd
    <2>1. TraderTypeOK'
      BY <1>4, Lengths, IdleTraderType DEF TickEnd, TraderTypeOK, deskVars
    <2>2. Placed'
      BY <1>4 DEF TickEnd, IdleTrader, Placed, Handling,
         BeforeOpening, DuringOpening, BeforeClosing, DuringClosing
    <2> QED
      BY <1>4, <1>a, <2>1, <2>2 DEF TickEnd
  <1>5. ASSUME NEW s \in Strategies, NEW l \in MaxLosses, Emit(s, l)
        PROVE  Goal
    <2>1. /\ recs' \in Seq(Recommendation)
          /\ Len(recs') = Len(recs) + 1
          /\ DOMAIN recs \subseteq DOMAIN recs'
          /\ \A r \in DOMAIN recs : recs'[r] = recs[r]
      BY <1>5, InsertRecType, DeskAssumption DEF Emit
    <2>2. DeskTypeOK' /\ TablesGrow
      BY <1>5, <2>1, Lengths DEF Emit, DeskTypeOK, TablesGrow
    <2>3. TraderTypeOK'
      <3> DEFINE taken == [trader.slots EXCEPT ![s] = @ + 1]
      <3>1. taken \in [Strategies -> Nat]
        BY DEF TraderTypeOK
      <3>2. trader' = [trader EXCEPT !.pc = trader.pc, !.slots = taken]
        BY <1>5 DEF Emit, TraderTypeOK
      <3>3. trader \in [pc : Places, mode : Modes, todo : SUBSET DOMAIN recs', rec : 0 .. Len(recs'),
                        slots : [Strategies -> Nat], price : Int]
        BY <2>1, Lengths DEF TraderTypeOK
      <3> HIDE DEF taken
      <3> QED
        BY <3>1, <3>2, <3>3, SlotsWritten DEF TraderTypeOK
    <2>4. Placed'
      BY <1>5 DEF Emit, TraderTypeOK, Placed, At, Handling,
         BeforeOpening, DuringOpening, BeforeClosing, DuringClosing
    <2> QED
      BY <2>2, <2>3, <2>4
  <1>6. CASE OpeningStaged \/ CloseUnquoted \/ Note
    <2>1. NextRec /\ UNCHANGED deskVars /\ trader.pc # "idle"
      BY <1>6 DEF OpeningStaged, CloseUnquoted, Note, At
    <2> QED
      BY <1>a, <2>1, NextRecPlaced
  <1>7. CASE OpeningFresh
    <2>1. /\ Goto("size") /\ UNCHANGED deskVars /\ IsOpening(trader.rec)
          /\ trader.pc \in Handling
      BY <1>7 DEF OpeningFresh, At, Handling
    <2>2. "size" \in Places /\ "size" \in BeforeOpening
      BY DEF Places, Handling, BeforeOpening
    <2> QED
      BY <1>a, <2>1, <2>2, GotoPlaced
  <1>8. CASE Refuse \/ RefuseLive \/ FillRec \/ MarkGone \/ HandlerError
    <2>1. /\ \E status \in {"pending", "approved", "rejected", "executed"} :
               UpdateRec(trader.rec, status)
          /\ NextRec
          /\ trader.pc \in Handling \cup {"error"} /\ trader.pc # "idle"
          /\ UNCHANGED <<orders, positions, cash, slipped, crashes, faults>>
      BY <1>8 DEF Refuse, RefuseLive, FillRec, MarkGone, HandlerError, At, Handling
    <2>2. trader.rec \in DOMAIN recs
      BY <2>1 DEF Placed
    <2>3. DeskTypeOK' /\ TablesGrow
      BY <2>1, <2>2, UpdateRecType, Lengths DEF DeskTypeOK, TablesGrow
    <2> QED
      BY <2>1, <2>3, NextRecPlaced
  <1>9. ASSUME NEW x \in Prices, Admit(x)
        PROVE  Goal
    <2>1. /\ trader.pc = "size" /\ UNCHANGED deskVars
          /\ trader' = [trader EXCEPT !.pc = trader.mode, !.price = x]
      BY <1>9 DEF Admit, At
    <2>2. x \in Int /\ trader.mode \in {"paper", "draft", "live"}
      BY <2>1, DeskAssumption DEF Placed, TraderTypeOK, Modes
    <2>3. IsOpening(trader.rec) /\ trader.rec \in DOMAIN recs
      BY <2>1 DEF Placed, Handling, BeforeOpening
    <2>4. TraderTypeOK'
      BY <2>1, <2>2 DEF TraderTypeOK, Places, Handling, deskVars
    <2>5. /\ trader'.pc = trader.mode /\ trader'.mode = trader.mode
          /\ trader'.rec = trader.rec
      BY <2>1 DEF TraderTypeOK
    <2>6. Placed'
      BY <2>1, <2>2, <2>3, <2>5 DEF Placed, IsOpening, deskVars, Handling,
         BeforeOpening, DuringOpening, BeforeClosing, DuringClosing
    <2> QED
      BY <1>a, <2>1, <2>4, <2>6
  <1>10. CASE StageDraft \/ FillOrder
    <2>1. /\ \E status \in {"draft", "filled"} : InsertOrder(trader.rec, trader.price, status)
          /\ \E pc \in {"note", "fillPosition"} : Goto(pc)
          /\ RecordOpening
          /\ trader.pc \in {"draft", "paper"}
          /\ UNCHANGED <<recs, positions, cash, crashes, faults>>
      BY <1>10 DEF StageDraft, FillOrder, At
    <2>2. trader.rec \in Nat /\ trader.price \in Int /\ IsOpening(trader.rec)
      BY <2>1, Lengths DEF TraderTypeOK, Placed, BeforeOpening
    <2>3. orders' \in Seq(Order) /\ Len(orders') = Len(orders) + 1
      BY <2>1, <2>2, InsertOrderType
    <2>4. slipped' \in Nat
      BY <2>1 DEF RecordOpening, DeskTypeOK
    <2>5. DeskTypeOK' /\ TablesGrow
      BY <2>1, <2>3, <2>4, Lengths DEF DeskTypeOK, TablesGrow
    <2>6. {"note", "fillPosition"} \subseteq Places /\ "fillPosition" \in DuringOpening
          /\ trader.pc \in Handling
      BY <2>1 DEF Places, Handling, DuringOpening
    <2> QED
      BY <2>1, <2>2, <2>5, <2>6, GotoPlaced
  <1>11. CASE FillPosition
    <2>1. trader.rec \in DOMAIN recs /\ IsOpening(trader.rec) /\ trader.price \in Int
      BY <1>11 DEF FillPosition, At, Placed, TraderTypeOK, DuringOpening, Handling
    <2>2. recs[trader.rec].source \in Strategies
      <3>1. recs[trader.rec] \in Recommendation
        BY <2>1 DEF DeskTypeOK
      <3> QED
        BY <2>1, <3>1 DEF Recommendation, IsOpening
    <2>3. /\ positions' \in Seq(Position) /\ Len(positions') = Len(positions) + 1
          /\ DOMAIN positions \subseteq DOMAIN positions'
      BY <1>11, <2>1, <2>2, InsertPositionType DEF FillPosition
    <2>4. DeskTypeOK' /\ TablesGrow
      BY <1>11, <2>3, Lengths DEF FillPosition, DeskTypeOK, TablesGrow
    <2> QED
      <3>1. "fillRec" \in Places /\ "fillRec" \in DuringOpening
            /\ trader.pc \in Handling /\ Goto("fillRec")
        BY <1>11 DEF FillPosition, At, Places, Handling, DuringOpening
      <3> QED
        BY <2>1, <2>4, <3>1, GotoPlaced
  <1>12. CASE CloseGone
    <2>1. "gone" \in Places /\ trader.pc \in Handling
      BY <1>12 DEF CloseGone, At, Places, Handling
    <2> QED
      BY <1>12, <1>a, <2>1, GotoPlaced DEF CloseGone
  <1>13. ASSUME NEW x \in Prices, CloseQuoted(x)
         PROVE  Goal
    <2> DEFINE pc == IF trader.mode = "paper" THEN "closeOrder" ELSE "unclose"
    <2>1. /\ trader.pc = "rec" /\ ~IsOpening(trader.rec) /\ Closing \in Held
          /\ trader' = [trader EXCEPT !.pc = pc, !.price = x]
          /\ UNCHANGED deskVars
      BY <1>13 DEF CloseQuoted, At
    <2>2. x \in Int /\ pc \in BeforeClosing /\ pc \in Places
      BY DeskAssumption DEF BeforeClosing, Places, Handling
    <2>3. /\ trader.rec \in DOMAIN recs /\ Closing \in DOMAIN positions
          /\ trader.mode # "halt"
      BY <2>1 DEF Placed, Handling, Held
    <2> HIDE DEF pc
    <2>4. TraderTypeOK'
      BY <2>1, <2>2 DEF TraderTypeOK, deskVars
    <2>5. trader'.pc = pc /\ trader'.mode = trader.mode /\ trader'.rec = trader.rec
      BY <2>1 DEF TraderTypeOK
    <2>6. Placed'
      BY <2>1, <2>2, <2>3, <2>5 DEF Placed, IsOpening, Closing, deskVars,
         BeforeOpening, DuringOpening, BeforeClosing, DuringClosing
    <2> QED
      BY <1>a, <2>1, <2>4, <2>6
  <1>b. trader.pc \in BeforeClosing \cup DuringClosing =>
          /\ trader.rec \in DOMAIN recs /\ trader.rec \in Nat
          /\ Closing \in DOMAIN positions
          /\ ~IsOpening(trader.rec)
          /\ Realized \in Int
          /\ trader.pc \in Handling
    BY RealizedType, Lengths DEF Placed, BeforeClosing, DuringClosing, Handling
  <1>c. {"closePosition", "closeRec", "closePnl", "note", "reopen"} \subseteq Places
    BY DEF Places, Handling
  <1>14. CASE CloseOrder
    <2>1. /\ InsertOrder(trader.rec, trader.price, "filled") /\ Goto("closePosition")
          /\ trader.pc \in BeforeClosing
          /\ UNCHANGED <<recs, positions, cash, slipped, crashes, faults>>
      BY <1>14 DEF CloseOrder, At, BeforeClosing
    <2>2. trader.price \in Int
      BY DEF TraderTypeOK
    <2>3. orders' \in Seq(Order) /\ Len(orders') = Len(orders) + 1
      BY <1>b, <2>1, <2>2, InsertOrderType
    <2>4. DeskTypeOK' /\ TablesGrow
      BY <2>1, <2>3, Lengths DEF DeskTypeOK, TablesGrow
    <2> QED
      BY <1>b, <1>c, <2>1, <2>4, GotoPlaced DEF DuringClosing
  <1>15. CASE ClosePosition \/ Reopen
    <2>1. /\ \/ UpdatePosition(Closing, "closed", Realized) /\ Goto("closeRec")
             \/ UpdatePosition(Closing, "open", 0) /\ NextRec
          /\ trader.pc \in DuringClosing /\ trader.pc # "idle"
          /\ UNCHANGED <<recs, orders, cash, slipped, crashes, faults>>
      BY <1>15 DEF ClosePosition, Reopen, At, DuringClosing
    <2>2. /\ positions' \in Seq(Position) /\ Len(positions') = Len(positions)
          /\ DOMAIN positions' = DOMAIN positions
      <3>1. CASE UpdatePosition(Closing, "closed", Realized)
        BY <1>b, <2>1, <3>1, UpdatePositionType
      <3>2. CASE UpdatePosition(Closing, "open", 0)
        BY <1>b, <2>1, <3>2, UpdatePositionType
      <3> QED
        BY <2>1, <3>1, <3>2
    <2>3. DeskTypeOK' /\ TablesGrow
      BY <2>1, <2>2, Lengths DEF DeskTypeOK, TablesGrow
    <2>4. CASE NextRec
      BY <2>1, <2>3, <2>4, NextRecPlaced
    <2>5. CASE Goto("closeRec")
      BY <1>b, <1>c, <2>1, <2>3, <2>5, GotoPlaced DEF DuringClosing
    <2> QED
      BY <2>1, <2>4, <2>5
  <1>16. CASE CloseRec \/ RefuseClose
    <2>1. /\ \E status \in {"pending", "approved", "rejected", "executed"} :
               UpdateRec(trader.rec, status)
          /\ \E pc \in {"closePnl", "reopen"} : Goto(pc)
          /\ trader.pc \in BeforeClosing \cup DuringClosing
          /\ UNCHANGED <<orders, positions, cash, slipped, crashes, faults>>
      BY <1>16 DEF CloseRec, RefuseClose, At, BeforeClosing, DuringClosing
    <2>2. DeskTypeOK' /\ TablesGrow
      BY <1>b, <2>1, UpdateRecType, Lengths DEF DeskTypeOK, TablesGrow
    <2>3. {"closePnl", "reopen"} \subseteq DuringClosing
      BY DEF DuringClosing
    <2> QED
      BY <1>b, <1>c, <2>1, <2>2, <2>3, GotoPlaced
  <1>17. CASE ClosePnl
    <2>1. /\ UpdateDailyPnl(Realized) /\ Goto("note") /\ trader.pc \in DuringClosing
          /\ UNCHANGED <<recs, orders, positions, slipped, crashes, faults>>
      BY <1>17 DEF ClosePnl, At, DuringClosing
    <2>2. cash' \in [mode : Modes, dailyPnl : Int]
      <3> DEFINE total == cash.dailyPnl + Realized
      <3>1. cash \in [mode : Modes, dailyPnl : Int]
        BY DEF DeskTypeOK
      <3>2. total \in Int
        BY <1>b, <2>1, <3>1
      <3>3. cash' = [cash EXCEPT !.dailyPnl = total]
        BY <2>1 DEF UpdateDailyPnl
      <3> HIDE DEF total
      <3> QED
        BY <3>1, <3>2, <3>3
    <2>3. DeskTypeOK' /\ TablesGrow
      BY <2>1, <2>2, Lengths DEF DeskTypeOK, TablesGrow
    <2> QED
      BY <1>b, <1>c, <2>1, <2>3, GotoPlaced
  <1> QED
    BY <1>1, <1>2, <1>3, <1>4, <1>5, <1>6, <1>7, <1>8, <1>9, <1>10, <1>11, <1>12,
       <1>13, <1>14, <1>15, <1>16, <1>17 DEF TraderWorks

LEMMA TraderRaisesPlaced ==
  ASSUME TypeOK, Placed, TraderRaises
  PROVE  DeskTypeOK' /\ TablesGrow /\ TraderTypeOK' /\ Placed'
  <1>1. /\ faults' \in 0 .. MaxFaults
        /\ UNCHANGED <<recs, orders, positions, cash, slipped, crashes>>
    BY DeskAssumption DEF TypeOK, DeskTypeOK, TraderRaises, HandlerRaises, TickRaises
  <1>2. DeskTypeOK' /\ TablesGrow
    BY <1>1, Lengths DEF TypeOK, DeskTypeOK, TablesGrow
  <1>3. CASE HandlerRaises
    <2>1. trader.pc \in Handling /\ Goto("error") /\ "error" \in Places
      BY <1>3 DEF HandlerRaises, Places
    <2> QED
      BY <1>2, <2>1, GotoPlaced
  <1>4. CASE TickRaises
    <2>1. TraderTypeOK'
      BY <1>4, <1>2, Lengths, IdleTraderType DEF TypeOK, TickRaises, TraderTypeOK
    <2>2. Placed'
      BY <1>4 DEF TickRaises, IdleTrader, Placed, Handling,
         BeforeOpening, DuringOpening, BeforeClosing, DuringClosing
    <2> QED
      BY <1>2, <2>1, <2>2
  <1> QED
    BY <1>3, <1>4 DEF TraderRaises

(***************************************************************************)
(* The manager's locals, in tables that have grown, after it moved on.     *)
(***************************************************************************)
LEMMA ManagerOutgrown ==
  ASSUME TypeOK, TablesGrow, DeskTypeOK'
  PROVE  /\ manager \in [pc : {"idle", "scan", "closing"},
                         todo : SUBSET DOMAIN positions', position : 0 .. Len(positions')]
         /\ IdleManager \in [pc : {"idle", "scan", "closing"},
                             todo : SUBSET DOMAIN positions', position : 0 .. Len(positions')]
         /\ 0 \in 0 .. Len(positions')
  BY Lengths DEF TypeOK, ManagerTypeOK, IdleManager, TablesGrow, DeskTypeOK

LEMMA ManagerMovesTyped ==
  ASSUME TypeOK, ListPositions \/ ManagerWorks \/ ManagerRaises
  PROVE  DeskTypeOK' /\ TablesGrow /\ ManagerTypeOK'
  <1> USE DEF TypeOK
  <1>a. UNCHANGED deskVars => DeskTypeOK' /\ TablesGrow
    BY Unwritten
  <1>1. CASE ListPositions \/ PassedOver \/ ScanEnd
    <2>1. UNCHANGED deskVars
      BY <1>1 DEF ListPositions, PassedOver, ScanEnd
    <2>2. ManagerTypeOK'
      <3>1. DeskTypeOK' /\ TablesGrow /\ positions' = positions
        BY <1>a, <2>1 DEF deskVars
      <3>2. CASE ListPositions
        <4> DEFINE open == {p \in DOMAIN positions : positions[p].status = "open"}
        <4>1. open \subseteq DOMAIN positions' /\ "scan" \in {"idle", "scan", "closing"}
          BY <3>1
        <4>2. manager' = [IdleManager EXCEPT !.pc = "scan", !.todo = open]
          BY <3>2 DEF ListPositions
        <4> HIDE DEF open
        <4> QED
          BY <3>1, <4>1, <4>2, ManagerOutgrown DEF ManagerTypeOK
      <3>3. CASE PassedOver
        <4>1. PICK p \in manager.todo : manager' = [manager EXCEPT !.todo = @ \ {p}]
          BY <3>3 DEF PassedOver
        <4> QED
          BY <3>1, <4>1, ManagerOutgrown DEF ManagerTypeOK
      <3>4. CASE ScanEnd
        BY <3>1, <3>4, ManagerOutgrown DEF ScanEnd, ManagerTypeOK
      <3> QED
        BY <1>1, <3>2, <3>3, <3>4
    <2> QED
      BY <1>a, <2>1, <2>2
  <1>2. CASE EmitClose
    <2>1. PICK p \in manager.todo :
            /\ InsertRec(PositionManager, p, 0)
            /\ manager' = [manager EXCEPT !.pc = "closing", !.todo = @ \ {p},
                                          !.position = p]
      BY <1>2 DEF EmitClose
    <2>2. p \in DOMAIN positions /\ p \in Nat
      BY Lengths DEF ManagerTypeOK
    <2>3. /\ recs' \in Seq(Recommendation) /\ Len(recs') = Len(recs) + 1
          /\ DOMAIN recs \subseteq DOMAIN recs'
          /\ \A r \in DOMAIN recs : recs'[r] = recs[r]
      BY <2>1, <2>2, InsertRecType
    <2>4. DeskTypeOK' /\ TablesGrow
      BY <1>2, <2>3, Lengths DEF EmitClose, DeskTypeOK, TablesGrow
    <2>5. ManagerTypeOK'
      <3> DEFINE rest == manager.todo \ {p}
      <3>1. rest \subseteq DOMAIN positions' /\ p \in 0 .. Len(positions')
        BY <1>2, <2>2, Lengths DEF EmitClose, ManagerTypeOK
      <3>2. manager' = [manager EXCEPT !.pc = "closing", !.todo = rest, !.position = p]
        BY <2>1
      <3> HIDE DEF rest
      <3> QED
        BY <2>4, <3>1, <3>2, ManagerOutgrown DEF ManagerTypeOK
    <2> QED
      BY <2>4, <2>5
  <1>3. CASE SetClosing
    <2>1. CASE manager.position \in DOMAIN positions
      <3>1. /\ positions' \in Seq(Position) /\ Len(positions') = Len(positions)
            /\ DOMAIN positions' = DOMAIN positions
        BY <1>3, <2>1, UpdatePositionType DEF SetClosing
      <3>2. DeskTypeOK' /\ TablesGrow
        BY <1>3, <3>1, Lengths DEF SetClosing, DeskTypeOK, TablesGrow
      <3>3. ManagerTypeOK'
        BY <1>3, <3>2, ManagerOutgrown DEF SetClosing, ManagerTypeOK
      <3> QED
        BY <3>2, <3>3
    <2>2. CASE manager.position \notin DOMAIN positions
      <3>1. positions' = positions
        BY <1>3, <2>2 DEF SetClosing, UpdatePosition, DeskTypeOK
      <3>2. DeskTypeOK' /\ TablesGrow
        BY <1>3, <3>1, Lengths DEF SetClosing, DeskTypeOK, TablesGrow
      <3>3. ManagerTypeOK'
        BY <1>3, <3>2, ManagerOutgrown DEF SetClosing, ManagerTypeOK
      <3> QED
        BY <3>2, <3>3
    <2> QED
      BY <2>1, <2>2
  <1>4. CASE ManagerRaises
    <2>1. faults' \in 0 .. MaxFaults
      BY <1>4, DeskAssumption DEF ManagerRaises, DeskTypeOK
    <2>2. DeskTypeOK' /\ TablesGrow
      BY <1>4, <2>1, Lengths DEF ManagerRaises, DeskTypeOK, TablesGrow
    <2>3. ManagerTypeOK'
      BY <1>4, <2>2, ManagerOutgrown DEF ManagerRaises, ManagerTypeOK
    <2> QED
      BY <2>2, <2>3
  <1> QED
    BY <1>1, <1>2, <1>3, <1>4 DEF ManagerWorks

LEMMA CommandTyped ==
  ASSUME TypeOK, NEW h \in Operators, CommandBegins(h) \/ CommandWorks(h) \/ CommandDies(h)
  PROVE  DeskTypeOK' /\ TablesGrow /\ HumanTypeOK'
  <1> DEFINE Locals == [pc : {"idle", "order", "writeOrder", "writeRec"},
                        act : {"approve", "reject"}, rec : 0 .. Len(recs),
                        order : 0 .. Len(orders)]
  <1> USE DEF TypeOK
  <1>a. UNCHANGED deskVars => DeskTypeOK' /\ TablesGrow
    BY Unwritten
  <1>b. human \in [Operators -> Locals] /\ human[h] \in Locals /\ IdleHuman \in Locals
    BY Lengths DEF HumanTypeOK, IdleHuman
  <1>c. \A local : /\ local \in Locals
                   /\ human' = [human EXCEPT ![h] = local]
                   /\ Len(recs') = Len(recs) /\ Len(orders') = Len(orders)
                   => HumanTypeOK'
    <2> SUFFICES ASSUME NEW local \in Locals, human' = [human EXCEPT ![h] = local],
                        Len(recs') = Len(recs), Len(orders') = Len(orders)
                 PROVE  HumanTypeOK'
      OBVIOUS
    <2>1. human' \in [Operators -> Locals]
      <3> HIDE DEF Locals
      <3> QED
        BY <1>b
    <2> QED
      BY <2>1 DEF HumanTypeOK
  <1>1. ASSUME NEW act \in {"approve", "reject"}, NEW r \in DOMAIN recs, ReadRec(h, act, r)
        PROVE  DeskTypeOK' /\ TablesGrow /\ HumanTypeOK'
    <2> DEFINE local == [IdleHuman EXCEPT !.pc = "order", !.act = act, !.rec = r]
    <2>1. local \in Locals
      <3>1. r \in 0 .. Len(recs)
        BY Lengths
      <3> QED
        BY <1>b, <3>1
    <2>2. human' = [human EXCEPT ![h] = local] /\ UNCHANGED deskVars
      BY <1>1 DEF ReadRec
    <2> HIDE DEF local
    <2> QED
      BY <1>a, <1>c, <2>1, <2>2 DEF deskVars
  <1>2. CASE ReadOrder(h)
    <2>1. PICK o \in DOMAIN orders :
            human' = [human EXCEPT
              ![h].order = o,
              ![h].pc = IF human[h].act = "approve" THEN "writeRec" ELSE "writeOrder"]
      BY <1>2 DEF ReadOrder
    <2> DEFINE pc == IF human[h].act = "approve" THEN "writeRec" ELSE "writeOrder"
               local == [human[h] EXCEPT !.order = o, !.pc = pc]
    <2>2. pc \in {"writeRec", "writeOrder"} /\ o \in 0 .. Len(orders)
      BY Lengths
    <2>3. local \in Locals
      <3> HIDE DEF pc
      <3> QED
        BY <1>b, <2>2
    <2>4. human' = [human EXCEPT ![h] = local] /\ UNCHANGED deskVars
      BY <1>2, <1>b, <2>1 DEF ReadOrder
    <2> HIDE DEF local
    <2> QED
      BY <1>a, <1>c, <2>3, <2>4 DEF deskVars
  <1>3. CASE NoOrder(h)
    <2> DEFINE local == IF human[h].act = "approve" THEN IdleHuman
                        ELSE [human[h] EXCEPT !.pc = "writeRec"]
    <2>1. local \in Locals
      BY <1>b
    <2>2. human' = [human EXCEPT ![h] = local] /\ UNCHANGED deskVars
      BY <1>3 DEF NoOrder
    <2> HIDE DEF local
    <2> QED
      BY <1>a, <1>c, <2>1, <2>2 DEF deskVars
  <1>4. CASE ApproveRec(h) \/ RejectRec(h)
    <2>1. PICK status \in {"approved", "rejected"}, local \in Locals :
            /\ UpdateRec(human[h].rec, status)
            /\ human' = [human EXCEPT ![h] = local]
            /\ UNCHANGED <<orders, positions, cash, slipped, crashes, faults>>
      <3>1. [human[h] EXCEPT !.pc = "writeOrder"] \in Locals
        BY <1>b
      <3> QED
        BY <1>4, <1>b, <3>1 DEF ApproveRec, RejectRec
    <2>2. DeskTypeOK' /\ TablesGrow /\ Len(recs') = Len(recs)
      <3>1. CASE human[h].rec \in DOMAIN recs
        BY <2>1, <3>1, UpdateRecType, Lengths DEF DeskTypeOK, TablesGrow
      <3>2. CASE human[h].rec \notin DOMAIN recs
        <4>1. recs' = recs
          BY <2>1, <3>2 DEF UpdateRec, DeskTypeOK
        <4> QED
          BY <2>1, <4>1, Lengths DEF DeskTypeOK, TablesGrow
      <3> QED
        BY <3>1, <3>2
    <2> QED
      BY <1>c, <2>1, <2>2
  <1>5. CASE ApproveOrder(h) \/ CancelOrder(h)
    <2>1. PICK status \in {"draft", "cancelled"}, local \in Locals :
            /\ UpdateOrder(human[h].order, status)
            /\ human' = [human EXCEPT ![h] = local]
            /\ UNCHANGED <<recs, positions, cash, slipped, crashes, faults>>
      <3>1. [human[h] EXCEPT !.pc = "writeRec"] \in Locals
        BY <1>b
      <3> QED
        BY <1>5, <1>b, <3>1 DEF ApproveOrder, CancelOrder
    <2>2. DeskTypeOK' /\ TablesGrow /\ Len(orders') = Len(orders)
      <3>1. CASE human[h].order \in DOMAIN orders
        BY <2>1, <3>1, UpdateOrderType, Lengths DEF DeskTypeOK, TablesGrow
      <3>2. CASE human[h].order \notin DOMAIN orders
        <4>1. orders' = orders
          BY <2>1, <3>2 DEF UpdateOrder, DeskTypeOK
        <4> QED
          BY <2>1, <4>1, Lengths DEF DeskTypeOK, TablesGrow
      <3> QED
        BY <3>1, <3>2
    <2> QED
      BY <1>c, <2>1, <2>2
  <1>6. CASE CommandDies(h)
    <2>1. crashes' \in 0 .. MaxCrashes
      BY <1>6, DeskAssumption DEF CommandDies, DeskTypeOK
    <2>2. DeskTypeOK' /\ TablesGrow
      BY <1>6, <2>1, Lengths DEF CommandDies, DeskTypeOK, TablesGrow
    <2> QED
      BY <1>6, <1>b, <1>c, <2>2 DEF CommandDies
  <1> QED
    BY <1>1, <1>2, <1>3, <1>4, <1>5, <1>6 DEF CommandBegins, CommandWorks

(***************************************************************************)
(* The induction step of types and places, for one step of any process.    *)
(***************************************************************************)
LEMMA NextPlaced ==
  ASSUME TypeOK, Placed, [Next]_vars
  PROVE  TypeOK' /\ Placed' /\ TablesGrow
  <1>a. \/ DeskTypeOK' /\ TablesGrow /\ TraderTypeOK' /\ Placed' /\ UNCHANGED <<manager, human>>
        \/ DeskTypeOK' /\ TablesGrow /\ ManagerTypeOK' /\ UNCHANGED <<trader, human>>
        \/ DeskTypeOK' /\ TablesGrow /\ HumanTypeOK' /\ UNCHANGED <<trader, manager>>
        => TypeOK' /\ Placed' /\ TablesGrow
    BY TraderStays, ManagerStays, HumanStays DEF TypeOK
  <1>1. CASE TraderBegins
    BY <1>1, <1>a, TraderBeginsPlaced DEF TraderBegins
  <1>2. CASE TraderStep
    BY <1>2, <1>a, TraderWorksPlaced DEF TraderStep
  <1>3. CASE TraderFails
    BY <1>3, <1>a, TraderRaisesPlaced DEF TraderFails
  <1>4. CASE ManagerBegins \/ ManagerStep \/ ManagerFails
    BY <1>4, <1>a, ManagerMovesTyped DEF ManagerBegins, ManagerStep, ManagerFails
  <1>5. CASE ModeCommand
    <2>1. PICK mode \in SettableModes : SetMode(mode)
      BY <1>5 DEF ModeCommand
    <2>2. cash' \in [mode : Modes, dailyPnl : Int]
      <3>1. mode \in Modes /\ cash \in [mode : Modes, dailyPnl : Int]
        BY OperatorAssumption DEF TypeOK, DeskTypeOK
      <3> QED
        BY <2>1, <3>1 DEF SetMode
    <2>3. DeskTypeOK' /\ TablesGrow
      BY <2>1, <2>2, Lengths DEF TypeOK, SetMode, DeskTypeOK, TablesGrow
    <2>4. HumanTypeOK'
      BY <1>5, <2>3, HumanStays DEF ModeCommand
    <2> QED
      BY <1>5, <1>a, <2>3, <2>4 DEF ModeCommand
  <1>6. CASE Command
    BY <1>6, <1>a, CommandTyped DEF Command
  <1>7. CASE Crash
    <2>1. crashes' \in 0 .. MaxCrashes
      BY <1>7, DeskAssumption DEF Crash, TypeOK, DeskTypeOK
    <2>2. DeskTypeOK' /\ TablesGrow
      BY <1>7, <2>1, Lengths DEF Crash, TypeOK, DeskTypeOK, TablesGrow
    <2>3. TraderTypeOK' /\ ManagerTypeOK' /\ HumanTypeOK'
      BY <1>7, <2>2, Lengths, IdleTraderType, ManagerOutgrown, HumanStays
         DEF Crash, TypeOK, TraderTypeOK, ManagerTypeOK
    <2>4. Placed'
      BY <1>7 DEF Crash, IdleTrader, Placed, Handling,
         BeforeOpening, DuringOpening, BeforeClosing, DuringClosing
    <2> QED
      BY <2>2, <2>3, <2>4 DEF TypeOK
  <1>8. CASE UNCHANGED vars
    BY <1>8, <1>a, Unwritten, HumanStays DEF vars, TypeOK
  <1> QED
    BY <1>1, <1>2, <1>3, <1>4, <1>5, <1>6, <1>7, <1>8 DEF Next

LEMMA InitPlaced ==
  ASSUME Init
  PROVE  TypeOK /\ Placed
  <1> USE DEF Init
  <1>1. DeskTypeOK
    BY DeskAssumption DEF DeskInit, DeskTypeOK, Modes
  <1>2. TraderTypeOK /\ Placed
    BY <1>1, Lengths, IdleTraderType DEF TraderInit, TraderTypeOK, IdleTrader, Placed, Handling,
       BeforeOpening, DuringOpening, BeforeClosing, DuringClosing
  <1>3. ManagerTypeOK /\ HumanTypeOK
    BY <1>1, Lengths DEF ManagerInit, IdleManager, ManagerTypeOK,
       HumanInit, IdleHuman, HumanTypeOK
  <1> QED
    BY <1>1, <1>2, <1>3 DEF TypeOK

(***************************************************************************)
(* Every reachable state is well typed, with every handler well placed.    *)
(***************************************************************************)
THEOREM Typed == Spec => [](TypeOK /\ Placed)
  <1>1. Init => TypeOK /\ Placed
    BY InitPlaced
  <1>2. TypeOK /\ Placed /\ [Next]_vars => (TypeOK /\ Placed)'
    BY NextPlaced
  <1> QED
    BY <1>1, <1>2, PTL DEF Spec

-----------------------------------------------------------------------------
(* After a halt *)

(***************************************************************************)
(* While the desk is not halted nothing has slipped through; the one       *)
(* opening that may is recorded by the handler that was admitted before.   *)
(***************************************************************************)
Halted ==
  /\ cash.mode # "halt" => slipped = 0
  /\ slipped <= 1
  /\ slipped = 1 => trader.pc \notin {"draft", "paper"}

(***************************************************************************)
(* What the steps of the trader do to the openings: only the recording of  *)
(* an order touches the history, and only Admit leads to one.              *)
(***************************************************************************)
LEMMA TraderOpenings ==
  ASSUME TypeOK, Placed, TraderWorks \/ TraderRaises \/ TickStart
  PROVE  /\ cash'.mode = cash.mode
         /\ \/ slipped' = slipped
            \/ /\ trader.pc \in {"draft", "paper"} /\ RecordOpening
               /\ trader'.pc \in {"note", "fillPosition"}
         /\ trader'.pc \in {"draft", "paper"} =>
              /\ cash.mode # "halt" /\ cash.dailyPnl > -DailyLossHalt
              /\ cash' = cash /\ slipped' = slipped
  <1> USE DEF TypeOK
  <1> DEFINE Quiet == /\ cash' = cash /\ slipped' = slipped
                      /\ trader'.pc \notin {"draft", "paper"}
  <1>1. ASSUME NEW x \in Prices, Admit(x)
        PROVE  NotHalted /\ LossAllows /\ cash' = cash /\ slipped' = slipped
    BY <1>1 DEF Admit, SizeAllows, deskVars
  <1>2. CASE StageDraft \/ FillOrder
    BY <1>2 DEF StageDraft, FillOrder, Goto, At, TraderTypeOK
  <1>3. CASE ClosePnl
    BY <1>3 DEF ClosePnl, UpdateDailyPnl, Goto, At, TraderTypeOK, DeskTypeOK
  <1>4. CountSlots \/ TickStart \/ TickEnd => Quiet
    <2>1. CountSlots => Quiet
      BY DEF CountSlots, TraderTypeOK, deskVars
    <2>2. TickStart => Quiet
      BY DEF TickStart, TraderTypeOK, deskVars
    <2>3. TickEnd => Quiet
      BY DEF TickEnd, IdleTrader, deskVars
    <2> QED
      BY <2>1, <2>2, <2>3
  <1>5. ListPending => Quiet
    BY DEF ListPending, IdleTrader, deskVars
  <1>6. TakeRec => Quiet
    BY DEF TakeRec, TraderTypeOK, deskVars
  <1>7. ASSUME NEW s \in Strategies, NEW l \in MaxLosses, Emit(s, l)
        PROVE  Quiet
    BY <1>7 DEF Emit, At, TraderTypeOK
  <1>8. OpeningStaged \/ OpeningFresh \/ Refuse \/ RefuseLive \/ FillPosition \/ FillRec => Quiet
    BY DEF OpeningStaged, OpeningFresh, Refuse, RefuseLive, FillPosition, FillRec,
       NextRec, Goto, TraderTypeOK, deskVars
  <1>9. CloseGone \/ MarkGone \/ CloseUnquoted \/ CloseOrder \/ ClosePosition \/ CloseRec => Quiet
    BY DEF CloseGone, MarkGone, CloseUnquoted, CloseOrder, ClosePosition, CloseRec,
       NextRec, Goto, TraderTypeOK, deskVars
  <1>10. ASSUME NEW x \in Prices, CloseQuoted(x)
         PROVE  Quiet
    BY <1>10 DEF CloseQuoted, TraderTypeOK, deskVars
  <1>11. RefuseClose \/ Reopen \/ Note \/ HandlerError => Quiet
    BY DEF RefuseClose, Reopen, Note, HandlerError, NextRec, Goto, TraderTypeOK, deskVars
  <1>12. TraderRaises => Quiet
    BY DEF TraderRaises, HandlerRaises, TickRaises, Goto, IdleTrader, TraderTypeOK
  <1>13. CASE Quiet
    BY <1>13
  <1>14. CASE \E x \in Prices : Admit(x)
    BY <1>1, <1>14 DEF NotHalted, LossAllows
  <1>15. (\E s \in Strategies, l \in MaxLosses : Emit(s, l)) \/ (\E x \in Prices : CloseQuoted(x))
           => Quiet
    BY <1>7, <1>10
  <1> HIDE DEF Quiet
  <1> QED
    BY <1>2, <1>3, <1>4, <1>5, <1>6, <1>8, <1>9, <1>11, <1>12, <1>13, <1>14, <1>15
       DEF TraderWorks

LEMMA NextHalted ==
  ASSUME TypeOK, Placed, Halted, [Next]_vars
  PROVE  Halted'
  <1> USE DEF TypeOK
  <1>1. CASE TraderBegins \/ TraderStep \/ TraderFails
    <2>1. TraderWorks \/ TraderRaises \/ TickStart
      BY <1>1 DEF TraderBegins, TraderStep, TraderFails
    <2> QED
      BY <2>1, TraderOpenings DEF Halted, RecordOpening, DeskTypeOK
  <1>2. CASE ModeCommand
    <2>1. slipped' = 0
      BY <1>2 DEF ModeCommand, SetMode
    <2> QED
      BY <2>1 DEF Halted
  <1>3. CASE Crash
    BY <1>3 DEF Crash, IdleTrader, Halted
  <1>4. CASE ManagerBegins \/ ManagerStep \/ ManagerFails \/ Command \/ UNCHANGED vars
    <2>1. UNCHANGED <<cash, slipped, trader>>
      BY <1>4 DEF ManagerBegins, ManagerStep, ManagerFails, ListPositions, ManagerWorks,
         PassedOver, EmitClose, SetClosing, ScanEnd, ManagerRaises, Command, CommandBegins,
         CommandWorks, ReadRec, ReadOrder, NoOrder, ApproveRec, ApproveOrder, CancelOrder,
         RejectRec, CommandDies, deskVars, vars
    <2> QED
      BY <2>1 DEF Halted
  <1> QED
    BY <1>1, <1>2, <1>3, <1>4 DEF Next

(***************************************************************************)
(* A stale tick records at most one opening after a halt, whatever the     *)
(* number of strategies, recommendations, people, crashes and failures.    *)
(***************************************************************************)
THEOREM HaltStopsOpenings == Spec => []OpeningsAfterHalt
  <1>1. Init => TypeOK /\ Placed /\ Halted
    BY InitPlaced DEF Init, DeskInit, TraderInit, IdleTrader, Halted
  <1>2. TypeOK /\ Placed /\ Halted /\ [Next]_vars => (TypeOK /\ Placed /\ Halted)'
    BY NextPlaced, NextHalted
  <1>3. Halted => OpeningsAfterHalt
    BY DEF Halted, OpeningsAfterHalt
  <1> QED
    BY <1>1, <1>2, <1>3, PTL DEF Spec

-----------------------------------------------------------------------------
(* The daily loss *)

(***************************************************************************)
(* The size check is still true when the order is inserted.                *)
(***************************************************************************)
LossChecked ==
  trader.pc \in {"draft", "paper"} => cash.dailyPnl > -DailyLossHalt

LEMMA NextLossChecked ==
  ASSUME TypeOK, Placed, LossChecked, [Next]_vars
  PROVE  LossChecked'
  <1> USE DEF TypeOK
  <1>1. CASE TraderBegins \/ TraderStep \/ TraderFails
    <2>1. TraderWorks \/ TraderRaises \/ TickStart
      BY <1>1 DEF TraderBegins, TraderStep, TraderFails
    <2> QED
      BY <2>1, TraderOpenings DEF LossChecked
  <1>2. CASE ModeCommand
    <2>1. cash'.dailyPnl = cash.dailyPnl /\ trader' = trader
      BY <1>2 DEF ModeCommand, SetMode, DeskTypeOK
    <2> QED
      BY <2>1 DEF LossChecked
  <1>3. CASE Crash
    BY <1>3 DEF Crash, IdleTrader, LossChecked
  <1>4. CASE ManagerBegins \/ ManagerStep \/ ManagerFails \/ Command \/ UNCHANGED vars
    <2>1. UNCHANGED <<cash, trader>>
      BY <1>4 DEF ManagerBegins, ManagerStep, ManagerFails, ListPositions, ManagerWorks,
         PassedOver, EmitClose, SetClosing, ScanEnd, ManagerRaises, Command, CommandBegins,
         CommandWorks, ReadRec, ReadOrder, NoOrder, ApproveRec, ApproveOrder, CancelOrder,
         RejectRec, CommandDies, deskVars, vars
    <2> QED
      BY <2>1 DEF LossChecked
  <1> QED
    BY <1>1, <1>2, <1>3, <1>4 DEF Next

(***************************************************************************)
(* Only a handler at "draft" or "paper" records an opening: the third that *)
(* inserts an order, at "closeOrder", closes.                              *)
(***************************************************************************)
LEMMA OpeningWhere ==
  ASSUME TypeOK, Placed, [Next]_vars, OpeningRecorded
  PROVE  trader.pc \in {"draft", "paper"}
  <1> USE DEF TypeOK
  <1>a. Len(orders') > Len(orders) /\ Len(orders) \in Nat
    BY Lengths DEF OpeningRecorded
  <1>b. orders' # orders
    BY <1>a
  <1>1. CASE TraderStep
    <2>1. StageDraft \/ FillOrder \/ CloseOrder
      BY <1>1, <1>b DEF TraderStep, TraderWorks, CountSlots, ListPending, TakeRec, TickEnd,
         Emit, OpeningStaged, OpeningFresh, Refuse, RefuseLive, Admit, FillPosition, FillRec,
         CloseGone, MarkGone, CloseUnquoted, CloseQuoted, ClosePosition, CloseRec, ClosePnl,
         RefuseClose, Reopen, Note, HandlerError, deskVars
    <2>2. ~CloseOrder
      <3> SUFFICES ASSUME CloseOrder PROVE FALSE
        OBVIOUS
      <3>1. /\ trader.rec \in Nat /\ trader.price \in Int /\ ~IsOpening(trader.rec)
            /\ InsertOrder(trader.rec, trader.price, "filled")
        BY Lengths DEF CloseOrder, At, Placed, BeforeClosing, TraderTypeOK
      <3>2. /\ orders'[Len(orders) + 1] =
                 [rec |-> trader.rec, price |-> trader.price, status |-> "filled"]
            /\ Len(orders') = Len(orders) + 1
        BY <3>1, InsertOrderType
      <3> QED
        BY <3>1, <3>2 DEF OpeningRecorded
    <2> QED
      BY <2>1, <2>2 DEF StageDraft, FillOrder, At
  <1>2. ASSUME NEW h \in Operators, CommandBegins(h) \/ CommandWorks(h) \/ CommandDies(h)
        PROVE  Len(orders') = Len(orders)
    <2>1. CASE ApproveOrder(h) \/ CancelOrder(h)
      <3>1. PICK status \in {"draft", "cancelled"} : UpdateOrder(human[h].order, status)
        BY <2>1 DEF ApproveOrder, CancelOrder
      <3> QED
        BY <3>1, Lengths DEF UpdateOrder, DeskTypeOK
    <2>2. CASE orders' = orders
      BY <2>2
    <2> QED
      BY <1>2, <2>1, <2>2 DEF CommandBegins, CommandWorks, ReadRec, ReadOrder, NoOrder,
         ApproveRec, RejectRec, CommandDies, deskVars
  <1>3. CASE Command
    BY <1>2, <1>3, <1>a DEF Command
  <1>4. ~(TraderBegins \/ TraderFails \/ ManagerBegins \/ ManagerStep \/ ManagerFails
            \/ ModeCommand \/ Crash \/ UNCHANGED vars)
    BY <1>b DEF TraderBegins, TickStart, TraderFails, TraderRaises, HandlerRaises, TickRaises,
       ManagerBegins, ManagerStep, ManagerFails, ListPositions, ManagerWorks, PassedOver,
       EmitClose, SetClosing, ScanEnd, ManagerRaises, ModeCommand, SetMode, Crash, deskVars, vars
  <1> QED
    BY <1>1, <1>3, <1>4 DEF Next

(***************************************************************************)
(* No opening is recorded at or below the daily loss halt, although the    *)
(* check and the insert are two transactions.                              *)
(***************************************************************************)
THEOREM LossHaltHolds == Spec => LossHaltRespected
  <1>1. Init => TypeOK /\ Placed /\ LossChecked
    BY InitPlaced DEF Init, DeskInit, TraderInit, IdleTrader, LossChecked
  <1>2. TypeOK /\ Placed /\ LossChecked /\ [Next]_vars => (TypeOK /\ Placed /\ LossChecked)'
    BY NextPlaced, NextLossChecked
  <1>3. TypeOK /\ Placed /\ LossChecked /\ [Next]_vars =>
          [OpeningRecorded => cash.dailyPnl > -DailyLossHalt]_vars
    BY OpeningWhere DEF LossChecked
  <1> QED
    BY <1>1, <1>2, <1>3, PTL DEF Spec, LossHaltRespected

-----------------------------------------------------------------------------
(* One fill per recommendation *)

(***************************************************************************)
(* The foreign key of orders.                                              *)
(***************************************************************************)
Referred == \A o \in DOMAIN orders : orders[o].rec \in DOMAIN recs

Filled(r) == FilledOrders(r) # {}

Unfilled == {"rec", "size", "draft", "paper", "live", "gone", "closeOrder", "unclose"}

MidFill == {"fillPosition", "fillRec", "closePosition", "closeRec", "error"}

(***************************************************************************)
(* A filled recommendation is never taken up again: it is not on the list  *)
(* of the tick, and only while its own handler is between the fill and the *)
(* status is it still pending.  One failing write is survived because the  *)
(* except branch writes the status too.                                    *)
(***************************************************************************)
FillsDone ==
  /\ trader.pc = "error" => faults = 1
  /\ trader.pc \in Unfilled => trader.rec \notin trader.todo /\ ~Filled(trader.rec)
  /\ \A r \in DOMAIN recs : Filled(r) =>
       /\ r \notin trader.todo
       /\ recs[r].status = "pending" => trader.rec = r /\ trader.pc \in MidFill
  /\ \A r \in DOMAIN recs : \A o, n \in FilledOrders(r) : o = n

FilledOnce == crashes = 0 /\ faults <= 1 => FillsDone

(***************************************************************************)
(* Steps that fill nothing: no order becomes filled, no recommendation     *)
(* becomes pending again, nothing filled is listed, and the handler of a   *)
(* filled recommendation still pending goes on with it.                    *)
(***************************************************************************)
LEMMA FillsNothing ==
  ASSUME TypeOK, TypeOK', TablesGrow, Referred, FillsDone,
         \A r \in Nat : FilledOrders(r)' \subseteq FilledOrders(r),
         \A r \in DOMAIN recs : recs'[r].status = "pending" => recs[r].status = "pending",
         trader'.pc = "error" => faults' = 1,
         trader'.pc \in Unfilled => trader'.rec \notin trader'.todo /\ ~Filled(trader'.rec),
         \A r \in trader'.todo : r \in trader.todo \/ ~Filled(r),
         trader.pc \in MidFill /\ recs'[trader.rec].status = "pending" =>
           trader'.rec = trader.rec /\ trader'.pc \in MidFill
  PROVE  FillsDone'
  <1>1. ASSUME NEW r \in DOMAIN recs'
        PROVE  r \in Nat /\ (Filled(r)' => r \in DOMAIN recs /\ Filled(r))
    <2>1. r \in Nat
      BY DEF TypeOK, DeskTypeOK
    <2>2. ASSUME Filled(r)' PROVE Filled(r)
      BY <2>1, <2>2 DEF Filled
    <2>3. ASSUME Filled(r) PROVE r \in DOMAIN recs
      BY <2>3 DEF Filled, FilledOrders, Referred
    <2> QED
      BY <2>1, <2>2, <2>3
  <1>2. ASSUME NEW r \in DOMAIN recs', Filled(r)'
        PROVE  /\ r \notin trader'.todo
               /\ recs'[r].status = "pending" => trader'.rec = r /\ trader'.pc \in MidFill
    BY <1>1, <1>2 DEF FillsDone
  <1>3. ASSUME NEW r \in DOMAIN recs', NEW o \in FilledOrders(r)', NEW n \in FilledOrders(r)'
        PROVE  o = n
    <2>1. r \in DOMAIN recs /\ o \in FilledOrders(r) /\ n \in FilledOrders(r)
      BY <1>1, <1>3 DEF Filled
    <2> QED
      BY <2>1 DEF FillsDone
  <1>4. trader'.pc \in Unfilled => trader'.rec \notin trader'.todo /\ ~Filled(trader.rec)'
    <2>1. trader'.rec \in Nat
      BY DEF TypeOK, TraderTypeOK, DeskTypeOK
    <2> QED
      BY <2>1 DEF Filled
  <1> QED
    BY <1>2, <1>3, <1>4 DEF FillsDone

(***************************************************************************)
(* The three things that a step does to the orders: nothing, an insert for *)
(* the recommendation at hand, or a person's write, which fills nothing.   *)
(***************************************************************************)
LEMMA OrderSteps ==
  ASSUME TypeOK, [Next]_vars
  PROVE  \/ orders' = orders
         \/ \E status \in {"draft", "filled"} :
              /\ InsertOrder(trader.rec, trader.price, status)
              /\ status = "draft" => StageDraft
              /\ status = "filled" => FillOrder \/ CloseOrder
         \/ /\ recs' = recs
            /\ \E o \in DOMAIN orders, status \in {"draft", "cancelled"} : UpdateOrder(o, status)
  <1> USE DEF TypeOK
  <1>1. CASE TraderStep
    BY <1>1 DEF TraderStep, TraderWorks, CountSlots, ListPending, TakeRec, TickEnd,
       Emit, OpeningStaged, OpeningFresh, Refuse, RefuseLive, Admit, StageDraft, FillOrder,
       FillPosition, FillRec, CloseGone, MarkGone, CloseUnquoted, CloseQuoted, CloseOrder,
       ClosePosition, CloseRec, ClosePnl, RefuseClose, Reopen, Note, HandlerError, deskVars
  <1>2. CASE Command
    <2>1. PICK h \in Operators : CommandBegins(h) \/ CommandWorks(h) \/ CommandDies(h)
      BY <1>2 DEF Command
    <2>2. CASE ApproveOrder(h) \/ CancelOrder(h)
      <3>1. recs' = recs
            /\ \E status \in {"draft", "cancelled"} : UpdateOrder(human[h].order, status)
        BY <2>2 DEF ApproveOrder, CancelOrder
      <3>2. CASE human[h].order \in DOMAIN orders
        BY <3>1, <3>2
      <3>3. CASE human[h].order \notin DOMAIN orders
        BY <3>1, <3>3 DEF UpdateOrder, DeskTypeOK
      <3> QED
        BY <3>2, <3>3
    <2> QED
      BY <2>1, <2>2 DEF CommandBegins, CommandWorks, ReadRec, ReadOrder, NoOrder,
         ApproveRec, RejectRec, CommandDies, deskVars
  <1>3. CASE TraderBegins \/ TraderFails \/ ManagerBegins \/ ManagerStep \/ ManagerFails
               \/ ModeCommand \/ Crash \/ UNCHANGED vars
    BY <1>3 DEF TraderBegins, TickStart, TraderFails, TraderRaises, HandlerRaises, TickRaises,
       ManagerBegins, ManagerStep, ManagerFails, ListPositions, ManagerWorks, PassedOver,
       EmitClose, SetClosing, ScanEnd, ManagerRaises, ModeCommand, SetMode, Crash, deskVars, vars
  <1> QED
    BY <1>1, <1>2, <1>3 DEF Next

LEMMA NextReferred ==
  ASSUME TypeOK, Placed, Referred, TablesGrow, [Next]_vars
  PROVE  Referred'
  <1>1. CASE orders' = orders
    BY <1>1 DEF Referred, TablesGrow
  <1>2. ASSUME NEW status \in {"draft", "filled"},
               InsertOrder(trader.rec, trader.price, status),
               StageDraft \/ FillOrder \/ CloseOrder
        PROVE  Referred'
    <2>1. trader.rec \in DOMAIN recs /\ trader.rec \in Nat /\ trader.price \in Int
      BY <1>2, Lengths DEF StageDraft, FillOrder, CloseOrder, At, Placed, Handling,
         TypeOK, TraderTypeOK
    <2>2. /\ \A o \in DOMAIN orders : orders'[o] = orders[o]
          /\ orders'[Len(orders) + 1] =
               [rec |-> trader.rec, price |-> trader.price, status |-> status]
          /\ DOMAIN orders' = DOMAIN orders \cup {Len(orders) + 1}
      BY <1>2, <2>1, InsertOrderType DEF TypeOK
    <2>3. orders'[Len(orders) + 1].rec = trader.rec
      BY <2>2
    <2> QED
      BY <2>1, <2>2, <2>3 DEF Referred, TablesGrow
  <1>3. ASSUME NEW o \in DOMAIN orders, NEW status \in {"draft", "cancelled"},
               UpdateOrder(o, status)
        PROVE  Referred'
    <2>1. DOMAIN orders' = DOMAIN orders
          /\ \A n \in DOMAIN orders : orders'[n].rec = orders[n].rec
      BY <1>3, UpdateOrderType DEF TypeOK
    <2> QED
      BY <2>1 DEF Referred, TablesGrow
  <1> QED
    BY <1>1, <1>2, <1>3, OrderSteps

(***************************************************************************)
(* Unless an order is filled, the set of filled orders can only shrink.    *)
(***************************************************************************)
LEMMA FilledKept ==
  ASSUME TypeOK, Placed, [Next]_vars, ~FillOrder, ~CloseOrder, NEW r \in Nat
  PROVE  FilledOrders(r)' \subseteq FilledOrders(r)
  <1>1. CASE orders' = orders
    BY <1>1 DEF FilledOrders
  <1>2. ASSUME InsertOrder(trader.rec, trader.price, "draft"), StageDraft
        PROVE  FilledOrders(r)' \subseteq FilledOrders(r)
    <2>1. trader.rec \in Nat /\ trader.price \in Int
      BY Lengths DEF TypeOK, TraderTypeOK
    <2>2. /\ \A o \in DOMAIN orders : orders'[o] = orders[o]
          /\ orders'[Len(orders) + 1] =
               [rec |-> trader.rec, price |-> trader.price, status |-> "draft"]
          /\ DOMAIN orders' = DOMAIN orders \cup {Len(orders) + 1}
      BY <1>2, <2>1, InsertOrderType DEF TypeOK
    <2>3. orders'[Len(orders) + 1].status # "filled"
      BY <2>2
    <2> QED
      BY <2>2, <2>3 DEF FilledOrders
  <1>3. ASSUME NEW o \in DOMAIN orders, NEW status \in {"draft", "cancelled"},
               UpdateOrder(o, status)
        PROVE  FilledOrders(r)' \subseteq FilledOrders(r)
    <2>1. /\ DOMAIN orders' = DOMAIN orders
          /\ orders'[o].status = status
          /\ \A n \in DOMAIN orders : n # o => orders'[n] = orders[n]
      BY <1>3, UpdateOrderType DEF TypeOK
    <2> QED
      BY <2>1 DEF FilledOrders
  <1> QED
    BY <1>1, <1>2, <1>3, OrderSteps

(***************************************************************************)
(* No recommendation ever becomes pending again.                           *)
(***************************************************************************)
LEMMA NeverPendingAgain ==
  ASSUME TypeOK, Placed, [Next]_vars, NEW q \in DOMAIN recs, recs'[q].status = "pending"
  PROVE  recs[q].status = "pending"
  <1> USE DEF TypeOK
  <1>1. CASE recs' = recs
    BY <1>1
  <1>2. ASSUME NEW source \in Strategies \cup {PositionManager}, NEW position \in Nat,
               NEW maxLoss \in Nat, InsertRec(source, position, maxLoss)
        PROVE  recs'[q] = recs[q]
    BY <1>2, InsertRecType
  <1>3. ASSUME NEW r, NEW status \in {"approved", "rejected", "executed"}, UpdateRec(r, status)
        PROVE  recs[q].status = "pending"
    <2>1. CASE r \in DOMAIN recs
      BY <1>3, <2>1, UpdateRecType
    <2>2. CASE r \notin DOMAIN recs
      BY <1>3, <2>2 DEF UpdateRec, DeskTypeOK
    <2> QED
      BY <2>1, <2>2
  <1>4. CASE TraderStep
    <2>1. ASSUME NEW s \in Strategies, NEW l \in MaxLosses, Emit(s, l)
          PROVE  InsertRec(s, 0, l) /\ l \in Nat
      BY <2>1, DeskAssumption DEF Emit
    <2>2. CASE \E s \in Strategies, l \in MaxLosses : Emit(s, l)
      BY <1>2, <2>1, <2>2
    <2>3. CASE \E status \in {"approved", "rejected", "executed"} : UpdateRec(trader.rec, status)
      BY <1>3, <2>3
    <2> QED
      BY <1>1, <1>4, <2>2, <2>3 DEF TraderStep, TraderWorks, CountSlots, ListPending, TakeRec,
         TickEnd, OpeningStaged, OpeningFresh, Refuse, RefuseLive, Admit, StageDraft, FillOrder,
         FillPosition, FillRec, CloseGone, MarkGone, CloseUnquoted, CloseQuoted, CloseOrder,
         ClosePosition, CloseRec, ClosePnl, RefuseClose, Reopen, Note, HandlerError, deskVars
  <1>5. CASE ManagerStep
    <2>1. CASE EmitClose
      <3>1. PICK p \in manager.todo : InsertRec(PositionManager, p, 0)
        BY <2>1 DEF EmitClose
      <3>2. p \in Nat
        BY Lengths DEF ManagerTypeOK
      <3> QED
        BY <1>2, <3>1, <3>2
    <2> QED
      BY <1>1, <1>5, <2>1 DEF ManagerStep, ManagerWorks, PassedOver, SetClosing, ScanEnd, deskVars
  <1>6. CASE Command
    <2>1. PICK h \in Operators : CommandBegins(h) \/ CommandWorks(h) \/ CommandDies(h)
      BY <1>6 DEF Command
    <2>2. CASE ApproveRec(h) \/ RejectRec(h)
      <3>1. \E status \in {"approved", "rejected"} : UpdateRec(human[h].rec, status)
        BY <2>2 DEF ApproveRec, RejectRec
      <3> QED
        BY <1>3, <3>1
    <2> QED
      BY <1>1, <2>1, <2>2 DEF CommandBegins, CommandWorks, ReadRec, ReadOrder, NoOrder,
         ApproveOrder, CancelOrder, CommandDies, deskVars
  <1>7. CASE TraderBegins \/ TraderFails \/ ManagerBegins \/ ManagerFails
               \/ ModeCommand \/ Crash \/ UNCHANGED vars
    BY <1>1, <1>7 DEF TraderBegins, TickStart, TraderFails, TraderRaises, HandlerRaises,
       TickRaises, ManagerBegins, ManagerFails, ListPositions, ManagerRaises, ModeCommand,
       SetMode, Crash, deskVars, vars
  <1> QED
    BY <1>4, <1>5, <1>6, <1>7 DEF Next

(***************************************************************************)
(* Where the trader can go in a step that fills nothing.  Crashed and      *)
(* twice failed behaviours are not looked at.                              *)
(***************************************************************************)
LEMMA TraderGoes ==
  ASSUME TypeOK, Placed, FillsDone, TraderWorks \/ TraderRaises \/ TickStart,
         ~FillOrder, ~CloseOrder, faults' <= 1
  PROVE  /\ trader'.pc = "error" => faults' = 1
         /\ trader'.pc \in Unfilled => trader'.rec \notin trader'.todo /\ ~Filled(trader'.rec)
         /\ \A r \in trader'.todo : r \in trader.todo \/ ~Filled(r)
         /\ trader.pc \in MidFill /\ recs'[trader.rec].status = "pending" =>
              trader'.rec = trader.rec /\ trader'.pc \in MidFill
  <1> USE DEF TypeOK
  <1> DEFINE Resting == trader'.pc \in {"idle", "tick", "eval", "next", "note", "closePnl", "reopen"}
             Goal == /\ trader'.pc = "error" => faults' = 1
                     /\ trader'.pc \in Unfilled =>
                          trader'.rec \notin trader'.todo /\ ~Filled(trader'.rec)
                     /\ \A r \in trader'.todo : r \in trader.todo \/ ~Filled(r)
                     /\ trader.pc \in MidFill /\ recs'[trader.rec].status = "pending" =>
                          trader'.rec = trader.rec /\ trader'.pc \in MidFill
  <1> SUFFICES Goal
    OBVIOUS
  <1>1. ASSUME Resting, trader'.todo \subseteq trader.todo,
               trader.pc \notin MidFill \/ recs'[trader.rec].status # "pending"
        PROVE  Goal
    BY <1>1 DEF Unfilled
  <1>2. ASSUME trader.pc \in Unfilled, trader'.pc \in Unfilled,
               trader'.rec = trader.rec, trader'.todo = trader.todo
        PROVE  Goal
    BY <1>2 DEF Unfilled, MidFill, FillsDone
  <1>3. ASSUME trader'.pc \in MidFill \ {"error"}, trader'.rec = trader.rec,
               trader'.todo = trader.todo
        PROVE  Goal
    BY <1>3 DEF Unfilled, MidFill
  <1>4. ASSUME NEW r, NEW status \in {"rejected", "executed"}, UpdateRec(r, status),
               r \in DOMAIN recs
        PROVE  recs'[r].status # "pending"
    <2>1. recs'[r].status = status
      BY <1>4, UpdateRecType
    <2> QED
      BY <2>1
  <1>5. CASE CountSlots \/ TickStart
    <2>1. Resting /\ trader'.todo = trader.todo /\ trader.pc \notin MidFill
      <3>1. CountSlots => Resting /\ trader'.todo = trader.todo /\ trader.pc \notin MidFill
        BY DEF CountSlots, At, MidFill, TraderTypeOK
      <3>2. TickStart => Resting /\ trader'.todo = trader.todo /\ trader.pc \notin MidFill
        BY DEF TickStart, At, MidFill, TraderTypeOK
      <3> QED
        BY <1>5, <3>1, <3>2
    <2> QED
      BY <1>1, <2>1
  <1>6. ASSUME NEW s \in Strategies, NEW l \in MaxLosses, Emit(s, l)
        PROVE  Goal
    <2>1. Resting /\ trader'.todo = trader.todo /\ trader.pc \notin MidFill
      BY <1>6 DEF Emit, At, MidFill, TraderTypeOK
    <2> QED
      BY <1>1, <2>1
  <1>7. CASE ListPending
    <2>1. trader'.pc = "next" /\ trader'.todo = PendingRecs /\ trader.pc \notin MidFill
      BY <1>7 DEF ListPending, IdleTrader, MidFill
    <2>2. \A r \in PendingRecs : ~Filled(r)
      BY <2>1 DEF PendingRecs, FillsDone
    <2> QED
      BY <2>1, <2>2 DEF Unfilled
  <1>8. CASE TakeRec
    <2>1. PICK r \in trader.todo :
            trader' = [trader EXCEPT !.pc = "rec", !.rec = r, !.todo = @ \ {r}]
      BY <1>8 DEF TakeRec
    <2>2. trader'.pc = "rec" /\ trader'.rec = r /\ trader'.todo = trader.todo \ {r}
      BY <2>1 DEF TraderTypeOK
    <2>3. ~Filled(r)
      BY DEF TraderTypeOK, FillsDone
    <2>4. trader.pc \notin MidFill
      BY <1>8 DEF TakeRec, At, MidFill
    <2> QED
      BY <2>2, <2>3, <2>4
  <1>9. CASE TickEnd
    <2>1. Resting /\ trader'.todo = {} /\ trader.pc \notin MidFill
      BY <1>9 DEF TickEnd, At, IdleTrader, MidFill
    <2> QED
      BY <1>1, <2>1
  <1>10. CASE OpeningStaged \/ Refuse \/ RefuseLive \/ MarkGone \/ CloseUnquoted \/ Reopen \/ Note
    <2>1. NextRec /\ trader.pc \notin MidFill
      BY <1>10 DEF OpeningStaged, Refuse, RefuseLive, MarkGone, CloseUnquoted, Reopen, Note,
         At, MidFill
    <2>2. trader'.pc = "next" /\ trader'.todo = trader.todo
      BY <2>1 DEF NextRec, TraderTypeOK
    <2> QED
      BY <1>1, <2>1, <2>2
  <1>11. CASE FillRec \/ HandlerError
    <2>1. NextRec /\ trader.rec \in DOMAIN recs
          /\ \E status \in {"rejected", "executed"} : UpdateRec(trader.rec, status)
      BY <1>11 DEF FillRec, HandlerError, At, Placed, Handling
    <2>2. trader'.pc = "next" /\ trader'.todo = trader.todo
      BY <2>1 DEF NextRec, TraderTypeOK
    <2>3. recs'[trader.rec].status # "pending"
      BY <1>4, <2>1
    <2> QED
      BY <1>1, <2>2, <2>3
  <1>12. CASE CloseRec
    <2>1. Goto("closePnl") /\ trader.rec \in DOMAIN recs /\ UpdateRec(trader.rec, "executed")
      BY <1>12 DEF CloseRec, At, Placed, Handling
    <2>2. trader'.pc = "closePnl" /\ trader'.todo = trader.todo
      BY <2>1 DEF Goto, TraderTypeOK
    <2>3. recs'[trader.rec].status # "pending"
      BY <1>4, <2>1
    <2> QED
      BY <1>1, <2>2, <2>3
  <1>13. CASE StageDraft \/ ClosePnl \/ RefuseClose
    <2>1. \E pc \in {"note", "reopen"} : Goto(pc)
          /\ trader.pc \notin MidFill
      BY <1>13 DEF StageDraft, ClosePnl, RefuseClose, At, MidFill
    <2>2. Resting /\ trader'.todo = trader.todo /\ trader.pc \notin MidFill
      BY <2>1 DEF Goto, TraderTypeOK
    <2> QED
      BY <1>1, <2>2
  <1>14. CASE OpeningFresh \/ CloseGone
    <2>1. (\E pc \in {"size", "gone"} : Goto(pc)) /\ trader.pc = "rec"
      BY <1>14 DEF OpeningFresh, CloseGone, At
    <2>2. trader'.pc \in Unfilled /\ trader'.rec = trader.rec /\ trader'.todo = trader.todo
      BY <2>1 DEF Goto, TraderTypeOK, Unfilled
    <2> QED
      BY <1>2, <2>1, <2>2 DEF Unfilled
  <1>15. ASSUME NEW x \in Prices, Admit(x) \/ CloseQuoted(x)
         PROVE  Goal
    <2>1. /\ trader.pc \in {"size", "rec"}
          /\ trader'.pc \in {"paper", "draft", "live", "closeOrder", "unclose"}
          /\ trader'.rec = trader.rec /\ trader'.todo = trader.todo
      <3>1. trader.pc # "idle" => trader.mode \in {"paper", "draft", "live"}
        BY DEF Placed, TraderTypeOK, Modes
      <3>2. CASE Admit(x)
        BY <3>1, <3>2 DEF Admit, At, TraderTypeOK
      <3>3. CASE CloseQuoted(x)
        BY <3>3 DEF CloseQuoted, At, TraderTypeOK
      <3> QED
        BY <1>15, <3>2, <3>3
    <2> QED
      BY <1>2, <2>1 DEF Unfilled
  <1>16. CASE FillPosition \/ ClosePosition
    <2>1. \E pc \in {"fillRec", "closeRec"} : Goto(pc)
      BY <1>16 DEF FillPosition, ClosePosition
    <2>2. /\ trader'.pc \in MidFill \ {"error"} /\ trader'.rec = trader.rec
          /\ trader'.todo = trader.todo
      BY <2>1 DEF Goto, TraderTypeOK, MidFill
    <2> QED
      BY <1>3, <2>2
  <1>17. CASE HandlerRaises
    <2>1. Goto("error") /\ faults' = faults + 1 /\ faults \in Nat
      BY <1>17 DEF HandlerRaises, DeskTypeOK
    <2>2. trader'.pc = "error" /\ trader'.rec = trader.rec /\ trader'.todo = trader.todo
      BY <2>1 DEF Goto, TraderTypeOK
    <2> QED
      BY <2>1, <2>2 DEF Unfilled, MidFill
  <1>18. CASE TickRaises
    <2>1. faults' = faults + 1 /\ faults \in Nat
      BY <1>18 DEF TickRaises, DeskTypeOK
    <2>2. trader.pc \in {"tick", "eval"}
      BY <1>18, <2>1 DEF TickRaises, FillsDone
    <2>3. trader'.pc = "idle" /\ trader'.todo = {}
      BY <1>18 DEF TickRaises, IdleTrader
    <2> QED
      BY <1>1, <2>2, <2>3 DEF MidFill
  <1> HIDE DEF Goal
  <1>19. \/ \E s \in Strategies, l \in MaxLosses : Emit(s, l)
         \/ \E x \in Prices : Admit(x)
         \/ \E x \in Prices : CloseQuoted(x)
         => Goal
    BY <1>6, <1>15
  <1> QED
    BY <1>5, <1>7, <1>8, <1>9, <1>10, <1>11, <1>12, <1>13, <1>14, <1>16, <1>17, <1>18, <1>19
       DEF TraderWorks, TraderRaises

(***************************************************************************)
(* The step that does fill: one more filled order, of a recommendation     *)
(* that had none.                                                          *)
(***************************************************************************)
LEMMA FillsOne ==
  ASSUME TypeOK, Placed, Referred, FillsDone, FillOrder \/ CloseOrder
  PROVE  FillsDone'
  <1> USE DEF TypeOK
  <1>1. /\ InsertOrder(trader.rec, trader.price, "filled")
        /\ trader.pc \in Unfilled
        /\ \E pc \in {"fillPosition", "closePosition"} : Goto(pc)
        /\ recs' = recs
    BY DEF FillOrder, CloseOrder, At, Unfilled
  <1>2. /\ trader'.pc \in MidFill \ {"error"} /\ trader'.pc \notin Unfilled
        /\ trader'.rec = trader.rec /\ trader'.todo = trader.todo
    BY <1>1 DEF Goto, TraderTypeOK, MidFill, Unfilled
  <1>3. trader.rec \notin trader.todo /\ FilledOrders(trader.rec) = {}
    BY <1>1 DEF FillsDone, Filled
  <1>4. /\ \A o \in DOMAIN orders : orders'[o] = orders[o]
        /\ orders'[Len(orders) + 1] =
             [rec |-> trader.rec, price |-> trader.price, status |-> "filled"]
        /\ DOMAIN orders' = DOMAIN orders \cup {Len(orders) + 1}
    <2>1. trader.rec \in Nat /\ trader.price \in Int
      BY Lengths DEF TraderTypeOK
    <2> QED
      BY <1>1, <2>1, InsertOrderType
  <1>5. orders'[Len(orders) + 1].rec = trader.rec
    BY <1>4
  <1>6. ASSUME NEW r \in DOMAIN recs
        PROVE  IF r = trader.rec THEN FilledOrders(r)' \subseteq {Len(orders) + 1}
                                 ELSE FilledOrders(r)' \subseteq FilledOrders(r)
    BY <1>3, <1>4, <1>5 DEF FilledOrders
  <1>7. ASSUME NEW r \in DOMAIN recs'
        PROVE  /\ Filled(r)' =>
                    /\ r \notin trader'.todo
                    /\ recs'[r].status = "pending" => trader'.rec = r /\ trader'.pc \in MidFill
               /\ \A o, n \in FilledOrders(r)' : o = n
    <2>1. CASE r = trader.rec
      BY <1>1, <1>2, <1>3, <1>6, <2>1
    <2>2. CASE r # trader.rec
      <3>1. FilledOrders(r)' \subseteq FilledOrders(r) /\ r \in DOMAIN recs
        BY <1>1, <1>6, <2>2
      <3>2. Filled(r)' => Filled(r)
        BY <3>1 DEF Filled
      <3>3. Filled(r) => r \notin trader.todo /\ recs[r].status # "pending"
        BY <1>1, <2>2, <3>1 DEF FillsDone, MidFill, Unfilled
      <3>4. \A o, n \in FilledOrders(r) : o = n
        BY <3>1 DEF FillsDone
      <3> QED
        BY <1>1, <1>2, <3>1, <3>2, <3>3, <3>4
    <2> QED
      BY <2>1, <2>2
  <1> QED
    BY <1>2, <1>7 DEF FillsDone

LEMMA CountersGrow ==
  ASSUME TypeOK, [Next]_vars
  PROVE  crashes' >= crashes /\ faults' >= faults
  <1>a. crashes \in Int /\ faults \in Int
    BY DEF TypeOK, DeskTypeOK
  <1> SUFFICES crashes' \in {crashes, crashes + 1} /\ faults' \in {faults, faults + 1}
    BY <1>a
  <1>1. CASE TraderStep
    BY <1>1 DEF TraderStep, TraderWorks, CountSlots, ListPending, TakeRec, TickEnd,
       Emit, OpeningStaged, OpeningFresh, Refuse, RefuseLive, Admit, StageDraft, FillOrder,
       FillPosition, FillRec, CloseGone, MarkGone, CloseUnquoted, CloseQuoted, CloseOrder,
       ClosePosition, CloseRec, ClosePnl, RefuseClose, Reopen, Note, HandlerError, deskVars
  <1>2. CASE Command
    BY <1>2 DEF Command, CommandBegins, CommandWorks, ReadRec, ReadOrder, NoOrder, ApproveRec,
       ApproveOrder, CancelOrder, RejectRec, CommandDies, deskVars
  <1>3. CASE TraderBegins \/ TraderFails \/ ManagerBegins \/ ManagerStep \/ ManagerFails
               \/ ModeCommand \/ Crash \/ UNCHANGED vars
    BY <1>3 DEF TraderBegins, TickStart, TraderFails, TraderRaises, HandlerRaises, TickRaises,
       ManagerBegins, ManagerStep, ManagerFails, ListPositions, ManagerWorks, PassedOver,
       EmitClose, SetClosing, ScanEnd, ManagerRaises, ModeCommand, SetMode, Crash, deskVars, vars
  <1> QED
    BY <1>1, <1>2, <1>3 DEF Next

LEMMA NextFilledOnce ==
  ASSUME TypeOK, Placed, Referred, FilledOnce, [Next]_vars
  PROVE  FilledOnce'
  <1> SUFFICES ASSUME crashes' = 0, faults' <= 1
               PROVE  FillsDone'
    BY DEF FilledOnce
  <1>1. crashes = 0 /\ faults <= 1 /\ faults' >= faults /\ FillsDone
    <2>1. crashes \in 0 .. MaxCrashes /\ faults \in 0 .. MaxFaults /\ faults' \in 0 .. MaxFaults
      BY NextPlaced DEF TypeOK, DeskTypeOK
    <2>2. crashes' >= crashes /\ faults' >= faults
      BY CountersGrow
    <2>3. crashes = 0 /\ faults <= 1
      BY <2>1, <2>2, DeskAssumption
    <2> QED
      BY <2>2, <2>3 DEF FilledOnce
  <1>2. TypeOK' /\ TablesGrow
    BY NextPlaced
  <1>3. CASE FillOrder \/ CloseOrder
    BY <1>1, <1>3, FillsOne
  <1>4. CASE ~FillOrder /\ ~CloseOrder
    <2>1. /\ \A r \in Nat : FilledOrders(r)' \subseteq FilledOrders(r)
          /\ \A r \in DOMAIN recs : recs'[r].status = "pending" => recs[r].status = "pending"
      BY <1>4, FilledKept, NeverPendingAgain
    <2>2. CASE TraderBegins \/ TraderStep \/ TraderFails
      <3>1. TraderWorks \/ TraderRaises \/ TickStart
        BY <2>2 DEF TraderBegins, TraderStep, TraderFails
      <3>2. /\ trader'.pc = "error" => faults' = 1
            /\ trader'.pc \in Unfilled => trader'.rec \notin trader'.todo /\ ~Filled(trader'.rec)
            /\ \A r \in trader'.todo : r \in trader.todo \/ ~Filled(r)
            /\ trader.pc \in MidFill /\ recs'[trader.rec].status = "pending" =>
                 trader'.rec = trader.rec /\ trader'.pc \in MidFill
        BY <1>1, <1>4, <3>1, TraderGoes
      <3> QED
        BY <1>1, <1>2, <2>1, <3>2, FillsNothing
    <2>3. CASE trader' = trader
      <3>1. /\ trader'.pc = "error" => faults' = 1
            /\ trader'.pc \in Unfilled => trader'.rec \notin trader'.todo /\ ~Filled(trader'.rec)
            /\ \A r \in trader'.todo : r \in trader.todo
        <4>1. faults' \in Int
          BY <1>2 DEF TypeOK, DeskTypeOK
        <4>2. trader.pc = "error" => faults' = 1
          BY <1>1, <4>1 DEF FillsDone
        <4> QED
          BY <1>1, <2>3, <4>2 DEF FillsDone
      <3> QED
        BY <1>1, <1>2, <2>1, <2>3, <3>1, FillsNothing
    <2>4. ~Crash
      BY DEF Crash, TypeOK, DeskTypeOK
    <2> QED
      BY <2>2, <2>3, <2>4 DEF Next, ManagerBegins, ManagerStep, ManagerFails, ModeCommand,
         Command, vars
  <1> QED
    BY <1>3, <1>4

-----------------------------------------------------------------------------
(* How often a recommendation can be filled *)

(***************************************************************************)
(* The locals of the tick, field by field, after the usual ways to go on.  *)
(***************************************************************************)
LEMMA GotoMoves ==
  ASSUME TypeOK, NEW pc, Goto(pc)
  PROVE  /\ trader'.pc = pc /\ trader'.rec = trader.rec /\ trader'.todo = trader.todo
         /\ trader'.mode = trader.mode /\ trader'.price = trader.price
         /\ trader'.slots = trader.slots
  BY DEF Goto, TypeOK, TraderTypeOK

LEMMA NextRecMoves ==
  ASSUME TypeOK, NextRec
  PROVE  /\ trader'.pc = "next" /\ trader'.rec = 0 /\ trader'.todo = trader.todo
         /\ trader'.mode = trader.mode /\ trader'.price = 0
         /\ trader'.slots = trader.slots
  BY DEF NextRec, TypeOK, TraderTypeOK

Fills(r) == Cardinality(FilledOrders(r))

(***************************************************************************)
(* The trader may still come to fill this recommendation: it is pending or *)
(* listed or in the hands of a handler, and not just being filled.         *)
(***************************************************************************)
Fresh(r) ==
  \/ recs[r].status = "pending" /\ ~(trader.rec = r /\ trader.pc \in MidFill)
  \/ r \in trader.todo
  \/ trader.rec = r /\ trader.pc \in Unfilled

(***************************************************************************)
(* Restarts(k): the crashes, and the pairs of failing writes, of which k   *)
(* writes are not counted.                                                 *)
(***************************************************************************)
Restarts(k) == crashes + (faults - k) \div 2

FillBudget ==
  /\ trader.pc \in Handling \cup {"error"} => trader.rec \notin trader.todo
  /\ \A r \in DOMAIN recs : Fills(r) <= 1 + Restarts(0)
  /\ \A r \in DOMAIN recs : Fresh(r) => Fills(r) <= Restarts(0)
  /\ trader.pc = "error" => faults >= 1 /\ Fills(trader.rec) <= 1 + Restarts(1)

LEMMA FillsCount ==
  ASSUME TypeOK, NEW r
  PROVE  IsFiniteSet(FilledOrders(r)) /\ Fills(r) \in Nat
<1>1. IsFiniteSet(DOMAIN orders)
  BY Lengths, FS_Interval DEF TypeOK
<1>2. IsFiniteSet(FilledOrders(r))
  BY <1>1, FS_Subset DEF FilledOrders
<1> QED
  BY <1>2, FS_CardinalityType DEF Fills

LEMMA RestartsGrow ==
  ASSUME TypeOK, TypeOK', crashes' >= crashes, faults' >= faults
  PROVE  /\ Restarts(0) \in Nat /\ Restarts(0)' \in Nat /\ Restarts(0) <= Restarts(0)'
         /\ Restarts(1) \in Int /\ Restarts(1)' \in Int /\ Restarts(1) <= Restarts(1)'
         /\ Restarts(1) <= Restarts(0)
         /\ crashes' > crashes => 1 + Restarts(0) <= Restarts(0)'
         /\ faults' > faults => /\ Restarts(0) <= Restarts(1)'
                                /\ 1 + Restarts(1) <= Restarts(0)'
<1>1. crashes \in Nat /\ crashes' \in Nat /\ faults \in Nat /\ faults' \in Nat
  BY DeskAssumption DEF TypeOK, DeskTypeOK
<1>2. /\ Restarts(0) = crashes + faults \div 2
      /\ Restarts(1) = crashes + (faults - 1) \div 2
      /\ Restarts(0)' = crashes' + faults' \div 2
      /\ Restarts(1)' = crashes' + (faults' - 1) \div 2
  BY <1>1 DEF Restarts
<1>3. /\ faults \div 2 \in Nat /\ faults' \div 2 \in Nat
      /\ (faults - 1) \div 2 \in Int /\ (faults' - 1) \div 2 \in Int
      /\ faults \div 2 <= faults' \div 2 /\ (faults - 1) \div 2 <= (faults' - 1) \div 2
      /\ (faults - 1) \div 2 <= faults \div 2
      /\ faults' > faults => /\ faults \div 2 <= (faults' - 1) \div 2
                             /\ 1 + (faults - 1) \div 2 <= faults' \div 2
  <2>1. ASSUME NEW f \in Nat, NEW g \in Nat, g >= f
        PROVE  /\ f \div 2 \in Nat /\ g \div 2 \in Nat
               /\ (f - 1) \div 2 \in Int /\ (g - 1) \div 2 \in Int
               /\ f \div 2 <= g \div 2 /\ (f - 1) \div 2 <= (g - 1) \div 2
               /\ (f - 1) \div 2 <= f \div 2
               /\ g > f => /\ f \div 2 <= (g - 1) \div 2
                           /\ 1 + (f - 1) \div 2 <= g \div 2
    BY <2>1
  <2> QED
    BY <1>1, <2>1
<1> HIDE DEF Restarts
<1> QED
  BY <1>1, <1>2, <1>3

(***************************************************************************)
(* Steps that fill nothing.                                                *)
(***************************************************************************)
LEMMA BudgetKept ==
  ASSUME TypeOK, TypeOK', TablesGrow, Referred, FillBudget,
         crashes' >= crashes, faults' >= faults,
         \A r \in Nat : FilledOrders(r)' \subseteq FilledOrders(r),
         trader'.pc \in Handling \cup {"error"} => trader'.rec \notin trader'.todo,
         \A r \in DOMAIN recs : Fresh(r)' =>
           \/ Fresh(r) \/ crashes' > crashes
           \/ r = trader.rec /\ trader.pc = "error" /\ faults' > faults,
         trader'.pc = "error" =>
           /\ trader'.rec = trader.rec /\ trader.rec \in DOMAIN recs
           /\ trader.pc = "error" \/ faults' > faults
  PROVE  FillBudget'
<1>1. ASSUME NEW r \in Nat
      PROVE  Fills(r)' <= Fills(r) /\ Fills(r)' \in Nat /\ Fills(r) \in Nat
  <2>1. FilledOrders(r)' \subseteq FilledOrders(r)
    OBVIOUS
  <2>2. IsFiniteSet(FilledOrders(r)) /\ Fills(r) \in Nat
    BY FillsCount
  <2>3. Cardinality(FilledOrders(r)') <= Cardinality(FilledOrders(r))
        /\ IsFiniteSet(FilledOrders(r)')
    BY <2>1, <2>2, FS_Subset
  <2> QED
    BY <2>2, <2>3, FS_CardinalityType DEF Fills
<1>2. /\ Restarts(0) \in Nat /\ Restarts(0)' \in Nat /\ Restarts(0) <= Restarts(0)'
      /\ Restarts(1) \in Int /\ Restarts(1)' \in Int /\ Restarts(1) <= Restarts(1)'
      /\ Restarts(1) <= Restarts(0)
      /\ crashes' > crashes => 1 + Restarts(0) <= Restarts(0)'
      /\ faults' > faults => /\ Restarts(0) <= Restarts(1)'
                             /\ 1 + Restarts(1) <= Restarts(0)'
  BY RestartsGrow
<1>3. ASSUME NEW r \in DOMAIN recs', r \notin DOMAIN recs
      PROVE  Fills(r)' = 0
  <2>1. FilledOrders(r) = {} /\ r \in Nat
    BY <1>3, Lengths DEF FilledOrders, Referred, TypeOK, DeskTypeOK
  <2>2. FilledOrders(r)' = {}
    BY <2>1
  <2> QED
    BY <2>2, FS_EmptySet DEF Fills
<1>4. ASSUME NEW r \in DOMAIN recs
      PROVE  r \in Nat /\ Fills(r)' <= 1 + Restarts(0)'
             /\ (Fresh(r)' => Fills(r)' <= Restarts(0)')
  <2>1. r \in Nat /\ Fills(r) <= 1 + Restarts(0) /\ (Fresh(r) => Fills(r) <= Restarts(0))
    BY Lengths DEF FillBudget, TypeOK
  <2>2. r = trader.rec /\ trader.pc = "error" => Fills(r) <= 1 + Restarts(1)
    BY DEF FillBudget
  <2> QED
    BY <1>1, <1>2, <2>1, <2>2
<1>5. trader'.pc = "error" => faults' >= 1 /\ Fills(trader.rec)' <= 1 + Restarts(1)'
  <2> SUFFICES ASSUME trader'.pc = "error"
               PROVE  faults' >= 1 /\ Fills(trader.rec)' <= 1 + Restarts(1)'
    OBVIOUS
  <2>1. trader'.rec = trader.rec /\ trader.rec \in DOMAIN recs /\ trader.rec \in Nat
    BY Lengths DEF TypeOK
  <2>2. faults \in Nat /\ faults' \in Nat
    BY DeskAssumption DEF TypeOK, DeskTypeOK
  <2>3. Fills(trader.rec) <= 1 + Restarts(0)
        /\ (trader.pc = "error" => faults >= 1 /\ Fills(trader.rec) <= 1 + Restarts(1))
    BY <2>1 DEF FillBudget
  <2>4. Fills(trader.rec)' = Cardinality(FilledOrders(trader.rec)')
        /\ FilledOrders(trader.rec)' \subseteq FilledOrders(trader.rec)
        /\ IsFiniteSet(FilledOrders(trader.rec))
    <3>1. FilledOrders(trader.rec)' \subseteq FilledOrders(trader.rec)
      <4>1. \A r \in Nat : r = trader'.rec => FilledOrders(trader.rec)' = FilledOrders(r)'
        BY DEF FilledOrders
      <4> QED
        BY <2>1, <4>1
    <3> QED
      BY <3>1, FillsCount DEF Fills
  <2>5. Fills(trader.rec)' <= Fills(trader.rec) /\ Fills(trader.rec)' \in Nat
        /\ Fills(trader.rec) \in Nat
    BY <2>4, FS_Subset, FS_CardinalityType DEF Fills
  <2> QED
    BY <1>2, <2>2, <2>3, <2>5
<1> QED
  BY <1>2, <1>3, <1>4, <1>5 DEF FillBudget

(***************************************************************************)
(* Where the trader goes, a recommendation that can be filled could be     *)
(* filled before, unless the tick ends in the except branch.               *)
(***************************************************************************)
LEMMA FreshStays ==
  ASSUME TypeOK, Placed, FillBudget, TraderWorks \/ TraderRaises \/ TickStart,
         ~FillOrder, ~CloseOrder,
         \A r \in DOMAIN recs : recs'[r].status = "pending" => recs[r].status = "pending"
  PROVE  /\ trader'.pc \in Handling \cup {"error"} => trader'.rec \notin trader'.todo
         /\ \A r \in DOMAIN recs : Fresh(r)' =>
              Fresh(r) \/ (r = trader.rec /\ trader.pc = "error" /\ faults' > faults)
         /\ trader'.pc = "error" =>
              /\ trader'.rec = trader.rec /\ trader.rec \in DOMAIN recs
              /\ faults' > faults
<1> USE DEF TypeOK
<1> DEFINE Goal ==
      /\ trader'.pc \in Handling \cup {"error"} => trader'.rec \notin trader'.todo
      /\ \A r \in DOMAIN recs : Fresh(r)' =>
           Fresh(r) \/ (r = trader.rec /\ trader.pc = "error" /\ faults' > faults)
      /\ trader'.pc = "error" =>
           /\ trader'.rec = trader.rec /\ trader.rec \in DOMAIN recs
           /\ faults' > faults
<1> SUFFICES Goal
  OBVIOUS
<1>a. faults \in Nat
  BY DeskAssumption DEF DeskTypeOK
<1>b. trader.pc \in Handling \cup {"error"} => trader.rec \notin trader.todo
  BY DEF FillBudget
<1>1. ASSUME trader.pc \notin MidFill, trader'.pc \notin Unfilled \cup {"error"},
             trader'.todo \subseteq trader.todo,
             \/ trader'.pc \notin Handling
             \/ trader'.rec = trader.rec /\ trader.pc \in Handling
      PROVE  Goal
  BY <1>1, <1>b DEF Fresh
<1>2. ASSUME trader.pc \in Unfilled, trader'.pc \in Unfilled,
             trader'.rec = trader.rec, trader'.todo = trader.todo
      PROVE  Goal
  BY <1>2, <1>b DEF Fresh, Unfilled, MidFill, Handling
<1>3. ASSUME trader.pc \in MidFill, trader'.pc \in MidFill \ {"error"},
             trader'.rec = trader.rec, trader'.todo = trader.todo
      PROVE  Goal
  BY <1>3, <1>b DEF Fresh, Unfilled, MidFill, Handling
<1>4. ASSUME trader.pc \in MidFill, recs'[trader.rec].status # "pending",
             trader'.todo = trader.todo, trader'.pc \in {"next", "closePnl"},
             trader'.pc = "closePnl" => trader'.rec = trader.rec
      PROVE  Goal
  BY <1>4, <1>b DEF Fresh, Unfilled, MidFill, Handling
<1>5. ASSUME NEW r \in DOMAIN recs, NEW status \in {"rejected", "executed"},
             UpdateRec(r, status)
      PROVE  recs'[r].status # "pending"
  <2>1. recs'[r].status = status
    BY <1>5, UpdateRecType
  <2> QED
    BY <2>1
<1>6. CASE TickStart \/ CountSlots \/ \E s \in Strategies, l \in MaxLosses : Emit(s, l)
  <2>1. trader'.pc \in {"tick", "eval"} /\ trader'.todo = trader.todo
        /\ trader.pc \in {"idle", "tick", "eval"}
    <3>1. TickStart => trader'.pc \in {"tick", "eval"} /\ trader'.todo = trader.todo
                       /\ trader.pc \in {"idle", "tick", "eval"}
      BY DEF TickStart, At, TraderTypeOK
    <3>2. CountSlots => trader'.pc \in {"tick", "eval"} /\ trader'.todo = trader.todo
                        /\ trader.pc \in {"idle", "tick", "eval"}
      BY DEF CountSlots, At, TraderTypeOK
    <3>3. ASSUME NEW s \in Strategies, NEW l \in MaxLosses, Emit(s, l)
          PROVE  trader'.pc \in {"tick", "eval"} /\ trader'.todo = trader.todo
                 /\ trader.pc \in {"idle", "tick", "eval"}
      BY <3>3 DEF Emit, At, TraderTypeOK
    <3> QED
      BY <1>6, <3>1, <3>2, <3>3
  <2> QED
    BY <1>1, <2>1 DEF MidFill, Unfilled, Handling
<1>7. CASE ListPending
  <2>1. trader'.pc = "next" /\ trader'.todo = PendingRecs /\ trader.pc \notin MidFill
    BY <1>7 DEF ListPending, IdleTrader, MidFill
  <2> QED
    BY <2>1 DEF Fresh, PendingRecs, Unfilled, Handling, MidFill
<1>8. CASE TakeRec
  <2>1. PICK r \in trader.todo :
          trader' = [trader EXCEPT !.pc = "rec", !.rec = r, !.todo = @ \ {r}]
    BY <1>8 DEF TakeRec
  <2>2. trader'.pc = "rec" /\ trader'.rec = r /\ trader'.todo = trader.todo \ {r}
    BY <2>1 DEF TraderTypeOK
  <2>3. trader.pc \notin MidFill
    BY <1>8 DEF TakeRec, At, MidFill
  <2> QED
    BY <2>2, <2>3 DEF Fresh
<1>9. CASE TickEnd
  <2>1. trader'.pc = "idle" /\ trader'.todo = {} /\ trader.pc \notin MidFill
    BY <1>9 DEF TickEnd, At, IdleTrader, MidFill
  <2> QED
    BY <1>1, <2>1 DEF Unfilled, Handling
<1>10. CASE OpeningStaged \/ Refuse \/ RefuseLive \/ MarkGone \/ CloseUnquoted \/ Reopen \/ Note
  <2>1. NextRec /\ trader.pc \notin MidFill
    BY <1>10 DEF OpeningStaged, Refuse, RefuseLive, MarkGone, CloseUnquoted, Reopen, Note,
       At, MidFill
  <2>2. trader'.pc = "next" /\ trader'.todo = trader.todo
    BY <2>1, NextRecMoves
  <2> QED
    BY <1>1, <2>1, <2>2 DEF Unfilled, Handling
<1>11. CASE FillRec \/ HandlerError \/ CloseRec
  <2>1. /\ NextRec \/ Goto("closePnl")
        /\ trader.rec \in DOMAIN recs /\ trader.pc \in MidFill
        /\ \E status \in {"rejected", "executed"} : UpdateRec(trader.rec, status)
    BY <1>11 DEF FillRec, HandlerError, CloseRec, At, Placed, Handling, MidFill
  <2>2. /\ trader'.pc \in {"next", "closePnl"} /\ trader'.todo = trader.todo
        /\ trader'.pc = "closePnl" => trader'.rec = trader.rec
    BY <2>1, NextRecMoves, GotoMoves
  <2>3. recs'[trader.rec].status # "pending"
    BY <1>5, <2>1
  <2> QED
    BY <1>4, <2>1, <2>2, <2>3
<1>12. CASE StageDraft \/ ClosePnl \/ RefuseClose
  <2>1. (Goto("note") \/ Goto("reopen")) /\ trader.pc \in {"draft", "closePnl", "unclose"}
    BY <1>12 DEF StageDraft, ClosePnl, RefuseClose, At
  <2>2. /\ trader'.pc \in {"note", "reopen"} /\ trader'.todo = trader.todo
        /\ trader'.rec = trader.rec
    BY <2>1, GotoMoves
  <2> QED
    BY <1>1, <2>1, <2>2 DEF MidFill, Unfilled, Handling
<1>13. CASE OpeningFresh \/ CloseGone
  <2>1. (Goto("size") \/ Goto("gone")) /\ trader.pc = "rec"
    BY <1>13 DEF OpeningFresh, CloseGone, At
  <2>2. trader'.pc \in Unfilled /\ trader'.rec = trader.rec /\ trader'.todo = trader.todo
    BY <2>1, GotoMoves DEF Unfilled
  <2> QED
    BY <1>2, <2>1, <2>2 DEF Unfilled
<1>14. ASSUME NEW x \in Prices, Admit(x) \/ CloseQuoted(x)
       PROVE  Goal
  <2>1. /\ trader.pc \in {"size", "rec"}
        /\ trader'.pc \in {"paper", "draft", "live", "closeOrder", "unclose"}
        /\ trader'.rec = trader.rec /\ trader'.todo = trader.todo
    <3>1. trader.pc # "idle" => trader.mode \in {"paper", "draft", "live"}
      BY DEF Placed, TraderTypeOK, Modes
    <3>2. CASE Admit(x)
      BY <3>1, <3>2 DEF Admit, At, TraderTypeOK
    <3>3. CASE CloseQuoted(x)
      BY <3>3 DEF CloseQuoted, At, TraderTypeOK
    <3> QED
      BY <1>14, <3>2, <3>3
  <2> QED
    BY <1>2, <2>1 DEF Unfilled
<1>15. CASE FillPosition \/ ClosePosition
  <2>1. (Goto("fillRec") \/ Goto("closeRec")) /\ trader.pc \in MidFill
    BY <1>15 DEF FillPosition, ClosePosition, At, MidFill
  <2>2. /\ trader'.pc \in MidFill \ {"error"} /\ trader'.rec = trader.rec
        /\ trader'.todo = trader.todo
    BY <2>1, GotoMoves DEF MidFill
  <2> QED
    BY <1>3, <2>1, <2>2
<1>16. CASE HandlerRaises
  <2>1. Goto("error") /\ faults' = faults + 1 /\ trader.pc \in Handling
    BY <1>16 DEF HandlerRaises
  <2>2. trader'.pc = "error" /\ trader'.rec = trader.rec /\ trader'.todo = trader.todo
    BY <2>1, GotoMoves
  <2>3. trader.rec \in DOMAIN recs
    BY <2>1 DEF Placed
  <2> QED
    BY <1>a, <1>b, <2>1, <2>2, <2>3 DEF Fresh, Unfilled, MidFill
<1>17. CASE TickRaises
  <2>1. faults' > faults /\ trader.pc \in {"tick", "eval", "error"}
    BY <1>17, <1>a DEF TickRaises
  <2>2. trader'.pc = "idle" /\ trader'.todo = {}
    BY <1>17 DEF TickRaises, IdleTrader
  <2> QED
    BY <2>1, <2>2 DEF Fresh, MidFill, Unfilled, Handling
<1> HIDE DEF Goal
<1>18. \/ \E x \in Prices : Admit(x)
       \/ \E x \in Prices : CloseQuoted(x)
       => Goal
  BY <1>14
<1> QED
  BY <1>6, <1>7, <1>8, <1>9, <1>10, <1>11, <1>12, <1>13, <1>15, <1>16, <1>17, <1>18
     DEF TraderWorks, TraderRaises

(***************************************************************************)
(* The step that fills.                                                    *)
(***************************************************************************)
LEMMA BudgetSpent ==
  ASSUME TypeOK, Placed, FillBudget, FillOrder \/ CloseOrder
  PROVE  FillBudget'
<1> USE DEF TypeOK
<1>1. /\ InsertOrder(trader.rec, trader.price, "filled")
      /\ trader.pc \in Unfilled /\ trader.pc \in Handling
      /\ Goto("fillPosition") \/ Goto("closePosition")
      /\ UNCHANGED <<recs, crashes, faults>>
  BY DEF FillOrder, CloseOrder, At, Unfilled, Handling
<1>2. /\ trader'.pc \in {"fillPosition", "closePosition"}
      /\ trader'.rec = trader.rec /\ trader'.todo = trader.todo
  BY <1>1, GotoMoves
<1>3. /\ trader.rec \in DOMAIN recs /\ trader.rec \notin trader.todo
      /\ trader.rec \in Nat /\ trader.price \in Int
  BY <1>1, Lengths DEF Placed, FillBudget, TraderTypeOK
<1>4. /\ \A o \in DOMAIN orders : orders'[o] = orders[o]
      /\ orders'[Len(orders) + 1] =
           [rec |-> trader.rec, price |-> trader.price, status |-> "filled"]
      /\ DOMAIN orders' = DOMAIN orders \cup {Len(orders) + 1}
  BY <1>1, <1>3, InsertOrderType
<1>5. orders'[Len(orders) + 1].rec = trader.rec /\ Len(orders) + 1 \notin DOMAIN orders
  BY <1>4, Lengths
<1>6. Restarts(0)' = Restarts(0) /\ Restarts(0) \in Nat
  BY <1>1, RestartsGrow, DeskAssumption DEF Restarts, DeskTypeOK
<1>7. ASSUME NEW r \in DOMAIN recs'
      PROVE  /\ Fills(r)' <= 1 + Restarts(0)'
             /\ Fresh(r)' => Fills(r)' <= Restarts(0)'
  <2>0. r \in DOMAIN recs /\ Fills(r) \in Nat /\ IsFiniteSet(FilledOrders(r))
    BY <1>1, FillsCount
  <2>1. CASE r = trader.rec
    <3>1. FilledOrders(r)' \subseteq FilledOrders(r) \cup {Len(orders) + 1}
      BY <1>4 DEF FilledOrders
    <3>2. Cardinality(FilledOrders(r) \cup {Len(orders) + 1}) <= Fills(r) + 1
          /\ IsFiniteSet(FilledOrders(r) \cup {Len(orders) + 1})
      <4>1. Fills(r) = Cardinality(FilledOrders(r))
        BY DEF Fills
      <4> DEFINE filled == FilledOrders(r)
      <4>2. IsFiniteSet(filled \cup {Len(orders) + 1})
            /\ \/ Cardinality(filled \cup {Len(orders) + 1}) = Cardinality(filled)
               \/ Cardinality(filled \cup {Len(orders) + 1}) = Cardinality(filled) + 1
        <5> HIDE DEF filled
        <5>1. IsFiniteSet(filled)
          BY <2>0 DEF filled
        <5> QED
          BY <5>1, FS_AddElement
      <4> QED
        BY <2>0, <4>1, <4>2
    <3>3. Fills(r)' <= Fills(r) + 1
      BY <3>1, <3>2, <2>0, FS_Subset, FS_CardinalityType DEF Fills
    <3>4. Fresh(r) /\ ~Fresh(r)'
      BY <1>1, <1>2, <1>3, <2>1 DEF Fresh, MidFill, Unfilled
    <3>5. Fills(r)' \in Nat
      BY <3>1, <3>2, FS_Subset, FS_CardinalityType DEF Fills
    <3> QED
      BY <1>6, <2>0, <3>3, <3>4, <3>5 DEF FillBudget
  <2>2. CASE r # trader.rec
    <3>1. FilledOrders(r)' = FilledOrders(r)
      BY <1>4, <1>5, <2>2 DEF FilledOrders
    <3>2. Fresh(r)' => Fresh(r)
      BY <1>1, <1>2, <2>2 DEF Fresh
    <3> QED
      BY <1>6, <2>0, <3>1, <3>2 DEF FillBudget, Fills
  <2> QED
    BY <2>1, <2>2
<1> QED
  BY <1>2, <1>3, <1>7 DEF FillBudget

LEMMA NextFillBudget ==
  ASSUME TypeOK, Placed, Referred, FillBudget, [Next]_vars
  PROVE  FillBudget'
<1>1. TypeOK' /\ TablesGrow /\ crashes' >= crashes /\ faults' >= faults
  BY NextPlaced, CountersGrow
<1>2. CASE FillOrder \/ CloseOrder
  BY <1>2, BudgetSpent
<1>3. CASE ~FillOrder /\ ~CloseOrder
  <2>1. /\ \A r \in Nat : FilledOrders(r)' \subseteq FilledOrders(r)
        /\ \A r \in DOMAIN recs : recs'[r].status = "pending" => recs[r].status = "pending"
    BY <1>3, FilledKept, NeverPendingAgain
  <2>2. CASE TraderBegins \/ TraderStep \/ TraderFails
    <3>1. TraderWorks \/ TraderRaises \/ TickStart
      BY <2>2 DEF TraderBegins, TraderStep, TraderFails
    <3> QED
      BY <1>1, <1>3, <2>1, <3>1, FreshStays, BudgetKept
  <2>3. CASE trader' = trader
    <3>1. \A r \in DOMAIN recs : Fresh(r)' => Fresh(r)
      BY <2>1, <2>3 DEF Fresh
    <3>2. /\ trader.pc = "error" => trader.rec \in DOMAIN recs
          /\ trader.pc \in Handling \cup {"error"} => trader.rec \notin trader.todo
      BY DEF Placed, FillBudget
    <3> QED
      BY <1>1, <2>1, <2>3, <3>1, <3>2, BudgetKept
  <2>4. CASE Crash
    <3>1. crashes' > crashes /\ trader'.pc = "idle"
      BY <2>4 DEF Crash, IdleTrader, TypeOK, DeskTypeOK
    <3> QED
      BY <1>1, <2>1, <3>1, BudgetKept DEF Handling
  <2> QED
    BY <2>2, <2>3, <2>4 DEF Next, ManagerBegins, ManagerStep, ManagerFails, ModeCommand,
       Command, vars
<1> QED
  BY <1>2, <1>3

(***************************************************************************)
(* No recommendation is filled more often than once, once more for every   *)
(* crash and once more for every two failing writes.                       *)
(***************************************************************************)
THEOREM FillsBounded == Spec => []FillsPerRestart
<1> DEFINE IInv == TypeOK /\ Placed /\ Referred /\ FillBudget
<1>1. Init => IInv
  <2> SUFFICES ASSUME Init PROVE IInv
    OBVIOUS
  <2>1. TypeOK /\ Placed
    BY InitPlaced
  <2>2. recs = << >> /\ orders = << >> /\ trader.pc = "idle"
    BY DEF Init, DeskInit, TraderInit, IdleTrader
  <2> QED
    BY <2>1, <2>2 DEF Referred, FillBudget, Handling
<1>2. IInv /\ [Next]_vars => IInv'
  BY NextPlaced, NextReferred, NextFillBudget
<1>3. IInv => FillsPerRestart
  <2> SUFFICES ASSUME TypeOK, FillBudget, NEW r \in DOMAIN recs
               PROVE  Cardinality(FilledOrders(r)) <= 1 + crashes + faults \div 2
    BY DEF FillsPerRestart
  <2>1. Fills(r) <= 1 + Restarts(0)
    BY DEF FillBudget
  <2>2. crashes \in Nat /\ faults \in Nat
    BY DeskAssumption DEF TypeOK, DeskTypeOK
  <2>3. 1 + Restarts(0) = 1 + crashes + faults \div 2
    BY <2>2 DEF Restarts
  <2> QED
    BY <2>1, <2>3 DEF Fills
<1> QED
  BY <1>1, <1>2, <1>3, PTL DEF Spec

-----------------------------------------------------------------------------
(* One draft per recommendation *)

OnePerson == \A h, k \in Operators : h = k

(***************************************************************************)
(* A person about to write an order, or to write it after the              *)
(* recommendation, has it as the draft it was when it was read.            *)
(***************************************************************************)
HasDraft(h) ==
  \/ human[h].pc = "writeOrder"
  \/ human[h].pc = "writeRec" /\ human[h].act = "approve"

DraftsStand ==
  \A h \in Operators : HasDraft(h) =>
    /\ human[h].order \in DOMAIN orders
    /\ orders[human[h].order].status = "draft"

(***************************************************************************)
(* Between the look for an active order and the insert there is none.      *)
(***************************************************************************)
NoneStaged == trader.pc \in BeforeOpening => ActiveOrders(trader.rec) = {}

Staging == StagedOnce /\ DraftsStand /\ NoneStaged

LEMMA ApproveKeepsOrders ==
  ASSUME TypeOK, DraftsStand, NEW h \in Operators, ApproveOrder(h)
  PROVE  orders' = orders
<1> DEFINE o == human[h].order
<1>1. o \in DOMAIN orders /\ orders[o].status = "draft"
  BY DEF DraftsStand, HasDraft, ApproveOrder
<1>2. orders \in Seq(Order) /\ orders[o] \in Order
  BY <1>1 DEF TypeOK, DeskTypeOK
<1>3. [orders[o] EXCEPT !.status = "draft"] = orders[o]
  BY <1>1, <1>2 DEF Order
<1>4. orders' = [orders EXCEPT ![o] = [orders[o] EXCEPT !.status = "draft"]]
  BY DEF ApproveOrder, UpdateOrder
<1> QED
  BY <1>2, <1>3, <1>4

LEMMA HumanMoves ==
  ASSUME TypeOK, OnePerson, DraftsStand, NEW h \in Operators,
         CommandBegins(h) \/ CommandWorks(h) \/ CommandDies(h)
  PROVE  /\ DraftsStand'
         /\ orders' = orders \/ CancelOrder(h)
<1>1. \A k \in Operators : k = h
  BY DEF OnePerson
<1>2. human[h] \in [pc : {"idle", "order", "writeOrder", "writeRec"},
                    act : {"approve", "reject"}, rec : 0 .. Len(recs),
                    order : 0 .. Len(orders)]
      /\ human \in [Operators -> [pc : {"idle", "order", "writeOrder", "writeRec"},
                    act : {"approve", "reject"}, rec : 0 .. Len(recs),
                    order : 0 .. Len(orders)]]
  BY DEF TypeOK, HumanTypeOK
<1>3. HasDraft(h) => human[h].order \in DOMAIN orders
                     /\ orders[human[h].order].status = "draft"
  BY DEF DraftsStand
<1>4. SUFFICES /\ HasDraft(h)' => /\ human'[h].order \in DOMAIN orders'
                                  /\ orders'[human'[h].order].status = "draft"
               /\ orders' = orders \/ CancelOrder(h)
  BY <1>1 DEF DraftsStand
<1>5. ASSUME NEW act \in {"approve", "reject"}, NEW r \in DOMAIN recs, ReadRec(h, act, r)
      PROVE  human'[h].pc = "order" /\ orders' = orders
  BY <1>2, <1>5 DEF ReadRec, IdleHuman, deskVars
<1>6. CASE CommandBegins(h)
  BY <1>5, <1>6 DEF CommandBegins, HasDraft
<1>7. CASE ReadOrder(h)
  <2>1. PICK o \in DOMAIN orders :
          /\ LatestOrder(o, human[h].rec)
          /\ human' = [human EXCEPT
               ![h].order = o,
               ![h].pc = IF human[h].act = "approve" THEN "writeRec" ELSE "writeOrder"]
    BY <1>7 DEF ReadOrder
  <2>2. orders[o].status = "draft" /\ orders' = orders
    BY <1>7, <2>1 DEF LatestOrder, ActiveOrders, ReadOrder, deskVars
  <2>3. human'[h].order = o
    BY <1>2, <2>1
  <2> QED
    BY <2>2, <2>3
<1>8. CASE NoOrder(h) \/ CommandDies(h) \/ RejectRec(h)
  <2>1. /\ orders' = orders
        /\ \/ human'[h].pc = "idle"
           \/ human'[h].pc = "writeRec" /\ human'[h].act = "reject"
    <3>1. CASE NoOrder(h)
      <4>1. CASE human[h].act = "approve"
        BY <1>2, <3>1, <4>1 DEF NoOrder, IdleHuman, deskVars
      <4>2. CASE human[h].act = "reject"
        <5>1. orders' = orders
              /\ human' = [human EXCEPT ![h] = [human[h] EXCEPT !.pc = "writeRec"]]
          BY <3>1, <4>2 DEF NoOrder, deskVars
        <5>2. human'[h] = [human[h] EXCEPT !.pc = "writeRec"]
          BY <1>2, <5>1
        <5> QED
          BY <1>2, <4>2, <5>1, <5>2
      <4> QED
        BY <1>2, <4>1, <4>2
    <3>2. CASE CommandDies(h) \/ RejectRec(h)
      BY <1>2, <3>2 DEF CommandDies, RejectRec, IdleHuman
    <3> QED
      BY <1>8, <3>1, <3>2
  <2> QED
    BY <2>1 DEF HasDraft
<1>9. CASE ApproveRec(h)
  <2>1. orders' = orders /\ human'[h].order = human[h].order /\ HasDraft(h)
    BY <1>2, <1>9 DEF ApproveRec, HasDraft
  <2> QED
    BY <1>3, <2>1
<1>10. CASE ApproveOrder(h)
  <2>1. human'[h].pc = "idle" /\ orders' = orders
    BY <1>2, <1>10, ApproveKeepsOrders DEF ApproveOrder, IdleHuman
  <2> QED
    BY <2>1 DEF HasDraft
<1>11. CASE CancelOrder(h)
  <2>1. human'[h].pc = "writeRec" /\ human'[h].act = "reject"
    BY <1>2, <1>11 DEF CancelOrder
  <2> QED
    BY <1>11, <2>1 DEF HasDraft
<1> QED
  BY <1>6, <1>7, <1>8, <1>9, <1>10, <1>11 DEF CommandWorks

(***************************************************************************)
(* What a step does to the orders when people only cancel drafts.          *)
(***************************************************************************)
LEMMA OrdersStaged ==
  ASSUME TypeOK, OnePerson, DraftsStand, [Next]_vars
  PROVE  \/ orders' = orders
         \/ StageDraft \/ FillOrder \/ CloseOrder
         \/ \E o \in DOMAIN orders : /\ UpdateOrder(o, "cancelled")
                                     /\ orders[o].status = "draft"
                                     /\ UNCHANGED <<trader, recs, positions>>
<1>1. CASE Command
  <2>1. PICK h \in Operators : CommandBegins(h) \/ CommandWorks(h) \/ CommandDies(h)
    BY <1>1 DEF Command
  <2>2. CASE CancelOrder(h)
    <3>1. human[h].order \in DOMAIN orders /\ orders[human[h].order].status = "draft"
      BY <2>2 DEF DraftsStand, HasDraft, CancelOrder
    <3> QED
      BY <1>1, <2>2, <3>1 DEF CancelOrder, Command
  <2> QED
    BY <2>1, <2>2, HumanMoves
<1>2. CASE ~Command
  <2>1. TypeOK /\ [Next]_vars /\ ~Command => orders' = orders \/ TraderStep
    BY DEF Next, TraderBegins, TickStart, TraderFails, TraderRaises, HandlerRaises, TickRaises,
       ManagerBegins, ManagerStep, ManagerFails, ListPositions, ManagerWorks, PassedOver,
       EmitClose, SetClosing, ScanEnd, ManagerRaises, ModeCommand, SetMode, Crash, deskVars,
       vars
  <2>2. TraderStep => orders' = orders \/ StageDraft \/ FillOrder \/ CloseOrder
    BY DEF TraderStep, TraderWorks, CountSlots, ListPending, TakeRec, TickEnd,
       Emit, OpeningStaged, OpeningFresh, Refuse, RefuseLive, Admit, FillPosition, FillRec,
       CloseGone, MarkGone, CloseUnquoted, CloseQuoted, ClosePosition, CloseRec, ClosePnl,
       RefuseClose, Reopen, Note, HandlerError, deskVars
  <2> QED
    BY <1>2, <2>1, <2>2
<1> QED
  BY <1>1, <1>2

(***************************************************************************)
(* What is inserted.                                                       *)
(***************************************************************************)
LEMMA OrderAdded ==
  ASSUME TypeOK, Placed, StageDraft \/ FillOrder \/ CloseOrder
  PROVE  LET o == Len(orders) + 1
         IN  /\ o \notin DOMAIN orders /\ DOMAIN orders' = DOMAIN orders \cup {o}
             /\ \A n \in DOMAIN orders : orders'[n] = orders[n]
             /\ orders'[o].rec = trader.rec /\ orders'[o].price = trader.price
             /\ orders'[o].status = (IF StageDraft THEN "draft" ELSE "filled")
<1>1. trader.rec \in Nat /\ trader.price \in Int
  BY Lengths DEF TypeOK, TraderTypeOK
<1>2. ASSUME NEW status \in {"draft", "filled"}, InsertOrder(trader.rec, trader.price, status)
      PROVE  LET o == Len(orders) + 1
             IN  /\ o \notin DOMAIN orders /\ DOMAIN orders' = DOMAIN orders \cup {o}
                 /\ \A n \in DOMAIN orders : orders'[n] = orders[n]
                 /\ orders'[o].rec = trader.rec /\ orders'[o].price = trader.price
                 /\ orders'[o].status = status
  <2>1. /\ \A n \in DOMAIN orders : orders'[n] = orders[n]
        /\ DOMAIN orders' = DOMAIN orders \cup {Len(orders) + 1}
        /\ orders'[Len(orders) + 1] = [rec |-> trader.rec, price |-> trader.price,
                                       status |-> status]
    BY <1>1, <1>2, InsertOrderType DEF TypeOK
  <2>2. /\ orders'[Len(orders) + 1].rec = trader.rec
        /\ orders'[Len(orders) + 1].price = trader.price
        /\ orders'[Len(orders) + 1].status = status
    BY <2>1
  <2>3. Len(orders) + 1 \notin DOMAIN orders
    BY Lengths DEF TypeOK
  <2> QED
    BY <2>1, <2>2, <2>3
<1>3. CASE StageDraft
  BY <1>2, <1>3 DEF StageDraft
<1>4. CASE ~StageDraft
  BY <1>2, <1>4 DEF FillOrder, CloseOrder
<1> QED
  BY <1>3, <1>4

(***************************************************************************)
(* Where every step of the trader leads, and what it does to the locals.   *)
(***************************************************************************)
Moved(pc, rec, todo, price) ==
  trader'.pc = pc /\ trader'.rec = rec /\ trader'.todo = todo /\ trader'.price = price

Skips == OpeningStaged \/ Refuse \/ RefuseLive \/ FillRec \/ MarkGone \/ CloseUnquoted
           \/ Reopen \/ Note \/ HandlerError

LEMMA TraderMoves ==
  ASSUME TypeOK, Placed
  PROVE  /\ TickStart \/ CountSlots \/ (\E s \in Strategies, l \in MaxLosses : Emit(s, l)) =>
              /\ trader.pc \in {"idle", "tick", "eval"}
              /\ \E pc \in {"tick", "eval"} :
                   Moved(pc, trader.rec, trader.todo, trader.price)
         /\ ListPending =>
              trader.pc \in {"tick", "eval"} /\ Moved("next", 0, PendingRecs, 0)
         /\ TakeRec =>
              /\ trader.pc = "next"
              /\ \E r \in trader.todo : Moved("rec", r, trader.todo \ {r}, trader.price)
         /\ TickEnd \/ TickRaises =>
              trader.pc \in {"next", "tick", "eval", "error"} /\ Moved("idle", 0, {}, 0)
         /\ Skips => Moved("next", 0, trader.todo, 0)
         /\ OpeningFresh =>
              trader.pc = "rec" /\ Moved("size", trader.rec, trader.todo, trader.price)
         /\ \A x \in Prices : Admit(x) =>
              /\ trader.pc = "size"
              /\ \E pc \in {"paper", "draft", "live"} : Moved(pc, trader.rec, trader.todo, x)
         /\ StageDraft =>
              trader.pc = "draft" /\ Moved("note", trader.rec, trader.todo, trader.price)
         /\ FillOrder =>
              /\ trader.pc = "paper"
              /\ Moved("fillPosition", trader.rec, trader.todo, trader.price)
         /\ FillPosition =>
              /\ trader.pc = "fillPosition"
              /\ Moved("fillRec", trader.rec, trader.todo, trader.price)
         /\ CloseGone =>
              trader.pc = "rec" /\ Moved("gone", trader.rec, trader.todo, trader.price)
         /\ \A x \in Prices : CloseQuoted(x) =>
              /\ trader.pc = "rec"
              /\ \E pc \in {"closeOrder", "unclose"} : Moved(pc, trader.rec, trader.todo, x)
         /\ CloseOrder =>
              /\ trader.pc = "closeOrder"
              /\ Moved("closePosition", trader.rec, trader.todo, trader.price)
         /\ ClosePosition =>
              /\ trader.pc = "closePosition"
              /\ Moved("closeRec", trader.rec, trader.todo, trader.price)
         /\ CloseRec =>
              /\ trader.pc = "closeRec"
              /\ Moved("closePnl", trader.rec, trader.todo, trader.price)
         /\ ClosePnl =>
              trader.pc = "closePnl" /\ Moved("note", trader.rec, trader.todo, trader.price)
         /\ RefuseClose =>
              trader.pc = "unclose" /\ Moved("reopen", trader.rec, trader.todo, trader.price)
         /\ HandlerRaises =>
              /\ trader.pc \in Handling
              /\ Moved("error", trader.rec, trader.todo, trader.price)
<1>1. ASSUME NEW pc, Goto(pc)
      PROVE  Moved(pc, trader.rec, trader.todo, trader.price)
  BY <1>1, GotoMoves DEF Moved
<1>2. NextRec => Moved("next", 0, trader.todo, 0)
  BY NextRecMoves DEF Moved
<1>3. TickStart \/ CountSlots => /\ trader.pc \in {"idle", "tick"}
                                 /\ \E pc \in {"tick", "eval"} :
                                      Moved(pc, trader.rec, trader.todo, trader.price)
  <2>1. CASE TickStart
    BY <2>1 DEF TickStart, At, Moved, TypeOK, TraderTypeOK
  <2>2. CASE CountSlots
    BY <2>2 DEF CountSlots, At, Moved, TypeOK, TraderTypeOK
  <2> QED
    BY <2>1, <2>2
<1>4. ASSUME NEW s \in Strategies, NEW l \in MaxLosses, Emit(s, l)
      PROVE  trader.pc = "eval" /\ Moved("eval", trader.rec, trader.todo, trader.price)
  BY <1>4 DEF Emit, At, Moved, TypeOK, TraderTypeOK
<1>5. ListPending => trader.pc \in {"tick", "eval"} /\ Moved("next", 0, PendingRecs, 0)
  BY DEF ListPending, IdleTrader, Moved
<1>6. ASSUME TakeRec
      PROVE  /\ trader.pc = "next"
             /\ \E r \in trader.todo : Moved("rec", r, trader.todo \ {r}, trader.price)
  <2>1. PICK r \in trader.todo :
          trader' = [trader EXCEPT !.pc = "rec", !.rec = r, !.todo = @ \ {r}]
    BY <1>6 DEF TakeRec
  <2>2. Moved("rec", r, trader.todo \ {r}, trader.price)
    BY <2>1 DEF Moved, TypeOK, TraderTypeOK
  <2> QED
    BY <1>6, <2>2 DEF TakeRec, At
<1>7. TickEnd \/ TickRaises =>
        trader.pc \in {"next", "tick", "eval", "error"} /\ Moved("idle", 0, {}, 0)
  BY DEF TickEnd, TickRaises, At, IdleTrader, Moved
<1>8. ASSUME NEW x \in Prices, Admit(x)
      PROVE  /\ trader.pc = "size"
             /\ \E pc \in {"paper", "draft", "live"} : Moved(pc, trader.rec, trader.todo, x)
  <2>1. trader.pc = "size" /\ trader.mode \in {"paper", "draft", "live"}
    BY <1>8 DEF Admit, At, Placed, TypeOK, TraderTypeOK, Modes
  <2>2. Moved(trader.mode, trader.rec, trader.todo, x)
    BY <1>8 DEF Admit, Moved, TypeOK, TraderTypeOK
  <2> QED
    BY <2>1, <2>2
<1>9. ASSUME NEW x \in Prices, CloseQuoted(x)
      PROVE  /\ trader.pc = "rec"
             /\ \E pc \in {"closeOrder", "unclose"} : Moved(pc, trader.rec, trader.todo, x)
  <2> DEFINE pc == IF trader.mode = "paper" THEN "closeOrder" ELSE "unclose"
  <2>1. trader.pc = "rec" /\ trader' = [trader EXCEPT !.pc = pc, !.price = x]
    BY <1>9 DEF CloseQuoted, At
  <2>2. pc \in {"closeOrder", "unclose"}
    OBVIOUS
  <2> HIDE DEF pc
  <2>3. Moved(pc, trader.rec, trader.todo, x)
    BY <2>1 DEF Moved, TypeOK, TraderTypeOK
  <2> QED
    BY <2>1, <2>2, <2>3
<1>10. Skips => NextRec
  BY DEF Skips, OpeningStaged, Refuse, RefuseLive, FillRec, MarkGone, CloseUnquoted,
     Reopen, Note, HandlerError
<1> QED
  BY <1>1, <1>2, <1>3, <1>4, <1>5, <1>6, <1>7, <1>8, <1>9, <1>10
     DEF OpeningFresh, StageDraft, FillOrder, FillPosition, CloseGone, CloseOrder,
         ClosePosition, CloseRec, ClosePnl, RefuseClose, HandlerRaises, At

(***************************************************************************)
(* Only a look that finds no active order leads to a handler that stages.  *)
(***************************************************************************)
LEMMA TraderStages ==
  ASSUME TypeOK, Placed, TraderWorks \/ TraderRaises \/ TickStart,
         trader'.pc \in BeforeOpening
  PROVE  /\ trader'.rec = trader.rec /\ orders' = orders
         /\ trader.pc \in BeforeOpening \/ ActiveOrders(trader.rec) = {}
<1>1. OpeningFresh \/ \E x \in Prices : Admit(x)
  BY TraderMoves DEF TraderWorks, TraderRaises, Skips, Moved, BeforeOpening
<1> QED
  BY <1>1, TraderMoves DEF OpeningFresh, Admit, Moved, BeforeOpening, deskVars

LEMMA ActiveAfter ==
  ASSUME TypeOK, Placed, OnePerson, DraftsStand, [Next]_vars, NEW r
  PROVE  \/ ActiveOrders(r)' \subseteq ActiveOrders(r)
         \/ StageDraft /\ r = trader.rec
            /\ ActiveOrders(r)' \subseteq ActiveOrders(r) \cup {Len(orders) + 1}
<1>1. CASE orders' = orders
  BY <1>1 DEF ActiveOrders
<1>2. CASE StageDraft \/ FillOrder \/ CloseOrder
  <2>1. /\ DOMAIN orders' = DOMAIN orders \cup {Len(orders) + 1}
        /\ \A n \in DOMAIN orders : orders'[n] = orders[n]
        /\ orders'[Len(orders) + 1].rec = trader.rec
        /\ orders'[Len(orders) + 1].status = (IF StageDraft THEN "draft" ELSE "filled")
    BY <1>2, OrderAdded
  <2> QED
    BY <2>1 DEF ActiveOrders
<1>3. ASSUME NEW o \in DOMAIN orders, UpdateOrder(o, "cancelled")
      PROVE  ActiveOrders(r)' \subseteq ActiveOrders(r)
  <2>1. /\ DOMAIN orders' = DOMAIN orders
        /\ orders'[o].status = "cancelled"
        /\ \A n \in DOMAIN orders : n # o => orders'[n] = orders[n]
    BY <1>3, UpdateOrderType DEF TypeOK
  <2> QED
    BY <2>1 DEF ActiveOrders
<1> QED
  BY <1>1, <1>2, <1>3, OrdersStaged

LEMMA NextStaging ==
  ASSUME TypeOK, Placed, Referred, OnePerson, Staging, [Next]_vars
  PROVE  Staging'
<1> USE DEF Staging
<1>0. TablesGrow /\ TypeOK'
  BY NextPlaced
<1>1. StagedOnce'
  <2> SUFFICES ASSUME NEW r \in DOMAIN recs', NEW o \in ActiveOrders(r)',
                      NEW n \in ActiveOrders(r)'
               PROVE  o = n
    BY DEF StagedOnce
  <2>1. \A a, b \in ActiveOrders(r) : a = b
    <3>1. r \notin DOMAIN recs => ActiveOrders(r) = {}
      BY DEF ActiveOrders, Referred
    <3> QED
      BY <3>1 DEF StagedOnce
  <2>2. CASE ActiveOrders(r)' \subseteq ActiveOrders(r)
    BY <2>1, <2>2
  <2>3. CASE /\ StageDraft /\ r = trader.rec
             /\ ActiveOrders(r)' \subseteq ActiveOrders(r) \cup {Len(orders) + 1}
    <3>1. ActiveOrders(r) = {}
      BY <2>3 DEF StageDraft, At, NoneStaged, BeforeOpening
    <3> QED
      BY <2>3, <3>1
  <2> QED
    BY <2>2, <2>3, ActiveAfter
<1>2. DraftsStand'
  <2>1. CASE Command
    <3>1. PICK h \in Operators : CommandBegins(h) \/ CommandWorks(h) \/ CommandDies(h)
      BY <2>1 DEF Command
    <3> QED
      BY <3>1, HumanMoves
  <2>2. CASE ~Command
    <3>1. human' = human
      BY <2>2 DEF Next, TraderBegins, TraderStep, TraderFails, ManagerBegins, ManagerStep,
         ManagerFails, ModeCommand, Crash, vars
    <3>2. \A n \in DOMAIN orders : n \in DOMAIN orders' /\ orders'[n] = orders[n]
      <4>1. CASE orders' = orders
        BY <4>1
      <4>2. CASE StageDraft \/ FillOrder \/ CloseOrder
        BY <4>2, OrderAdded
      <4>3. orders' = orders \/ StageDraft \/ FillOrder \/ CloseOrder
        <5>1. CASE TraderStep
          BY <5>1 DEF TraderStep, TraderWorks, CountSlots, ListPending, TakeRec, TickEnd,
             Emit, OpeningStaged, OpeningFresh, Refuse, RefuseLive, Admit, FillPosition,
             FillRec, CloseGone, MarkGone, CloseUnquoted, CloseQuoted, ClosePosition,
             CloseRec, ClosePnl, RefuseClose, Reopen, Note, HandlerError, deskVars
        <5>2. CASE ~TraderStep
          BY <2>2, <5>2 DEF Next, TraderBegins, TickStart, TraderFails, TraderRaises,
             HandlerRaises, TickRaises, ManagerBegins, ManagerStep, ManagerFails,
             ListPositions, ManagerWorks, PassedOver, EmitClose, SetClosing, ScanEnd,
             ManagerRaises, ModeCommand, SetMode, Crash, deskVars, vars
        <5> QED
          BY <5>1, <5>2
      <4> QED
        BY <4>1, <4>2, <4>3
    <3> QED
      BY <3>1, <3>2 DEF DraftsStand, HasDraft
  <2> QED
    BY <2>1, <2>2
<1>3. NoneStaged'
  <2> SUFFICES ASSUME trader'.pc \in BeforeOpening
               PROVE  ActiveOrders(trader.rec)' = {}
    BY DEF NoneStaged
  <2>1. ASSUME NEW r, r = trader.rec, trader'.rec = r, ActiveOrders(r) = {}, ~StageDraft
        PROVE  ActiveOrders(trader.rec)' = {}
    <3>1. ActiveOrders(r)' = {}
      BY <2>1, ActiveAfter
    <3>2. ActiveOrders(r)' = ActiveOrders(trader.rec)'
      BY <2>1 DEF ActiveOrders
    <3> QED
      BY <3>1, <3>2
  <2>2. CASE TraderBegins \/ TraderStep \/ TraderFails
    <3>1. TraderWorks \/ TraderRaises \/ TickStart
      BY <2>2 DEF TraderBegins, TraderStep, TraderFails
    <3>2. trader'.rec = trader.rec /\ ActiveOrders(trader.rec) = {} /\ orders' = orders
      BY <3>1, TraderStages DEF NoneStaged
    <3> QED
      BY <3>2 DEF ActiveOrders
  <2>3. CASE trader' = trader
    <3>1. ActiveOrders(trader.rec) = {} /\ ~StageDraft
      BY <2>3, TraderMoves DEF NoneStaged, Moved, BeforeOpening
    <3> QED
      BY <2>1, <2>3, <3>1
  <2>4. ~Crash
    BY DEF Crash, IdleTrader, BeforeOpening
  <2> QED
    BY <2>2, <2>3, <2>4 DEF Next, ManagerBegins, ManagerStep, ManagerFails, ModeCommand,
       Command, vars
<1> QED
  BY <1>1, <1>2, <1>3

(***************************************************************************)
(* With one person at work, a recommendation never has two draft orders.   *)
(***************************************************************************)
THEOREM StagesOnce == OnePerson => (Spec => []StagedOnce)
<1> SUFFICES ASSUME OnePerson
             PROVE  Spec => []StagedOnce
  OBVIOUS
<1> DEFINE IInv == TypeOK /\ Placed /\ Referred /\ Staging
<1>1. Init => IInv
  <2> SUFFICES ASSUME Init PROVE IInv
    OBVIOUS
  <2>1. recs = << >> /\ orders = << >> /\ trader.pc = "idle"
    BY DEF Init, DeskInit, TraderInit, IdleTrader
  <2>2. \A h \in Operators : human[h].pc = "idle"
    BY DEF Init, HumanInit, IdleHuman
  <2>3. Referred /\ Staging
    BY <2>1, <2>2 DEF Referred, Staging, StagedOnce, DraftsStand, HasDraft, NoneStaged,
       BeforeOpening
  <2> QED
    BY <2>3, InitPlaced
<1>2. IInv /\ [Next]_vars => IInv'
  BY NextPlaced, NextReferred, NextStaging
<1>3. IInv => StagedOnce
  BY DEF Staging
<1> QED
  BY <1>1, <1>2, <1>3, PTL DEF Spec

-----------------------------------------------------------------------------
(* What a step does to the other tables *)

(***************************************************************************)
(* A write of a position leaves what it was opened as alone.               *)
(***************************************************************************)
LEMMA PositionWritten ==
  ASSUME DeskTypeOK, NEW p \in DOMAIN positions, NEW realized \in Int,
         NEW status \in {"open", "closing", "closed"},
         UpdatePosition(p, status, realized)
  PROVE  /\ DOMAIN positions' = DOMAIN positions
         /\ positions'[p].status = status
         /\ positions'[p].realized = (IF status = "closed" THEN realized ELSE 0)
         /\ positions'[p].debit = positions[p].debit
         /\ positions'[p].strategy = positions[p].strategy
         /\ \A q \in DOMAIN positions : q # p => positions'[q] = positions[q]
<1> DEFINE gain == IF status = "closed" THEN realized ELSE 0
           row == [positions[p] EXCEPT !.status = status, !.realized = gain]
<1>1. positions \in Seq(Position) /\ positions[p] \in Position
  BY DEF DeskTypeOK
<1>2. positions' = [positions EXCEPT ![p] = row]
  BY DEF UpdatePosition
<1>3. /\ row.status = status /\ row.realized = gain /\ row.debit = positions[p].debit
      /\ row.strategy = positions[p].strategy
  <2> HIDE DEF gain
  <2> QED
    BY <1>1 DEF Position
<1>4. /\ DOMAIN positions' = DOMAIN positions /\ positions'[p] = row
      /\ \A q \in DOMAIN positions : q # p => positions'[q] = positions[q]
  <2> HIDE DEF row
  <2> QED
    BY <1>1, <1>2
<1> HIDE DEF row
<1> QED
  BY <1>3, <1>4

LEMMA PositionAdded ==
  ASSUME TypeOK, Placed, FillPosition
  PROVE  LET p == Len(positions) + 1
         IN  /\ p \notin DOMAIN positions /\ DOMAIN positions' = DOMAIN positions \cup {p}
             /\ \A q \in DOMAIN positions : positions'[q] = positions[q]
             /\ positions'[p].debit = trader.price /\ positions'[p].status = "open"
             /\ positions'[p].realized = 0
             /\ positions'[p].strategy = recs[trader.rec].source
<1> DEFINE row == [rec |-> trader.rec, strategy |-> recs[trader.rec].source,
                   debit |-> trader.price, realized |-> 0, status |-> "open"]
<1>1. positions \in Seq(Position) /\ positions' = Append(positions, row)
  BY DEF TypeOK, DeskTypeOK, FillPosition, InsertPosition
<1>2. /\ row.debit = trader.price /\ row.status = "open" /\ row.realized = 0
      /\ row.strategy = recs[trader.rec].source
  OBVIOUS
<1> HIDE DEF row
<1>3. LET p == Len(positions) + 1
      IN  /\ p \notin DOMAIN positions /\ DOMAIN positions' = DOMAIN positions \cup {p}
          /\ \A q \in DOMAIN positions : positions'[q] = positions[q]
          /\ positions'[p] = row
  BY <1>1
<1> QED
  BY <1>2, <1>3

(***************************************************************************)
(* Who writes the positions.                                               *)
(***************************************************************************)
LEMMA PositionSteps ==
  ASSUME [Next]_vars
  PROVE  \/ positions' = positions
         \/ TraderStep /\ (FillPosition \/ ClosePosition \/ Reopen)
         \/ ManagerStep /\ SetClosing
<1>1. CASE TraderStep
  BY <1>1 DEF TraderStep, TraderWorks, CountSlots, ListPending, TakeRec, TickEnd,
     Emit, OpeningStaged, OpeningFresh, Refuse, RefuseLive, Admit, StageDraft, FillOrder,
     FillRec, CloseGone, MarkGone, CloseUnquoted, CloseQuoted, CloseOrder, CloseRec,
     ClosePnl, RefuseClose, Note, HandlerError, deskVars
<1>2. CASE Command
  BY <1>2 DEF Command, CommandBegins, CommandWorks, ReadRec, ReadOrder, NoOrder, ApproveRec,
     ApproveOrder, CancelOrder, RejectRec, CommandDies, deskVars
<1>3. CASE TraderBegins \/ TraderFails \/ ManagerBegins \/ ManagerStep \/ ManagerFails
             \/ ModeCommand \/ Crash \/ UNCHANGED vars
  BY <1>3 DEF TraderBegins, TickStart, TraderFails, TraderRaises, HandlerRaises, TickRaises,
     ManagerBegins, ManagerStep, ManagerFails, ListPositions, ManagerWorks, PassedOver,
     EmitClose, ScanEnd, ManagerRaises, ModeCommand, SetMode, Crash, deskVars, vars
<1> QED
  BY <1>1, <1>2, <1>3 DEF Next

(***************************************************************************)
(* Who writes the recommendations, and what a new one is.                  *)
(***************************************************************************)
LEMMA RecSteps ==
  ASSUME TypeOK, [Next]_vars
  PROVE  \/ recs' = recs
         \/ \E r : \E status \in {"approved", "rejected", "executed"} : UpdateRec(r, status)
         \/ \E s \in Strategies, l \in MaxLosses : TraderStep /\ Emit(s, l)
         \/ ManagerStep /\ EmitClose
<1>1. CASE TraderStep
  <2>1. CASE Refuse \/ RefuseLive \/ FillRec \/ MarkGone \/ CloseRec \/ RefuseClose
               \/ HandlerError
    BY <2>1 DEF Refuse, RefuseLive, FillRec, MarkGone, CloseRec, RefuseClose, HandlerError
  <2> QED
    BY <1>1, <2>1 DEF TraderStep, TraderWorks, CountSlots, ListPending, TakeRec, TickEnd,
       OpeningStaged, OpeningFresh, Admit, StageDraft, FillOrder, FillPosition, CloseGone,
       CloseUnquoted, CloseQuoted, CloseOrder, ClosePosition, ClosePnl, Reopen, Note, deskVars
<1>2. CASE Command
  BY <1>2 DEF Command, CommandBegins, CommandWorks, ReadRec, ReadOrder, NoOrder, ApproveRec,
     ApproveOrder, CancelOrder, RejectRec, CommandDies, deskVars
<1>3. CASE TraderBegins \/ TraderFails \/ ManagerBegins \/ ManagerStep \/ ManagerFails
             \/ ModeCommand \/ Crash \/ UNCHANGED vars
  BY <1>3 DEF TraderBegins, TickStart, TraderFails, TraderRaises, HandlerRaises, TickRaises,
     ManagerBegins, ManagerStep, ManagerFails, ListPositions, ManagerWorks, PassedOver,
     SetClosing, ScanEnd, ManagerRaises, ModeCommand, SetMode, Crash, deskVars, vars
<1> QED
  BY <1>1, <1>2, <1>3 DEF Next

LEMMA RecAdded ==
  ASSUME TypeOK, [Next]_vars, NEW r \in DOMAIN recs', r \notin DOMAIN recs
  PROVE  \/ recs'[r].source # PositionManager
         \/ /\ ManagerStep /\ EmitClose /\ r = Len(recs) + 1
            /\ recs'[r].position = manager'.position
<1>1. ASSUME NEW source \in Strategies \cup {PositionManager}, NEW position \in Nat,
             NEW maxLoss \in Nat, InsertRec(source, position, maxLoss)
      PROVE  recs'[r].source = source /\ recs'[r].position = position /\ r = Len(recs) + 1
  <2> DEFINE row == [source |-> source, position |-> position,
                     maxLoss |-> maxLoss, status |-> "pending"]
  <2>1. row.source = source /\ row.position = position
    OBVIOUS
  <2>2. recs \in Seq(Recommendation) /\ recs' = Append(recs, row)
    BY <1>1 DEF InsertRec, TypeOK, DeskTypeOK
  <2> HIDE DEF row
  <2>3. r = Len(recs) + 1 /\ recs'[r] = row
    BY <2>2
  <2> QED
    BY <2>1, <2>3
<1>2. ASSUME NEW s \in Strategies, NEW l \in MaxLosses, Emit(s, l)
      PROVE  recs'[r].source # PositionManager
  BY <1>1, <1>2, DeskAssumption DEF Emit
<1>3. ASSUME ManagerStep, EmitClose
      PROVE  r = Len(recs) + 1 /\ recs'[r].position = manager'.position
  <2>1. PICK p \in manager.todo :
          /\ InsertRec(PositionManager, p, 0)
          /\ manager' = [manager EXCEPT !.pc = "closing", !.todo = @ \ {p}, !.position = p]
    BY <1>3 DEF EmitClose
  <2>2. p \in Nat /\ manager'.position = p
    BY <2>1, Lengths DEF TypeOK, ManagerTypeOK
  <2> QED
    BY <1>1, <2>1, <2>2
<1>4. ASSUME NEW q, NEW status, UpdateRec(q, status)
      PROVE  FALSE
  BY <1>4 DEF UpdateRec, TypeOK, DeskTypeOK
<1> QED
  BY <1>2, <1>3, <1>4, RecSteps

-----------------------------------------------------------------------------
(* One exit at a time *)

(***************************************************************************)
(* A recommendation that the trader may still act upon, or has filled.     *)
(***************************************************************************)
Alive(r) ==
  \/ recs[r].status = "pending" \/ r \in trader.todo \/ trader.rec = r \/ Filled(r)

AliveCloses(p) == {r \in DOMAIN recs : /\ ~IsOpening(r)
                                       /\ recs[r].position = p
                                       /\ Alive(r)}

(***************************************************************************)
(* A position has one such closing recommendation.  It has none when the   *)
(* manager's list holds the position, and while it is open only the one    *)
(* that the manager inserted just now.                                     *)
(***************************************************************************)
OneExit ==
  /\ \A p \in DOMAIN positions : \A r, q \in AliveCloses(p) : r = q
  /\ \A p \in manager.todo : AliveCloses(p) = {}
  /\ \A p \in DOMAIN positions :
       positions[p].status = "open" /\ AliveCloses(p) # {} =>
         manager.pc = "closing" /\ manager.position = p
  /\ \A r \in DOMAIN recs : ~IsOpening(r) => recs[r].position \in DOMAIN positions
  /\ manager.pc = "closing" => manager.position \in DOMAIN positions
  /\ trader.pc = "reopen" => /\ trader.rec \notin trader.todo /\ ~Filled(trader.rec)
                             /\ recs[trader.rec].status # "pending"

OneExitAlive == crashes = 0 /\ faults = 0 => OneExit

LEMMA AliveStays ==
  ASSUME TypeOK, Placed, [Next]_vars, NEW r \in DOMAIN recs, Alive(r)'
  PROVE  Alive(r)
<1>1. recs'[r].status = "pending" => recs[r].status = "pending"
  BY NeverPendingAgain
<1>2. r \in Nat \ {0}
  BY Lengths DEF TypeOK
<1>3. Filled(r)' => Filled(r) \/ trader.rec = r
  <2>1. CASE FillOrder \/ CloseOrder
    BY <2>1, OrderAdded DEF Filled, FilledOrders
  <2>2. CASE ~FillOrder /\ ~CloseOrder
    BY <1>2, <2>2, FilledKept DEF Filled
  <2> QED
    BY <2>1, <2>2
<1>4. r \in trader'.todo \/ trader'.rec = r =>
        r \in trader.todo \/ trader.rec = r \/ recs[r].status = "pending"
  <2>1. CASE TraderBegins \/ TraderStep \/ TraderFails
    <3>1. TraderWorks \/ TraderRaises \/ TickStart
      BY <2>1 DEF TraderBegins, TraderStep, TraderFails
    <3> QED
      BY <1>2, <3>1, TraderMoves DEF TraderWorks, TraderRaises, Skips, Moved, PendingRecs
  <2>2. CASE Crash
    BY <1>2, <2>2 DEF Crash, IdleTrader
  <2> QED
    BY <2>1, <2>2 DEF Next, ManagerBegins, ManagerStep, ManagerFails, ModeCommand,
       Command, vars
<1> QED
  BY <1>1, <1>3, <1>4 DEF Alive

(***************************************************************************)
(* A recommendation that is alive was, or the manager inserts it now.      *)
(***************************************************************************)
LEMMA AliveClosesAfter ==
  ASSUME TypeOK, Placed, Referred, [Next]_vars, NEW p
  PROVE  \/ AliveCloses(p)' \subseteq AliveCloses(p)
         \/ /\ ManagerStep /\ EmitClose /\ p = manager'.position
            /\ AliveCloses(p)' \subseteq AliveCloses(p) \cup {Len(recs) + 1}
<1>1. TablesGrow
  BY NextPlaced
<1>2. ASSUME NEW r \in AliveCloses(p)', r \in DOMAIN recs
      PROVE  r \in AliveCloses(p)
  BY <1>1, <1>2, AliveStays DEF AliveCloses, TablesGrow, IsOpening
<1>3. ASSUME NEW r \in AliveCloses(p)', r \notin DOMAIN recs
      PROVE  /\ ManagerStep /\ EmitClose /\ p = manager'.position
             /\ r = Len(recs) + 1
  BY <1>3, RecAdded DEF AliveCloses, IsOpening
<1> QED
  BY <1>2, <1>3

LEMMA NextOneExit ==
  ASSUME TypeOK, Placed, Referred, FillsDone, OneExit, [Next]_vars,
         crashes' = crashes, faults' = faults
  PROVE  OneExit'
<1>0. TypeOK' /\ TablesGrow
  BY NextPlaced
<1>1. ~ManagerFails /\ ~Crash
  BY DEF ManagerFails, ManagerRaises, Crash, TypeOK, DeskTypeOK
<1>m. /\ manager \in [pc : {"idle", "scan", "closing"}, todo : SUBSET DOMAIN positions,
                      position : 0 .. Len(positions)]
      /\ positions \in Seq(Position)
  BY DEF TypeOK, ManagerTypeOK, DeskTypeOK
<1>2. CASE ManagerStep /\ EmitClose
  <2>1. PICK p \in manager.todo :
          /\ manager' = [manager EXCEPT !.pc = "closing", !.todo = @ \ {p}, !.position = p]
          /\ InsertRec(PositionManager, p, 0)
    BY <1>2 DEF EmitClose
  <2>2. /\ manager'.pc = "closing" /\ manager'.todo = manager.todo \ {p}
        /\ manager'.position = p /\ p \in DOMAIN positions
        /\ positions' = positions /\ trader' = trader /\ manager.pc = "scan"
        /\ orders' = orders
    BY <1>2, <1>m, <2>1 DEF ManagerStep, EmitClose
  <2>3. AliveCloses(p) = {}
    BY DEF OneExit
  <2>4. ASSUME NEW q
        PROVE  IF q = p THEN AliveCloses(q)' \subseteq {Len(recs) + 1}
                        ELSE AliveCloses(q)' \subseteq AliveCloses(q)
    BY <2>2, <2>3, AliveClosesAfter
  <2>5. \A q \in DOMAIN positions' : \A r, s \in AliveCloses(q)' : r = s
    BY <2>2, <2>4 DEF OneExit
  <2>6. \A q \in manager'.todo : AliveCloses(q)' = {}
    BY <2>2, <2>4 DEF OneExit
  <2>7. \A q \in DOMAIN positions' :
          positions'[q].status = "open" /\ AliveCloses(q)' # {} => q = p
    BY <2>2, <2>4 DEF OneExit
  <2>8. \A r \in DOMAIN recs' : ~IsOpening(r)' => recs'[r].position \in DOMAIN positions'
    BY <1>0, <2>2, RecAdded DEF OneExit, TablesGrow, IsOpening
  <2>9. trader'.pc = "reopen" =>
          /\ trader'.rec \notin trader'.todo /\ ~Filled(trader.rec)'
          /\ recs'[trader'.rec].status # "pending"
    <3>1. trader.pc = "reopen" => trader.rec \in DOMAIN recs
      BY DEF Placed, Handling
    <3> QED
      BY <2>2, <3>1, NeverPendingAgain DEF OneExit, Filled, FilledOrders
  <2> QED
    BY <2>2, <2>5, <2>6, <2>7, <2>8, <2>9 DEF OneExit
<1>3. CASE ~(ManagerStep /\ EmitClose)
  <2>1. ASSUME NEW q
        PROVE  AliveCloses(q)' \subseteq AliveCloses(q)
    BY <1>3, AliveClosesAfter
  <2>2. \A r \in DOMAIN recs' : ~IsOpening(r)' => recs'[r].position \in DOMAIN positions'
    BY <1>0, <1>3, RecAdded DEF OneExit, TablesGrow, IsOpening
  <2>3. \A q \in DOMAIN positions' : \A r, s \in AliveCloses(q)' : r = s
    <3> SUFFICES ASSUME NEW q \in DOMAIN positions', NEW r \in AliveCloses(q), 
                        NEW s \in AliveCloses(q)
                 PROVE  r = s
      BY <2>1
    <3>1. q \in DOMAIN positions
      BY DEF AliveCloses, OneExit
    <3> QED
      BY <3>1 DEF OneExit
  <2>4. trader'.pc = "reopen" =>
          /\ trader'.rec \notin trader'.todo /\ ~Filled(trader.rec)'
          /\ recs'[trader'.rec].status # "pending"
    <3> SUFFICES ASSUME trader'.pc = "reopen"
                 PROVE  /\ trader'.rec \notin trader'.todo /\ ~Filled(trader.rec)'
                        /\ recs'[trader'.rec].status # "pending"
      OBVIOUS
    <3>1. CASE TraderBegins \/ TraderStep \/ TraderFails
      <4>1. TraderWorks \/ TraderRaises \/ TickStart
        BY <3>1 DEF TraderBegins, TraderStep, TraderFails
      <4>2. RefuseClose
        BY <4>1, TraderMoves DEF TraderWorks, TraderRaises, Skips, Moved
      <4>3. /\ UpdateRec(trader.rec, "rejected") /\ orders' = orders
            /\ trader.rec \in DOMAIN recs /\ trader.pc = "unclose"
            /\ trader'.rec = trader.rec /\ trader'.todo = trader.todo
        BY <4>2, TraderMoves DEF RefuseClose, At, Placed, Handling, Moved
      <4>4. recs'[trader.rec].status = "rejected"
        BY <4>3, UpdateRecType DEF TypeOK
      <4>5. trader.rec \notin trader.todo /\ ~Filled(trader.rec)
        BY <4>3 DEF FillsDone, Unfilled
      <4> QED
        BY <4>3, <4>4, <4>5 DEF Filled, FilledOrders
    <3>2. CASE trader' = trader
      <4>1. /\ trader.rec \in DOMAIN recs /\ ~FillOrder /\ ~CloseOrder
            /\ trader.rec \in Nat
        BY <3>2, Lengths, TraderMoves DEF Placed, Handling, Moved, TypeOK
      <4>2. FilledOrders(trader.rec)' \subseteq FilledOrders(trader.rec)
        <5>1. \A r \in Nat : r = trader.rec => FilledOrders(trader.rec)' = FilledOrders(r)'
          BY <3>2 DEF FilledOrders
        <5> QED
          BY <4>1, <5>1, FilledKept
      <4> QED
        BY <3>2, <4>1, <4>2, NeverPendingAgain DEF OneExit, Filled
    <3> QED
      BY <1>1, <3>1, <3>2 DEF Next, ManagerBegins, ManagerStep, ManagerFails, ModeCommand,
         Command, vars
  <2>5. /\ \A q \in manager'.todo : AliveCloses(q)' = {}
        /\ manager'.pc = "closing" => /\ manager'.position \in DOMAIN positions'
                                       /\ manager.pc = "closing"
                                       /\ manager'.position = manager.position
    <3>1. CASE manager' = manager
      BY <1>0, <2>1, <3>1 DEF OneExit, TablesGrow
    <3>2. CASE ManagerBegins
      <4>1. /\ manager'.todo = {p \in DOMAIN positions : positions[p].status = "open"}
            /\ manager'.pc = "scan" /\ manager.pc = "idle"
        BY <3>2 DEF ManagerBegins, ListPositions, IdleManager
      <4> QED
        BY <2>1, <4>1 DEF OneExit
    <3>3. CASE PassedOver
      <4>1. PICK p \in manager.todo : manager' = [manager EXCEPT !.todo = @ \ {p}]
        BY <3>3 DEF PassedOver
      <4>2. manager'.todo \subseteq manager.todo /\ manager'.pc = "scan"
        BY <1>m, <3>3, <4>1 DEF PassedOver
      <4> QED
        BY <2>1, <4>2 DEF OneExit
    <3>4. CASE SetClosing \/ ScanEnd
      <4>1. manager'.todo \subseteq manager.todo /\ manager'.pc # "closing"
        <5>1. CASE SetClosing
          BY <1>m, <5>1 DEF SetClosing
        <5>2. CASE ScanEnd
          BY <5>2 DEF ScanEnd, IdleManager
        <5> QED
          BY <3>4, <5>1, <5>2
      <4> QED
        BY <2>1, <4>1 DEF OneExit
    <3> QED
      BY <1>1, <1>3, <3>1, <3>2, <3>3, <3>4 DEF Next, TraderBegins, TraderStep, TraderFails,
         ManagerStep, ManagerWorks, ModeCommand, Command, vars
  <2>6. \A p \in DOMAIN positions' :
          positions'[p].status = "open" /\ AliveCloses(p)' # {} =>
            manager'.pc = "closing" /\ manager'.position = p
    <3> SUFFICES ASSUME NEW p \in DOMAIN positions', positions'[p].status = "open",
                        AliveCloses(p)' # {}
                 PROVE  manager'.pc = "closing" /\ manager'.position = p
      OBVIOUS
    <3>1. AliveCloses(p) # {} /\ p \in DOMAIN positions
      BY <2>1 DEF AliveCloses, OneExit
    <3>2. CASE TraderStep /\ Reopen
      <4>1. /\ UpdatePosition(Closing, "open", 0) /\ Closing \in DOMAIN positions
            /\ manager' = manager /\ trader.rec \in DOMAIN recs
            /\ trader'.rec = 0 /\ trader'.todo = trader.todo /\ recs' = recs
            /\ orders' = orders /\ trader.pc = "reopen" /\ ~IsOpening(trader.rec)
        BY <3>2, TraderMoves DEF Reopen, TraderStep, At, Placed, DuringClosing, Handling,
           Skips, Moved
      <4>2. CASE p # Closing
        <5>1. positions'[p] = positions[p]
          BY <3>1, <4>1, <4>2, PositionWritten DEF TypeOK
        <5> QED
          BY <3>1, <4>1, <5>1 DEF OneExit
      <4>3. CASE p = Closing
        <5>1. trader.rec \in AliveCloses(p)
          BY <4>1, <4>3 DEF AliveCloses, Alive, Closing
        <5>2. AliveCloses(p) = {trader.rec}
          BY <3>1, <5>1 DEF OneExit
        <5>3. trader.rec \notin AliveCloses(p)'
          BY <4>1, Lengths DEF AliveCloses, Alive, OneExit, Filled, FilledOrders, TypeOK
        <5> QED
          BY <2>1, <5>2, <5>3
      <4> QED
        BY <4>2, <4>3
    <3>3. CASE ManagerStep /\ SetClosing
      <4>1. /\ UpdatePosition(manager.position, "closing", 0) /\ manager.pc = "closing"
        BY <3>3 DEF SetClosing
      <4>2. manager.position \in DOMAIN positions
        BY <4>1 DEF OneExit
      <4>3. positions'[manager.position].status = "closing"
            /\ \A q \in DOMAIN positions : q # manager.position => positions'[q] = positions[q]
        BY <4>1, <4>2, PositionWritten DEF TypeOK
      <4> QED
        BY <3>1, <4>3 DEF OneExit
    <3>4. CASE ~(TraderStep /\ Reopen) /\ ~(ManagerStep /\ SetClosing)
      <4>1. positions[p].status = "open"
        <5>1. CASE FillPosition
          BY <3>1, <5>1, PositionAdded
        <5>2. CASE ClosePosition
          <6>1. Closing \in DOMAIN positions /\ UpdatePosition(Closing, "closed", Realized)
                /\ Realized \in Int
            BY <5>2, RealizedType DEF ClosePosition, At, Placed, DuringClosing
          <6> QED
            BY <3>1, <6>1, PositionWritten DEF TypeOK
        <5> QED
          BY <3>4, <5>1, <5>2, PositionSteps
      <4>2. manager.pc = "closing" /\ manager.position = p
        BY <3>1, <4>1 DEF OneExit
      <4>3. manager' = manager
        BY <1>1, <3>4, <4>2 DEF Next, TraderBegins, TraderStep, TraderFails,
           ManagerBegins, ListPositions, ManagerStep, ManagerWorks, PassedOver, EmitClose,
           ScanEnd, ModeCommand, Command, vars
      <4> QED
        BY <4>2, <4>3
    <3> QED
      BY <3>2, <3>3, <3>4
  <2> QED
    BY <2>2, <2>3, <2>4, <2>5, <2>6 DEF OneExit
<1> QED
  BY <1>2, <1>3

LEMMA NextOneExitAlive ==
  ASSUME TypeOK, Placed, Referred, FilledOnce, OneExitAlive, [Next]_vars
  PROVE  OneExitAlive'
<1> SUFFICES ASSUME crashes' = 0, faults' = 0
             PROVE  OneExit'
  BY DEF OneExitAlive
<1>1. /\ crashes \in Nat /\ faults \in Nat
      /\ crashes' >= crashes /\ faults' >= faults
  BY CountersGrow, DeskAssumption DEF TypeOK, DeskTypeOK
<1>2. crashes = 0 /\ faults = 0
  BY <1>1
<1> QED
  BY <1>2, NextOneExit DEF FilledOnce, OneExitAlive

(***************************************************************************)
(* A position is sold once as long as nothing fails, although the manager  *)
(* decides on a stale list and the trader works off another stale list.    *)
(***************************************************************************)
THEOREM ClosesOnce == Spec => []ClosedOnce
<1> DEFINE IInv == TypeOK /\ Placed /\ Referred /\ FilledOnce /\ OneExitAlive
<1>1. Init => IInv
  <2> SUFFICES ASSUME Init PROVE IInv
    OBVIOUS
  <2>1. recs = << >> /\ orders = << >> /\ trader.pc = "idle" /\ positions = << >>
    BY DEF Init, DeskInit, TraderInit, IdleTrader
  <2>2. manager.pc = "idle" /\ manager.todo = {}
    BY DEF Init, ManagerInit, IdleManager
  <2>3. Referred /\ FilledOnce /\ OneExitAlive
    BY <2>1, <2>2 DEF Referred, FilledOnce, FillsDone, Filled, FilledOrders, Unfilled,
       OneExitAlive, OneExit, AliveCloses
  <2> QED
    BY <2>3, InitPlaced
<1>2. IInv /\ [Next]_vars => IInv'
  BY NextPlaced, NextReferred, NextFilledOnce, NextOneExitAlive
<1>3. IInv => ClosedOnce
  <2> SUFFICES ASSUME IInv, crashes = 0, faults = 0, NEW o \in ClosingFills,
                      NEW n \in ClosingFills, ClosedBy(o) = ClosedBy(n)
               PROVE  o = n
    BY DEF ClosedOnce
  <2>1. FillsDone /\ OneExit
    BY DEF FilledOnce, OneExitAlive
  <2> DEFINE r == orders[o].rec
             q == orders[n].rec
             p == ClosedBy(o)
  <2>2. /\ r \in DOMAIN recs /\ q \in DOMAIN recs /\ o \in FilledOrders(r)
        /\ n \in FilledOrders(q) /\ ~IsOpening(r) /\ ~IsOpening(q)
        /\ recs[r].position = p /\ recs[q].position = p
    BY DEF ClosingFills, ClosedBy, Referred, FilledOrders
  <2> HIDE DEF r, q, p
  <2>3. r \in AliveCloses(p) /\ q \in AliveCloses(p) /\ p \in DOMAIN positions
    BY <2>1, <2>2 DEF AliveCloses, Alive, Filled, OneExit
  <2>4. r = q
    BY <2>1, <2>3 DEF OneExit
  <2> QED
    BY <2>1, <2>2, <2>4 DEF FillsDone
<1> QED
  BY <1>1, <1>2, <1>3, PTL DEF Spec

-----------------------------------------------------------------------------
(* Filled orders stay filled *)

(***************************************************************************)
(* The order a person is about to write is not a filled one, whoever else  *)
(* has written it meanwhile: a draft is never filled.                      *)
(***************************************************************************)
FillsSafe ==
  \A h \in Operators : HasDraft(h) =>
    /\ human[h].order \in DOMAIN orders
    /\ orders[human[h].order].status # "filled"

LEMMA HumanWrites ==
  ASSUME TypeOK, FillsSafe, NEW h \in Operators,
         CommandBegins(h) \/ CommandWorks(h) \/ CommandDies(h)
  PROVE  /\ \A k \in Operators : k # h => human'[k] = human[k]
         /\ \/ orders' = orders
            \/ \E o \in DOMAIN orders, status \in {"draft", "cancelled"} :
                 UpdateOrder(o, status) /\ orders[o].status # "filled"
         /\ HasDraft(h)' => /\ human'[h].order \in DOMAIN orders
                            /\ orders[human'[h].order].status # "filled"
<1>2. human[h] \in [pc : {"idle", "order", "writeOrder", "writeRec"},
                    act : {"approve", "reject"}, rec : 0 .. Len(recs),
                    order : 0 .. Len(orders)]
      /\ human \in [Operators -> [pc : {"idle", "order", "writeOrder", "writeRec"},
                    act : {"approve", "reject"}, rec : 0 .. Len(recs),
                    order : 0 .. Len(orders)]]
  BY DEF TypeOK, HumanTypeOK
<1>3. HasDraft(h) => human[h].order \in DOMAIN orders
                     /\ orders[human[h].order].status # "filled"
  BY DEF FillsSafe
<1>4. \A k \in Operators : k # h => human'[k] = human[k]
  BY <1>2 DEF CommandBegins, CommandWorks, CommandDies, ReadRec, ReadOrder, NoOrder,
     ApproveRec, ApproveOrder, CancelOrder, RejectRec
<1>5. ASSUME NEW act \in {"approve", "reject"}, NEW r \in DOMAIN recs, ReadRec(h, act, r)
      PROVE  human'[h].pc = "order" /\ orders' = orders
  BY <1>2, <1>5 DEF ReadRec, IdleHuman, deskVars
<1>6. CASE CommandBegins(h)
  BY <1>4, <1>5, <1>6 DEF CommandBegins, HasDraft
<1>7. CASE ReadOrder(h)
  <2>1. PICK o \in DOMAIN orders :
          /\ LatestOrder(o, human[h].rec)
          /\ human' = [human EXCEPT
               ![h].order = o,
               ![h].pc = IF human[h].act = "approve" THEN "writeRec" ELSE "writeOrder"]
    BY <1>7 DEF ReadOrder
  <2>2. orders[o].status = "draft" /\ orders' = orders
    BY <1>7, <2>1 DEF LatestOrder, ActiveOrders, ReadOrder, deskVars
  <2>3. human'[h].order = o
    BY <1>2, <2>1
  <2> QED
    BY <1>4, <2>2, <2>3
<1>8. CASE NoOrder(h) \/ CommandDies(h) \/ RejectRec(h)
  <2>1. /\ orders' = orders
        /\ \/ human'[h].pc = "idle"
           \/ human'[h].pc = "writeRec" /\ human'[h].act = "reject"
    <3>1. CASE NoOrder(h)
      <4>1. CASE human[h].act = "approve"
        BY <1>2, <3>1, <4>1 DEF NoOrder, IdleHuman, deskVars
      <4>2. CASE human[h].act = "reject"
        <5>1. orders' = orders
              /\ human' = [human EXCEPT ![h] = [human[h] EXCEPT !.pc = "writeRec"]]
          BY <3>1, <4>2 DEF NoOrder, deskVars
        <5>2. human'[h] = [human[h] EXCEPT !.pc = "writeRec"]
          BY <1>2, <5>1
        <5> QED
          BY <1>2, <4>2, <5>1, <5>2
      <4> QED
        BY <1>2, <4>1, <4>2
    <3>2. CASE CommandDies(h) \/ RejectRec(h)
      BY <1>2, <3>2 DEF CommandDies, RejectRec, IdleHuman
    <3> QED
      BY <1>8, <3>1, <3>2
  <2> QED
    BY <1>4, <2>1 DEF HasDraft
<1>9. CASE ApproveRec(h)
  <2>1. orders' = orders /\ human'[h].order = human[h].order /\ HasDraft(h)
    BY <1>2, <1>9 DEF ApproveRec, HasDraft
  <2> QED
    BY <1>3, <1>4, <2>1
<1>10. CASE ApproveOrder(h) \/ CancelOrder(h)
  <2>1. HasDraft(h) /\ ~HasDraft(h)'
    BY <1>2, <1>10 DEF ApproveOrder, CancelOrder, HasDraft, IdleHuman
  <2>2. \E status \in {"draft", "cancelled"} : UpdateOrder(human[h].order, status)
    BY <1>10 DEF ApproveOrder, CancelOrder
  <2> QED
    BY <1>3, <1>4, <2>1, <2>2
<1> QED
  BY <1>6, <1>7, <1>8, <1>9, <1>10 DEF CommandWorks

(***************************************************************************)
(* What a step does to the orders, whoever is at work.                     *)
(***************************************************************************)
LEMMA OrdersWritten ==
  ASSUME TypeOK, FillsSafe, [Next]_vars
  PROVE  \/ orders' = orders
         \/ StageDraft \/ FillOrder \/ CloseOrder
         \/ \E o \in DOMAIN orders, status \in {"draft", "cancelled"} :
              /\ UpdateOrder(o, status) /\ orders[o].status # "filled"
              /\ UNCHANGED <<trader, recs, positions>>
<1>1. CASE Command
  <2>1. PICK h \in Operators : CommandBegins(h) \/ CommandWorks(h) \/ CommandDies(h)
    BY <1>1 DEF Command
  <2>2. CASE orders' # orders
    <3>1. ApproveOrder(h) \/ CancelOrder(h)
      BY <2>1, <2>2 DEF CommandBegins, CommandWorks, CommandDies, ReadRec, ReadOrder, NoOrder,
         ApproveRec, RejectRec, deskVars
    <3>2. UNCHANGED <<trader, recs, positions>>
      BY <1>1, <3>1 DEF Command, ApproveOrder, CancelOrder
    <3> QED
      BY <2>1, <2>2, <3>2, HumanWrites
  <2> QED
    BY <2>2
<1>2. CASE ~Command
  <2>1. CASE TraderStep
    BY <2>1 DEF TraderStep, TraderWorks, CountSlots, ListPending, TakeRec, TickEnd,
       Emit, OpeningStaged, OpeningFresh, Refuse, RefuseLive, Admit, FillPosition, FillRec,
       CloseGone, MarkGone, CloseUnquoted, CloseQuoted, ClosePosition, CloseRec, ClosePnl,
       RefuseClose, Reopen, Note, HandlerError, deskVars
  <2>2. CASE ~TraderStep
    BY <1>2, <2>2 DEF Next, TraderBegins, TickStart, TraderFails, TraderRaises,
       HandlerRaises, TickRaises, ManagerBegins, ManagerStep, ManagerFails, ListPositions,
       ManagerWorks, PassedOver, EmitClose, SetClosing, ScanEnd, ManagerRaises, ModeCommand,
       SetMode, Crash, deskVars, vars
  <2> QED
    BY <2>1, <2>2
<1> QED
  BY <1>1, <1>2

(***************************************************************************)
(* A filled order is never written again.                                  *)
(***************************************************************************)
LEMMA OrdersAfter ==
  ASSUME TypeOK, Placed, FillsSafe, [Next]_vars
  PROVE  /\ \A o \in DOMAIN orders :
              /\ o \in DOMAIN orders' /\ orders'[o].rec = orders[o].rec
              /\ (orders'[o].status = "filled") <=> (orders[o].status = "filled")
              /\ orders[o].status = "filled" => orders'[o] = orders[o]
         /\ \A o \in DOMAIN orders' : o \notin DOMAIN orders =>
              /\ o = Len(orders) + 1 /\ (StageDraft \/ FillOrder \/ CloseOrder)
              /\ orders'[o].rec = trader.rec /\ orders'[o].price = trader.price
              /\ orders'[o].status = (IF StageDraft THEN "draft" ELSE "filled")
<1>1. CASE orders' = orders
  BY <1>1
<1>2. CASE StageDraft \/ FillOrder \/ CloseOrder
  BY <1>2, OrderAdded
<1>3. ASSUME NEW o \in DOMAIN orders, NEW status \in {"draft", "cancelled"},
             UpdateOrder(o, status), orders[o].status # "filled"
      PROVE  /\ DOMAIN orders' = DOMAIN orders
             /\ \A n \in DOMAIN orders :
                  /\ orders'[n].rec = orders[n].rec
                  /\ (orders'[n].status = "filled") <=> (orders[n].status = "filled")
                  /\ orders[n].status = "filled" => orders'[n] = orders[n]
  <2>1. /\ DOMAIN orders' = DOMAIN orders
        /\ orders'[o].status = status
        /\ \A n \in DOMAIN orders : /\ orders'[n].rec = orders[n].rec
                                    /\ n # o => orders'[n] = orders[n]
    BY <1>3, UpdateOrderType DEF TypeOK
  <2> QED
    BY <1>3, <2>1
<1> QED
  BY <1>1, <1>2, <1>3, OrdersWritten

LEMMA NextFillsSafe ==
  ASSUME TypeOK, Placed, FillsSafe, [Next]_vars
  PROVE  FillsSafe'
<1> SUFFICES ASSUME NEW k \in Operators, HasDraft(k)'
             PROVE  /\ human'[k].order \in DOMAIN orders'
                    /\ orders'[human'[k].order].status # "filled"
  BY DEF FillsSafe
<1>1. /\ human'[k].order \in DOMAIN orders
      /\ orders[human'[k].order].status # "filled"
  <2>1. CASE human'[k] = human[k]
    BY <2>1 DEF FillsSafe, HasDraft
  <2>2. CASE human'[k] # human[k]
    <3>1. Command
      BY <2>2 DEF Next, TraderBegins, TraderStep, TraderFails, ManagerBegins, ManagerStep,
         ManagerFails, ModeCommand, Crash, vars
    <3>2. PICK h \in Operators : CommandBegins(h) \/ CommandWorks(h) \/ CommandDies(h)
      BY <3>1 DEF Command
    <3> QED
      BY <2>2, <3>2, HumanWrites
  <2> QED
    BY <2>1, <2>2
<1> QED
  BY <1>1, OrdersAfter

-----------------------------------------------------------------------------
(* What has been sold *)

FillsKnown == \A o \in ClosingFills : ClosedBy(o) \in DOMAIN positions

LEMMA DebitsKept ==
  ASSUME TypeOK, Placed, [Next]_vars, NEW p \in DOMAIN positions
  PROVE  /\ p \in DOMAIN positions' /\ positions'[p].debit = positions[p].debit
         /\ positions'[p].strategy = positions[p].strategy
<1>1. CASE positions' = positions
  BY <1>1
<1>2. CASE FillPosition
  BY <1>2, PositionAdded
<1>3. CASE ClosePosition \/ Reopen
  <2>1. Closing \in DOMAIN positions /\ Realized \in Int
    BY <1>3, RealizedType DEF ClosePosition, Reopen, At, Placed, DuringClosing
  <2>2. ClosePosition => UpdatePosition(Closing, "closed", Realized)
    BY DEF ClosePosition
  <2>3. Reopen => UpdatePosition(Closing, "open", 0)
    BY DEF Reopen
  <2> QED
    BY <1>3, <2>1, <2>2, <2>3, PositionWritten DEF TypeOK
<1>4. CASE SetClosing
  <2>1. UpdatePosition(manager.position, "closing", 0)
    BY <1>4 DEF SetClosing
  <2>2. CASE manager.position \in DOMAIN positions
    BY <2>1, <2>2, PositionWritten DEF TypeOK
  <2>3. CASE manager.position \notin DOMAIN positions
    <3>1. positions' = positions
      BY <2>1, <2>3 DEF UpdatePosition, TypeOK, DeskTypeOK
    <3> QED
      BY <3>1
  <2> QED
    BY <2>2, <2>3
<1> QED
  BY <1>1, <1>2, <1>3, <1>4, PositionSteps

(***************************************************************************)
(* Selling is what adds to the closing fills, and it is all that does.     *)
(***************************************************************************)
LEMMA ClosingFillsAfter ==
  ASSUME TypeOK, Placed, Referred, FillsSafe, [Next]_vars
  PROVE  /\ ClosingFills' = ClosingFills \cup (IF CloseOrder THEN {Len(orders) + 1} ELSE {})
         /\ Len(orders) + 1 \notin ClosingFills
         /\ \A o \in ClosingFills : /\ orders'[o] = orders[o]
                                    /\ ClosedBy(o)' = ClosedBy(o)
         /\ CloseOrder => /\ orders'[Len(orders) + 1].price = trader.price
                          /\ recs'[orders'[Len(orders) + 1].rec].position = Closing
                          /\ Closing \in DOMAIN positions
<1>0. TypeOK' /\ TablesGrow
  BY NextPlaced
<1>1. \A o \in DOMAIN orders : /\ orders[o].rec \in DOMAIN recs
                               /\ recs'[orders[o].rec].source = recs[orders[o].rec].source
                               /\ recs'[orders[o].rec].position = recs[orders[o].rec].position
  BY <1>0 DEF Referred, TablesGrow
<1>2. \A o \in DOMAIN orders : o \in ClosingFills' <=> o \in ClosingFills
  BY <1>1, OrdersAfter DEF ClosingFills, IsOpening
<1>3. \A o \in ClosingFills : orders'[o] = orders[o] /\ ClosedBy(o)' = ClosedBy(o)
  BY <1>1, OrdersAfter DEF ClosingFills, ClosedBy
<1>4. Len(orders) + 1 \notin ClosingFills
  BY Lengths DEF ClosingFills, TypeOK
<1>5. ASSUME NEW o \in ClosingFills', o \notin DOMAIN orders
      PROVE  o = Len(orders) + 1 /\ CloseOrder
  <2>1. /\ o = Len(orders) + 1 /\ (StageDraft \/ FillOrder \/ CloseOrder)
        /\ orders'[o].rec = trader.rec
        /\ orders'[o].status = (IF StageDraft THEN "draft" ELSE "filled")
    BY <1>5, OrdersAfter DEF ClosingFills
  <2>2. ~StageDraft
    BY <1>5, <2>1 DEF ClosingFills
  <2>3. ~FillOrder
    <3> SUFFICES ASSUME FillOrder PROVE FALSE
      OBVIOUS
    <3>1. IsOpening(trader.rec) /\ trader.rec \in DOMAIN recs
      BY DEF FillOrder, At, Placed, BeforeOpening, Handling
    <3> QED
      BY <1>0, <1>5, <2>1, <3>1 DEF ClosingFills, IsOpening, TablesGrow
  <2> QED
    BY <2>1, <2>2, <2>3
<1>6. ASSUME CloseOrder
      PROVE  /\ Len(orders) + 1 \in ClosingFills'
             /\ orders'[Len(orders) + 1].price = trader.price
             /\ recs'[orders'[Len(orders) + 1].rec].position = Closing
             /\ Closing \in DOMAIN positions
  <2>1. /\ trader.rec \in DOMAIN recs /\ ~IsOpening(trader.rec)
        /\ Closing \in DOMAIN positions /\ ~StageDraft
    BY <1>6 DEF CloseOrder, StageDraft, At, Placed, BeforeClosing, Handling
  <2>2. LET o == Len(orders) + 1
        IN  /\ DOMAIN orders' = DOMAIN orders \cup {o}
            /\ orders'[o].rec = trader.rec /\ orders'[o].price = trader.price
            /\ orders'[o].status = "filled"
    BY <1>6, <2>1, OrderAdded
  <2> QED
    BY <1>0, <2>1, <2>2 DEF ClosingFills, ClosedBy, Closing, IsOpening, TablesGrow
<1>7. ClosingFills' = ClosingFills \cup (IF CloseOrder THEN {Len(orders) + 1} ELSE {})
  <2>1. ClosingFills \subseteq DOMAIN orders
    BY DEF ClosingFills
  <2> QED
    BY <1>2, <1>5, <1>6, <2>1
<1> QED
  BY <1>3, <1>4, <1>6, <1>7

LEMMA NextFillsKnown ==
  ASSUME TypeOK, Placed, Referred, FillsSafe, FillsKnown, [Next]_vars
  PROVE  FillsKnown'
<1>1. \A p \in DOMAIN positions : p \in DOMAIN positions'
  BY DebitsKept
<1> SUFFICES ASSUME NEW o \in ClosingFills'
             PROVE  ClosedBy(o)' \in DOMAIN positions'
  BY DEF FillsKnown
<1>2. CASE o \in ClosingFills
  BY <1>1, <1>2, ClosingFillsAfter DEF FillsKnown
<1>3. CASE o \notin ClosingFills
  <2>1. o = Len(orders) + 1 /\ CloseOrder
    BY <1>3, ClosingFillsAfter
  <2>2. recs'[orders'[o].rec].position \in DOMAIN positions
    BY <2>1, ClosingFillsAfter
  <2> QED
    BY <1>1, <2>2 DEF ClosedBy
<1> QED
  BY <1>2, <1>3

LEMMA SoldAfter ==
  ASSUME TypeOK, Placed, Referred, FillsSafe, [Next]_vars
  PROVE  Sold' = Sold \cup (IF CloseOrder THEN {Closing} ELSE {})
<1>1. Sold' = {recs'[orders'[o].rec].position : o \in ClosingFills'}
  BY DEF Sold, ClosedBy
<1>2. \A o \in ClosingFills : recs'[orders'[o].rec].position = ClosedBy(o)
  <2>1. ASSUME NEW o \in ClosingFills
        PROVE  recs'[orders'[o].rec].position = ClosedBy(o)
    <3>1. ClosedBy(o)' = ClosedBy(o)
      BY ClosingFillsAfter
    <3>2. ClosedBy(o)' = recs'[orders'[o].rec].position
      BY DEF ClosedBy
    <3> QED
      BY <3>1, <3>2
  <2> QED
    BY <2>1
<1>3. Sold = {ClosedBy(o) : o \in ClosingFills}
  BY DEF Sold
<1>4. CASE CloseOrder
  <2> DEFINE n == Len(orders) + 1
  <2>1. ClosingFills' = ClosingFills \cup {n} /\ recs'[orders'[n].rec].position = Closing
    BY <1>4, ClosingFillsAfter
  <2> HIDE DEF n
  <2> QED
    BY <1>1, <1>2, <1>3, <1>4, <2>1
<1>5. CASE ~CloseOrder
  <2>1. ClosingFills' = ClosingFills
    BY <1>5, ClosingFillsAfter
  <2> QED
    BY <1>1, <1>2, <1>3, <1>5, <2>1
<1> QED
  BY <1>4, <1>5

-----------------------------------------------------------------------------
(* The P&L of the day *)

Earned == [o \in ClosingFills |-> Gain(o)]

Selling == {"closePosition", "closeRec", "closePnl"}

Unbooked == IF trader.pc \in Selling THEN Realized ELSE 0

LEMMA FillsFinite ==
  ASSUME TypeOK
  PROVE  IsFiniteSet(DOMAIN orders) /\ IsFiniteSet(ClosingFills) /\ IsFiniteSet(Staged)
<1>1. IsFiniteSet(DOMAIN orders)
  BY Lengths, FS_Interval DEF TypeOK
<1>2. ClosingFills \in SUBSET DOMAIN orders /\ Staged \in SUBSET DOMAIN orders
  BY DEF ClosingFills, Staged
<1> QED
  BY <1>1, <1>2, FS_Subset

LEMMA EarnedType ==
  ASSUME TypeOK, FillsKnown, NEW o \in ClosingFills
  PROVE  Earned[o] \in Int /\ Earned[o] = orders[o].price - positions[ClosedBy(o)].debit
<1>1. orders[o] \in Order /\ positions[ClosedBy(o)] \in Position
  BY DEF ClosingFills, FillsKnown, TypeOK, DeskTypeOK
<1>2. orders[o].price \in Int /\ positions[ClosedBy(o)].debit \in Int
  BY <1>1 DEF Order, Position
<1> QED
  BY <1>2 DEF Earned, Gain

LEMMA EarnedKept ==
  ASSUME TypeOK, Placed, Referred, FillsSafe, FillsKnown, [Next]_vars,
         NEW o \in ClosingFills
  PROVE  Earned'[o] = Earned[o]
<1>1. o \in ClosingFills' /\ orders'[o] = orders[o] /\ ClosedBy(o)' = ClosedBy(o)
  BY ClosingFillsAfter
<1>2. positions'[ClosedBy(o)].debit = positions[ClosedBy(o)].debit
  BY DebitsKept DEF FillsKnown
<1>3. Earned'[o] = orders'[o].price - positions'[ClosedBy(o)'].debit
  BY <1>1 DEF Earned, Gain
<1> QED
  BY <1>1, <1>2, <1>3 DEF Earned, Gain

(***************************************************************************)
(* What a handler that sells is about to book does not change while it is  *)
(* at it.                                                                  *)
(***************************************************************************)
LEMMA RealizedKept ==
  ASSUME TypeOK, Placed, [Next]_vars, trader.rec \in DOMAIN recs,
         Closing \in DOMAIN positions,
         trader'.rec = trader.rec, trader'.price = trader.price
  PROVE  Realized' = Realized
<1>1. Closing' = Closing
  BY NextPlaced DEF Closing, TablesGrow
<1> QED
  BY <1>1, DebitsKept DEF Realized

LEMMA UnbookedSame ==
  ASSUME TypeOK, Placed, [Next]_vars, trader' = trader
  PROVE  Unbooked' = Unbooked
<1>1. trader.pc \in Selling => trader.rec \in DOMAIN recs /\ Closing \in DOMAIN positions
  BY DEF Placed, Selling, Handling, BeforeClosing, DuringClosing
<1> QED
  BY <1>1, RealizedKept DEF Unbooked

LEMMA UnbookedAfter ==
  ASSUME TypeOK, Placed, [Next]_vars, crashes' = crashes, faults' = faults
  PROVE  /\ CloseOrder => Unbooked = 0 /\ Unbooked' = Realized
         /\ ClosePnl => Unbooked = Realized /\ Unbooked' = 0
         /\ ~CloseOrder /\ ~ClosePnl => Unbooked' = Unbooked
         /\ trader'.pc \in Selling => CloseOrder \/ trader.pc \in Selling
<1>0. trader.pc \in Selling \cup {"closeOrder"} =>
        trader.rec \in DOMAIN recs /\ Closing \in DOMAIN positions
  BY DEF Placed, Selling, Handling, BeforeClosing, DuringClosing
<1>1. ASSUME trader'.rec = trader.rec, trader'.price = trader.price,
             trader.pc \in Selling \cup {"closeOrder"}
      PROVE  Realized' = Realized
  BY <1>0, <1>1, RealizedKept
<1>2. CASE trader' = trader
  <2>1. ~CloseOrder /\ ~ClosePnl
    BY <1>2, TraderMoves DEF Moved
  <2> QED
    BY <1>1, <1>2, <2>1 DEF Unbooked
<1>3. CASE TraderBegins \/ TraderStep \/ TraderFails
  <2>1. TraderWorks \/ TickStart
    BY <1>3 DEF TraderBegins, TraderStep, TraderFails, TraderRaises, HandlerRaises,
       TickRaises, TypeOK, DeskTypeOK
  <2>2. CASE CloseOrder \/ ClosePosition \/ CloseRec
    <3>1. /\ trader'.rec = trader.rec /\ trader'.price = trader.price /\ trader'.pc \in Selling
          /\ trader.pc \in Selling \cup {"closeOrder"}
          /\ CloseOrder => trader.pc \notin Selling
          /\ ~CloseOrder => trader.pc \in Selling
          /\ ~ClosePnl
      BY <2>2, TraderMoves DEF Moved, Selling
    <3> QED
      BY <1>1, <3>1 DEF Unbooked
  <2>3. CASE ClosePnl
    <3>1. trader.pc = "closePnl" /\ trader'.pc = "note" /\ ~CloseOrder
      BY <2>3, TraderMoves DEF Moved
    <3> QED
      BY <2>3, <3>1 DEF Unbooked, Selling
  <2>4. CASE ~CloseOrder /\ ~ClosePosition /\ ~CloseRec /\ ~ClosePnl
    <3>1. trader.pc \notin Selling
      BY <2>1, <2>4, TraderMoves DEF TraderWorks, Selling, OpeningStaged, Refuse, RefuseLive,
         FillRec, MarkGone, CloseUnquoted, Reopen, Note, HandlerError, At
    <3>2. trader'.pc \notin Selling
      BY <2>1, <2>4, TraderMoves DEF TraderWorks, Selling, Skips, Moved
    <3> QED
      BY <2>4, <3>1, <3>2 DEF Unbooked
  <2> QED
    BY <2>2, <2>3, <2>4
<1>4. ~Crash
  BY DEF Crash, TypeOK, DeskTypeOK
<1> QED
  BY <1>2, <1>3, <1>4 DEF Next, ManagerBegins, ManagerStep, ManagerFails, ModeCommand,
     Command, vars

(***************************************************************************)
(* Only the last step of a sale touches the P&L.                           *)
(***************************************************************************)
LEMMA PnlSteps ==
  ASSUME TypeOK, [Next]_vars
  PROVE  IF ClosePnl THEN cash'.dailyPnl = cash.dailyPnl + Realized
                     ELSE cash'.dailyPnl = cash.dailyPnl
<1>0. cash \in [mode : Modes, dailyPnl : Int]
  BY DEF TypeOK, DeskTypeOK
<1>1. CASE ClosePnl
  BY <1>0, <1>1 DEF ClosePnl, UpdateDailyPnl
<1>2. CASE ~ClosePnl
  <2>1. CASE TraderStep
    BY <1>2, <2>1 DEF TraderStep, TraderWorks, CountSlots, ListPending, TakeRec, TickEnd,
       Emit, OpeningStaged, OpeningFresh, Refuse, RefuseLive, Admit, StageDraft, FillOrder,
       FillPosition, FillRec, CloseGone, MarkGone, CloseUnquoted, CloseQuoted, CloseOrder,
       ClosePosition, CloseRec, RefuseClose, Reopen, Note, HandlerError, deskVars
  <2>2. CASE Command
    BY <1>2, <2>2 DEF Command, CommandBegins, CommandWorks, ReadRec, ReadOrder, NoOrder,
       ApproveRec, ApproveOrder, CancelOrder, RejectRec, CommandDies, deskVars
  <2>3. CASE ModeCommand
    BY <1>0, <1>2, <2>3 DEF ModeCommand, SetMode
  <2>4. CASE TraderBegins \/ TraderFails \/ ManagerBegins \/ ManagerStep \/ ManagerFails
               \/ Crash \/ UNCHANGED vars
    BY <1>2, <2>4 DEF TraderBegins, TickStart, TraderFails, TraderRaises, HandlerRaises,
       TickRaises, ManagerBegins, ManagerStep, ManagerFails, ListPositions, ManagerWorks,
       PassedOver, EmitClose, SetClosing, ScanEnd, ManagerRaises, Crash, deskVars, vars
  <2> QED
    BY <2>1, <2>2, <2>3, <2>4 DEF Next
<1> QED
  BY <1>1, <1>2

(***************************************************************************)
(* A crash or a failing write counts one up and writes nothing else; when  *)
(* it hits the trader, the handler is left.                                *)
(***************************************************************************)
LEMMA Failures ==
  ASSUME TypeOK, [Next]_vars, ~(crashes' = crashes /\ faults' = faults)
  PROVE  /\ crashes' + faults' = crashes + faults + 1
         /\ cash' = cash /\ ~CloseOrder /\ ~ClosePnl
         /\ trader' = trader \/ trader'.pc \in {"idle", "error"}
<1>a. /\ crashes \in Int /\ faults \in Int
      /\ DOMAIN trader = {"pc", "mode", "todo", "rec", "slots", "price"}
  BY DEF TypeOK, DeskTypeOK, TraderTypeOK
<1>1. CASE TraderStep
  BY <1>1 DEF TraderStep, TraderWorks, CountSlots, ListPending, TakeRec, TickEnd,
     Emit, OpeningStaged, OpeningFresh, Refuse, RefuseLive, Admit, StageDraft, FillOrder,
     FillPosition, FillRec, CloseGone, MarkGone, CloseUnquoted, CloseQuoted, CloseOrder,
     ClosePosition, CloseRec, ClosePnl, RefuseClose, Reopen, Note, HandlerError, deskVars
<1>2. CASE TraderFails
  <2>1. CASE HandlerRaises
    BY <1>a, <2>1 DEF HandlerRaises, Goto, CloseOrder, ClosePnl
  <2>2. CASE TickRaises
    BY <1>a, <2>2 DEF TickRaises, IdleTrader, CloseOrder, ClosePnl
  <2> QED
    BY <1>2, <2>1, <2>2 DEF TraderFails, TraderRaises
<1>3. CASE Command
  <2>1. PICK h \in Operators : CommandDies(h)
    BY <1>3 DEF Command, CommandBegins, CommandWorks, ReadRec, ReadOrder, NoOrder,
       ApproveRec, ApproveOrder, CancelOrder, RejectRec, deskVars
  <2> QED
    BY <1>a, <1>3, <2>1 DEF Command, CommandDies, CloseOrder, ClosePnl
<1>4. CASE Crash
  BY <1>a, <1>4 DEF Crash, IdleTrader, CloseOrder, ClosePnl
<1>5. CASE ManagerFails
  BY <1>a, <1>5 DEF ManagerFails, ManagerRaises, CloseOrder, ClosePnl
<1>6. CASE TraderBegins \/ ManagerBegins \/ ManagerStep \/ ModeCommand \/ UNCHANGED vars
  BY <1>6 DEF TraderBegins, TickStart, ManagerBegins, ManagerStep, ListPositions,
     ManagerWorks, PassedOver, EmitClose, SetClosing, ScanEnd, ModeCommand, SetMode,
     deskVars, vars
<1> QED
  BY <1>1, <1>2, <1>3, <1>4, <1>5, <1>6 DEF Next

(***************************************************************************)
(* PnlBooked, made inductive: the sale under way is none of the lost ones. *)
(***************************************************************************)
Books(lost) ==
  /\ Cardinality(lost) <= crashes + faults
  /\ cash.dailyPnl = Total(Earned, ClosingFills \ lost) - Unbooked
  /\ trader.pc \in Selling => \E o \in ClosingFills \ lost : Earned[o] = Unbooked

Booking == \E lost \in SUBSET ClosingFills : Books(lost)

(***************************************************************************)
(* A sale that a failure has cut off joins the lost ones.                  *)
(***************************************************************************)
LEMMA SaleLost ==
  ASSUME TypeOK, FillsKnown, trader.pc \in Selling, NEW lost \in SUBSET ClosingFills,
         Books(lost)
  PROVE  \E more \in SUBSET ClosingFills :
           /\ Cardinality(more) <= crashes + faults + 1
           /\ cash.dailyPnl = Total(Earned, ClosingFills \ more)
<1> DEFINE kept == ClosingFills \ lost
           earned == Earned
<1>1. PICK o \in kept : earned[o] = Unbooked
  BY DEF Books
<1> DEFINE more == lost \cup {o}
<1>2. /\ IsFiniteSet(kept) /\ IsFiniteSet(lost)
      /\ \A n \in kept : earned[n] \in Int
  BY FillsFinite, FS_Subset, EarnedType
<1>3. Total(earned, kept) = earned[o] + Total(earned, kept \ {o})
      /\ Total(earned, kept \ {o}) \in Int
  <2>1. IsFiniteSet(kept \ {o})
    <3> HIDE DEF kept
    <3> QED
      BY <1>2, FS_RemoveElement
  <2> HIDE DEF kept, earned
  <2> QED
    BY <1>2, <2>1, TotalRemove, TotalType
<1>4. Cardinality(more) <= crashes + faults + 1
  <2>1. Cardinality(lost) <= crashes + faults /\ crashes \in Int /\ faults \in Int
    BY DEF Books, TypeOK, DeskTypeOK
  <2>2. Cardinality(more) \in {Cardinality(lost), Cardinality(lost) + 1}
        /\ Cardinality(lost) \in Int
    BY <1>2, FS_AddElement, FS_CardinalityType
  <2> HIDE DEF more
  <2> QED
    BY <2>1, <2>2
<1>5. cash.dailyPnl = Total(earned, kept \ {o})
  <2>1. cash.dailyPnl = Total(earned, kept) - Unbooked
    BY DEF Books
  <2>2. earned[o] \in Int
    BY <1>1, <1>2
  <2> HIDE DEF kept, earned
  <2> QED
    BY <1>1, <1>3, <2>1, <2>2
<1>6. kept \ {o} = ClosingFills \ more /\ more \in SUBSET ClosingFills
  OBVIOUS
<1> QED
  BY <1>4, <1>5, <1>6

LEMMA NextBooking ==
  ASSUME TypeOK, Placed, Referred, FillsSafe, FillsKnown, Booking, [Next]_vars
  PROVE  Booking'
<1>1. PICK lost \in SUBSET ClosingFills : Books(lost)
  BY DEF Booking
<1>2. ClosingFills \subseteq ClosingFills' /\ Len(orders) + 1 \notin ClosingFills
      /\ ClosingFills' = ClosingFills \cup (IF CloseOrder THEN {Len(orders) + 1} ELSE {})
  BY ClosingFillsAfter
<1>3. ASSUME NEW S \in SUBSET ClosingFills
      PROVE  Total(Earned', S) = Total(Earned, S) /\ Total(Earned, S) \in Int
             /\ IsFiniteSet(S) /\ \A o \in S : Earned[o] \in Int
  <2> DEFINE was == Earned
             is == Earned'
  <2>1. /\ IsFiniteSet(S) /\ \A o \in S : was[o] \in Int
        /\ \A o \in S : is[o] = was[o]
    BY FillsFinite, FS_Subset, EarnedType, EarnedKept
  <2>2. Total(is, S) = Total(was, S) /\ Total(was, S) \in Int
    <3> HIDE DEF was, is
    <3> QED
      BY <2>1, TotalSame, TotalType
  <2> QED
    BY <2>1, <2>2
<1>4. CASE crashes' = crashes /\ faults' = faults
  <2>1. /\ CloseOrder => Unbooked = 0 /\ Unbooked' = Realized
        /\ ClosePnl => Unbooked = Realized /\ Unbooked' = 0
        /\ ~CloseOrder /\ ~ClosePnl => Unbooked' = Unbooked
        /\ trader'.pc \in Selling => CloseOrder \/ trader.pc \in Selling
    BY <1>4, UnbookedAfter
  <2> SUFFICES Books(lost)'
    BY <1>2 DEF Booking
  <2>2. Cardinality(lost) <= crashes' + faults'
    BY <1>1, <1>4 DEF Books
  <2> DEFINE kept == ClosingFills \ lost
  <2>3. kept \in SUBSET ClosingFills /\ cash.dailyPnl = Total(Earned, kept) - Unbooked
    BY <1>1 DEF Books
  <2>4. CASE CloseOrder
    <3> DEFINE is == Earned'
               n == Len(orders) + 1
    <3>1. /\ orders'[n].price = trader.price /\ recs'[orders'[n].rec].position = Closing
          /\ Closing \in DOMAIN positions
      BY <2>4, ClosingFillsAfter
    <3>2. n \in ClosingFills' /\ ClosingFills' \ lost = kept \cup {n} /\ n \notin kept
      BY <1>2, <2>4
    <3>3. Realized \in Int
      BY <3>1, RealizedType
    <3>4. is[n] = Realized
      <4>1. positions'[Closing].debit = positions[Closing].debit
        BY <3>1, DebitsKept
      <4>2. is[n] = orders'[n].price - positions'[recs'[orders'[n].rec].position].debit
        BY <3>2 DEF Earned, Gain, ClosedBy
      <4> HIDE DEF is, n
      <4> QED
        BY <3>1, <4>1, <4>2 DEF Realized
    <3>5. Total(is, kept \cup {n}) = is[n] + Total(is, kept)
      <4>1. /\ IsFiniteSet(kept) /\ \A o \in kept : is[o] \in Int
            /\ is[n] \in Int
        BY <1>3, <2>3, <3>3, <3>4, EarnedKept
      <4> HIDE DEF kept, is, n
      <4> QED
        BY <3>2, <4>1, TotalInsert
    <3>6. cash'.dailyPnl = cash.dailyPnl
      BY <2>4, PnlSteps DEF CloseOrder, ClosePnl, At
    <3>7. Total(Earned', ClosingFills' \ lost) = Realized + Total(Earned, kept)
          /\ Total(Earned, kept) \in Int
      <4> HIDE DEF kept, n
      <4> QED
        BY <1>3, <2>3, <3>2, <3>4, <3>5
    <3>8. cash'.dailyPnl = Total(Earned', ClosingFills' \ lost) - Unbooked'
      BY <2>1, <2>3, <2>4, <3>3, <3>6, <3>7
    <3> QED
      BY <2>1, <2>2, <2>4, <3>2, <3>4, <3>8 DEF Books
  <2>5. CASE ~CloseOrder
    <3>1. ClosingFills' \ lost = kept
      BY <1>2, <2>5
    <3>2. Total(Earned', kept) = Total(Earned, kept) /\ Total(Earned, kept) \in Int
      BY <1>3, <2>3
    <3>3. cash'.dailyPnl = Total(Earned', kept) - Unbooked'
      <4> HIDE DEF kept
      <4>1. CASE ClosePnl
        <5>1. Realized \in Int
          BY <4>1, RealizedType DEF ClosePnl, At, Placed, DuringClosing
        <5> QED
          BY <2>1, <2>3, <3>2, <4>1, <5>1, PnlSteps
      <4>2. CASE ~ClosePnl
        BY <2>1, <2>3, <2>5, <3>2, <4>2, PnlSteps
      <4> QED
        BY <4>1, <4>2
    <3>4. trader'.pc \in Selling => \E o \in kept : Earned'[o] = Unbooked'
      <4> SUFFICES ASSUME trader'.pc \in Selling
                   PROVE  \E o \in kept : Earned'[o] = Unbooked'
        OBVIOUS
      <4>1. trader.pc \in Selling /\ ~ClosePnl
        <5>1. ClosePnl => trader'.pc = "note"
          BY TraderMoves DEF Moved
        <5> QED
          BY <2>1, <2>5, <5>1 DEF Selling
      <4>2. PICK o \in kept : Earned[o] = Unbooked
        BY <1>1, <4>1 DEF Books
      <4>3. Earned'[o] = Earned[o]
        BY EarnedKept
      <4> QED
        BY <2>1, <2>5, <4>1, <4>2, <4>3
    <3> HIDE DEF kept
    <3> QED
      BY <2>2, <3>1, <3>3, <3>4 DEF Books
  <2> QED
    BY <2>4, <2>5
<1>5. CASE ~(crashes' = crashes /\ faults' = faults)
  <2>1. /\ crashes' + faults' = crashes + faults + 1
        /\ cash' = cash /\ ~CloseOrder /\ ~ClosePnl
        /\ trader' = trader \/ trader'.pc \in {"idle", "error"}
    BY <1>5, Failures
  <2>2. ClosingFills' = ClosingFills
    BY <1>2, <2>1
  <2>3. Cardinality(lost) <= crashes + faults /\ Cardinality(lost) \in Int
        /\ crashes \in Int /\ faults \in Int
    <3>1. IsFiniteSet(lost)
      BY <1>3
    <3> QED
      BY <1>1, <3>1, FS_CardinalityType DEF Books, TypeOK, DeskTypeOK
  <2>4. CASE trader' = trader
    <3>1. Unbooked' = Unbooked
      BY <2>4, UnbookedSame
    <3>2. Total(Earned', ClosingFills \ lost) = Total(Earned, ClosingFills \ lost)
      BY <1>3
    <3>3. \A o \in ClosingFills \ lost : Earned'[o] = Earned[o]
      BY EarnedKept
    <3>4. Books(lost)'
      BY <1>1, <2>1, <2>2, <2>3, <2>4, <3>1, <3>2, <3>3 DEF Books
    <3> QED
      BY <2>2, <3>4 DEF Booking
  <2>5. CASE trader'.pc \in {"idle", "error"}
    <3>1. PICK more \in SUBSET ClosingFills :
            /\ Cardinality(more) <= crashes + faults + 1
            /\ cash.dailyPnl = Total(Earned, ClosingFills \ more)
      <4>1. CASE trader.pc \in Selling
        BY <1>1, <4>1, SaleLost
      <4>2. CASE trader.pc \notin Selling
        <5>1. Total(Earned, ClosingFills \ lost) \in Int /\ Unbooked = 0
          BY <1>3, <4>2 DEF Unbooked
        <5> QED
          BY <1>1, <2>3, <5>1 DEF Books
      <4> QED
        BY <4>1, <4>2
    <3>2. trader'.pc \notin Selling /\ Unbooked' = 0
      BY <2>5 DEF Selling, Unbooked
    <3>3. Total(Earned', ClosingFills \ more) = Total(Earned, ClosingFills \ more)
          /\ Total(Earned, ClosingFills \ more) \in Int
      BY <1>3
    <3>4. Books(more)'
      BY <2>1, <2>2, <3>1, <3>2, <3>3 DEF Books
    <3> QED
      BY <2>2, <3>4 DEF Booking
  <2> QED
    BY <2>1, <2>4, <2>5
<1> QED
  BY <1>4, <1>5

LEMMA InitFills ==
  ASSUME Init
  PROVE  Referred /\ FillsSafe /\ FillsKnown /\ ClosingFills = {}
<1>1. recs = << >> /\ orders = << >>
  BY DEF Init, DeskInit
<1>2. \A h \in Operators : human[h].pc = "idle"
  BY DEF Init, HumanInit, IdleHuman
<1> QED
  BY <1>1, <1>2 DEF Referred, FillsSafe, HasDraft, FillsKnown, ClosingFills

(***************************************************************************)
(* The P&L of the day is the sum of what the closing orders made, short of *)
(* at most one for every crash and every failing write, whatever their     *)
(* number.                                                                 *)
(***************************************************************************)
THEOREM PnlAddsUp == Spec => []PnlBooked
<1> DEFINE IInv == TypeOK /\ Placed /\ Referred /\ FillsSafe /\ FillsKnown /\ Booking
<1>1. Init => IInv
  <2> SUFFICES ASSUME Init PROVE IInv
    OBVIOUS
  <2>1. /\ cash.dailyPnl = 0 /\ trader.pc = "idle" /\ ClosingFills = {}
        /\ crashes = 0 /\ faults = 0
    BY InitFills DEF Init, DeskInit, TraderInit, IdleTrader
  <2>2. Total(Earned, {}) = 0 /\ Cardinality({}) = 0 /\ {} \ {} = {}
    BY TotalEmpty, FS_EmptySet
  <2>3. Books({})
    BY <2>1, <2>2 DEF Books, Unbooked, Selling
  <2>4. Booking
    BY <2>1, <2>3 DEF Booking
  <2> QED
    BY <2>4, InitPlaced, InitFills
<1>2. IInv /\ [Next]_vars => IInv'
  BY NextPlaced, NextReferred, NextFillsSafe, NextFillsKnown, NextBooking
<1>3. IInv => PnlBooked
  BY DEF Booking, Books, PnlBooked, Earned, Unbooked, Selling
<1> QED
  BY <1>1, <1>2, <1>3, PTL DEF Spec


-----------------------------------------------------------------------------
(* Limits *)

(***************************************************************************)
(* The fill price of a recommendation is no more than the max_loss it was  *)
(* sized with.  The code sizes with max_loss and records the price.        *)
(***************************************************************************)
PricesWithinLoss == \A x \in Prices, l \in MaxLosses : Dollars(x) <= l

LossesKnown == \A r \in DOMAIN recs : IsOpening(r) => recs[r].maxLoss \in MaxLosses

(***************************************************************************)
(* A position is closed only after its closing order is recorded.          *)
(***************************************************************************)
SoldFirst ==
  /\ trader.pc = "closePosition" => Closing \in Sold
  /\ \A p \in DOMAIN positions : positions[p].status = "closed" => p \in Sold

Owned == DOMAIN positions \ Sold

OwnedBy(s) == {p \in Owned : positions[p].strategy = s}

DollarsHeld == [p \in DOMAIN positions |-> Dollars(positions[p].debit)]

DollarsStaged == [o \in DOMAIN orders |-> Dollars(orders[o].price)]

Admitted == {"draft", "paper", "live", "fillPosition"}

LEMMA DollarsType ==
  ASSUME NEW x \in Int
  PROVE  Dollars(x) \in Nat
  BY DEF Dollars

LEMMA NextLossesKnown ==
  ASSUME TypeOK, LossesKnown, [Next]_vars
  PROVE  LossesKnown'
<1> USE DEF TypeOK, DeskTypeOK
<1>1. CASE recs' = recs
  BY <1>1 DEF LossesKnown, IsOpening
<1>2. ASSUME NEW r, NEW status \in {"approved", "rejected", "executed"}, UpdateRec(r, status)
      PROVE  LossesKnown'
  <2>1. CASE r \notin DOMAIN recs
    BY <1>1, <1>2, <2>1 DEF UpdateRec
  <2>2. CASE r \in DOMAIN recs
    <3> DEFINE row == [recs[r] EXCEPT !.status = status]
    <3>1. recs[r] \in Recommendation /\ recs' = [recs EXCEPT ![r] = row]
      BY <1>2, <2>2 DEF UpdateRec
    <3>2. row.maxLoss = recs[r].maxLoss /\ row.source = recs[r].source
      BY <3>1 DEF Recommendation
    <3> HIDE DEF row
    <3>3. DOMAIN recs' = DOMAIN recs /\ recs'[r] = row
          /\ \A q \in DOMAIN recs : q # r => recs'[q] = recs[q]
      BY <2>2, <3>1
    <3> QED
      BY <3>2, <3>3 DEF LossesKnown, IsOpening
  <2> QED
    BY <2>1, <2>2
<1>3. ASSUME NEW source, NEW position, NEW l, InsertRec(source, position, l),
             l \in MaxLosses \/ source = PositionManager
      PROVE  LossesKnown'
  <2> DEFINE row == [source |-> source, position |-> position,
                     maxLoss |-> l, status |-> "pending"]
  <2>1. recs' = Append(recs, row) /\ recs \in Seq(Recommendation)
    BY <1>3 DEF InsertRec
  <2>2. row.source = source /\ row.maxLoss = l
    OBVIOUS
  <2> HIDE DEF row
  <2>3. /\ DOMAIN recs' = DOMAIN recs \cup {Len(recs) + 1}
        /\ recs'[Len(recs) + 1] = row
        /\ \A q \in DOMAIN recs : recs'[q] = recs[q]
    BY <2>1
  <2> QED
    BY <1>3, <2>2, <2>3 DEF LossesKnown, IsOpening
<1>4. ASSUME NEW s \in Strategies, NEW l \in MaxLosses, Emit(s, l)
      PROVE  LossesKnown'
  BY <1>3, <1>4 DEF Emit
<1>5. CASE EmitClose
  BY <1>3, <1>5 DEF EmitClose
<1> QED
  BY <1>1, <1>2, <1>4, <1>5, RecSteps

LEMMA NextSoldFirst ==
  ASSUME TypeOK, Placed, Referred, FillsSafe, SoldFirst, [Next]_vars
  PROVE  SoldFirst'
<1>0. TypeOK' /\ TablesGrow
  BY NextPlaced
<1>1. Sold \subseteq Sold' /\ (CloseOrder => Closing \in Sold')
  BY SoldAfter
<1>2. trader'.pc = "closePosition" => Closing' \in Sold'
  <2> SUFFICES ASSUME trader'.pc = "closePosition"
               PROVE  Closing' \in Sold'
    OBVIOUS
  <2>1. CASE trader' = trader
    <3>1. trader.rec \in DOMAIN recs
      BY <2>1 DEF Placed, Handling
    <3> QED
      BY <1>0, <1>1, <2>1, <3>1 DEF SoldFirst, Closing, TablesGrow
  <2>2. CASE TraderBegins \/ TraderStep \/ TraderFails
    <3>1. TraderWorks \/ TraderRaises \/ TickStart
      BY <2>2 DEF TraderBegins, TraderStep, TraderFails
    <3>2. CloseOrder
      BY <3>1, TraderMoves DEF TraderWorks, TraderRaises, Skips, Moved
    <3>3. trader.rec \in DOMAIN recs /\ trader'.rec = trader.rec
      BY <3>2, TraderMoves DEF Moved, Placed, Handling
    <3> QED
      BY <1>0, <1>1, <3>2, <3>3 DEF Closing, TablesGrow
  <2>3. ~Crash
    BY DEF Crash, IdleTrader
  <2> QED
    BY <2>1, <2>2, <2>3 DEF Next, ManagerBegins, ManagerStep, ManagerFails, ModeCommand,
       Command, vars
<1>3. ASSUME NEW p \in DOMAIN positions', positions'[p].status = "closed"
      PROVE  p \in Sold'
  <2>1. CASE positions' = positions
    BY <1>1, <1>3, <2>1 DEF SoldFirst
  <2>2. CASE FillPosition
    BY <1>1, <1>3, <2>2, PositionAdded DEF SoldFirst
  <2>3. CASE ClosePosition
    <3>1. /\ trader.pc = "closePosition" /\ Closing \in DOMAIN positions /\ Realized \in Int
          /\ UpdatePosition(Closing, "closed", Realized)
      BY <2>3, RealizedType DEF ClosePosition, At, Placed, DuringClosing
    <3>2. DOMAIN positions' = DOMAIN positions
          /\ \A q \in DOMAIN positions : q # Closing => positions'[q] = positions[q]
      BY <3>1, PositionWritten DEF TypeOK
    <3> QED
      BY <1>1, <1>3, <3>1, <3>2 DEF SoldFirst
  <2>4. CASE Reopen
    <3>1. /\ Closing \in DOMAIN positions /\ UpdatePosition(Closing, "open", 0)
      BY <2>4 DEF Reopen, At, Placed, DuringClosing
    <3>2. DOMAIN positions' = DOMAIN positions /\ positions'[Closing].status = "open"
          /\ \A q \in DOMAIN positions : q # Closing => positions'[q] = positions[q]
      BY <3>1, PositionWritten DEF TypeOK
    <3> QED
      BY <1>1, <1>3, <3>1, <3>2 DEF SoldFirst
  <2>5. CASE SetClosing
    <3>1. UpdatePosition(manager.position, "closing", 0)
      BY <2>5 DEF SetClosing
    <3>2. CASE manager.position \in DOMAIN positions
      <4>1. /\ DOMAIN positions' = DOMAIN positions
            /\ positions'[manager.position].status = "closing"
            /\ \A q \in DOMAIN positions : q # manager.position => positions'[q] = positions[q]
        BY <3>1, <3>2, PositionWritten DEF TypeOK
      <4> QED
        BY <1>1, <1>3, <4>1 DEF SoldFirst
    <3>3. CASE manager.position \notin DOMAIN positions
      <4>1. positions' = positions
        BY <3>1, <3>3 DEF UpdatePosition, TypeOK, DeskTypeOK
      <4> QED
        BY <2>1, <4>1
    <3> QED
      BY <3>2, <3>3
  <2> QED
    BY <2>1, <2>2, <2>3, <2>4, <2>5, PositionSteps
<1> QED
  BY <1>2, <1>3 DEF SoldFirst

LEMMA HeldNotSold ==
  ASSUME TypeOK, SoldFirst
  PROVE  Held \ Sold = Owned /\ Owned \subseteq Held
<1>1. ASSUME NEW p \in DOMAIN positions
      PROVE  positions[p].status \in {"open", "closing", "closed"}
  <2>1. positions[p] \in Position
    BY DEF TypeOK, DeskTypeOK
  <2> QED
    BY <2>1 DEF Position
<1> QED
  BY <1>1 DEF Held, Owned, SoldFirst

(***************************************************************************)
(* The risk of a set of positions after a step.                            *)
(***************************************************************************)
LEMMA DollarsHeldType ==
  ASSUME TypeOK, NEW P \in SUBSET DOMAIN positions
  PROVE  IsFiniteSet(P) /\ \A p \in P : DollarsHeld[p] \in Nat
<1>1. IsFiniteSet(DOMAIN positions)
  BY Lengths, FS_Interval DEF TypeOK
<1>2. ASSUME NEW p \in P PROVE DollarsHeld[p] \in Nat
  <2>1. positions[p] \in Position
    BY DEF TypeOK, DeskTypeOK
  <2>2. positions[p].debit \in Int
    BY <2>1 DEF Position
  <2> QED
    BY <2>2, DollarsType DEF DollarsHeld
<1> QED
  BY <1>1, <1>2, FS_Subset

LEMMA RiskAfter ==
  ASSUME TypeOK, Placed, [Next]_vars, NEW P \in SUBSET DOMAIN positions, NEW Q \in SUBSET P
  PROVE  /\ Total(DollarsHeld, P) \in Int /\ Total(DollarsHeld', Q) \in Int
         /\ Total(DollarsHeld', Q) <= Total(DollarsHeld, P)
         /\ FillPosition =>
              LET n == Len(positions) + 1
              IN  /\ Dollars(trader.price) \in Nat
                  /\ Total(DollarsHeld', Q \cup {n}) =
                       Dollars(trader.price) + Total(DollarsHeld', Q)
<1> DEFINE was == DollarsHeld
           is == DollarsHeld'
<1>1. /\ IsFiniteSet(P) /\ \A p \in P : was[p] \in Nat
      /\ IsFiniteSet(Q) /\ \A p \in Q : is[p] = was[p]
  <2>1. \A p \in Q : is[p] = was[p]
    BY DebitsKept DEF DollarsHeld
  <2> QED
    BY <2>1, DollarsHeldType
<1>2. /\ Total(is, Q) = Total(was, Q) /\ Total(was, Q) <= Total(was, P)
      /\ Total(was, Q) \in Int /\ Total(was, P) \in Int
  <2> HIDE DEF was, is
  <2>1. Total(is, Q) = Total(was, Q)
    BY <1>1, TotalSame
  <2>2. Total(was, Q) <= Total(was, P)
    BY <1>1, TotalPart
  <2>3. Total(was, Q) \in Int /\ Total(was, P) \in Int
    BY <1>1, TotalType
  <2> QED
    BY <2>1, <2>2, <2>3
<1>3. ASSUME FillPosition
      PROVE  LET n == Len(positions) + 1
             IN  /\ Dollars(trader.price) \in Nat
                 /\ Total(is, Q \cup {n}) = Dollars(trader.price) + Total(is, Q)
  <2> DEFINE n == Len(positions) + 1
  <2>1. n \in DOMAIN positions' /\ n \notin Q /\ positions'[n].debit = trader.price
    BY <1>3, PositionAdded
  <2>2. is[n] = Dollars(trader.price)
    BY <2>1 DEF DollarsHeld
  <2>3. Dollars(trader.price) \in Nat
    BY DollarsType DEF TypeOK, TraderTypeOK
  <2>4. Total(is, Q \cup {n}) = is[n] + Total(is, Q)
    <3> HIDE DEF n, is, was
    <3> QED
      BY <1>1, <2>1, <2>2, <2>3, TotalInsert
  <2> QED
    BY <2>2, <2>3, <2>4
<1> QED
  BY <1>2, <1>3

LEMMA OwnedAfter ==
  ASSUME TypeOK, Placed, Referred, FillsSafe, FillsKnown, [Next]_vars
  PROVE  /\ ~FillPosition => Owned' \subseteq Owned
         /\ FillPosition => Owned' = Owned \cup {Len(positions) + 1}
<1>1. Sold \subseteq Sold' /\ (FillPosition => Sold' = Sold)
  BY SoldAfter DEF FillPosition, CloseOrder, At
<1>2. ~FillPosition => DOMAIN positions' = DOMAIN positions
  BY PositionSteps DEF ClosePosition, Reopen, SetClosing, UpdatePosition, TypeOK, DeskTypeOK
<1>3. FillPosition => DOMAIN positions' = DOMAIN positions \cup {Len(positions) + 1}
                      /\ Len(positions) + 1 \notin DOMAIN positions
  BY PositionAdded
<1>4. Sold \subseteq DOMAIN positions
  BY DEF Sold, FillsKnown
<1> QED
  BY <1>1, <1>2, <1>3, <1>4 DEF Owned

(***************************************************************************)
(* A handler that is about to record an opening was sized with what it     *)
(* will record, and nobody but the trader adds to the risk in between.     *)
(***************************************************************************)
LEMMA TraderAdmits ==
  ASSUME TypeOK, Placed, [Next]_vars, trader'.pc \in Admitted
  PROVE  \/ trader.pc \in Admitted /\ trader'.price = trader.price /\ trader'.rec = trader.rec
            /\ ~FillPosition /\ ~StageDraft
         \/ \E x \in Prices : TraderStep /\ Admit(x)
                             /\ trader'.price = x /\ trader'.rec = trader.rec
<1>1. CASE trader' = trader
  BY <1>1, TraderMoves DEF Moved, Admitted
<1>2. CASE TraderBegins \/ TraderStep \/ TraderFails
  <2>1. TraderWorks \/ TraderRaises \/ TickStart
    BY <1>2 DEF TraderBegins, TraderStep, TraderFails
  <2>2. FillOrder \/ \E x \in Prices : Admit(x)
    BY <2>1, TraderMoves DEF TraderWorks, TraderRaises, Skips, Moved, Admitted
  <2>3. CASE FillOrder
    BY <2>3, TraderMoves DEF Moved, Admitted, FillPosition, StageDraft, At
  <2>4. ASSUME NEW x \in Prices, Admit(x)
        PROVE  TraderStep /\ trader'.price = x /\ trader'.rec = trader.rec
    <3>1. trader'.price = x /\ trader'.rec = trader.rec /\ trader.pc = "size"
          /\ trader'.pc # "error"
      BY <2>4, TraderMoves DEF Moved
    <3>2. ~TickStart /\ ~TraderRaises
      BY <2>4, TraderMoves DEF Moved, TraderRaises
    <3> QED
      BY <1>2, <3>1, <3>2 DEF TraderBegins, TraderFails
  <2> QED
    BY <2>2, <2>3, <2>4
<1>3. ~Crash
  BY DEF Crash, IdleTrader, Admitted
<1> QED
  BY <1>1, <1>2, <1>3 DEF Next, ManagerBegins, ManagerStep, ManagerFails, ModeCommand,
     Command, vars

LEMMA AdmitSized ==
  ASSUME TypeOK, Placed, SoldFirst, LossesKnown, PricesWithinLoss, NEW x \in Prices, Admit(x),
         trader.pc = "size"
  PROVE  LET r == trader.rec
         IN  /\ Dollars(x) \in Nat /\ Dollars(x) <= recs[r].maxLoss /\ recs[r].maxLoss \in Nat
             /\ r \in DOMAIN recs /\ recs[r].source \in Strategies
             /\ OpenRisk(Held) + StagedRisk + recs[r].maxLoss <= BookLimit
             /\ OpenRisk(HeldBy(recs[r].source)) + recs[r].maxLoss <= StrategyLimit
<1>1. trader.rec \in DOMAIN recs /\ IsOpening(trader.rec)
  BY DEF Placed, Handling, BeforeOpening
<1>2. recs[trader.rec] \in Recommendation
  BY <1>1 DEF TypeOK, DeskTypeOK
<1>3. recs[trader.rec].source \in Strategies /\ recs[trader.rec].maxLoss \in MaxLosses
  BY <1>1, <1>2 DEF Recommendation, IsOpening, LossesKnown
<1>4. Dollars(x) \in Nat /\ Dollars(x) <= recs[trader.rec].maxLoss
      /\ recs[trader.rec].maxLoss \in Nat
  BY <1>3, DollarsType, DeskAssumption DEF PricesWithinLoss
<1> QED
  BY <1>1, <1>3, <1>4 DEF Admit, SizeAllows, NewTotal, ShareAllows

(***************************************************************************)
(* The risk of the staged orders, with one person at work.                 *)
(***************************************************************************)
LEMMA StagedType ==
  ASSUME TypeOK
  PROVE  /\ IsFiniteSet(Staged) /\ \A o \in Staged : DollarsStaged[o] \in Nat
         /\ StagedRisk \in Int
<1>1. ASSUME NEW o \in Staged PROVE DollarsStaged[o] \in Nat
  <2>1. o \in DOMAIN orders /\ orders[o] \in Order
    BY DEF Staged, TypeOK, DeskTypeOK
  <2>2. orders[o].price \in Int
    BY <2>1 DEF Order
  <2> QED
    BY <2>1, <2>2, DollarsType DEF DollarsStaged
<1>2. StagedRisk \in Int
  <2> DEFINE staged == Staged
             worth == DollarsStaged
  <2>1. IsFiniteSet(staged) /\ \A o \in staged : worth[o] \in Int
    BY <1>1, FillsFinite
  <2>2. Total(worth, staged) \in Int
    <3> HIDE DEF staged, worth
    <3> QED
      BY <2>1, TotalType
  <2> QED
    BY <2>2 DEF StagedRisk, DollarsStaged
<1> QED
  BY <1>1, <1>2, FillsFinite

LEMMA StagedRiskAfter ==
  ASSUME TypeOK, Placed, OnePerson, DraftsStand, [Next]_vars
  PROVE  /\ StagedRisk' \in Int
         /\ ~StageDraft => StagedRisk' <= StagedRisk
         /\ StageDraft => /\ StagedRisk' = Dollars(trader.price) + StagedRisk
                          /\ Dollars(trader.price) \in Nat
<1> DEFINE was == DollarsStaged
           is == DollarsStaged'
           n == Len(orders) + 1
<1>1. StagedRisk = Total(was, Staged) /\ StagedRisk' = Total(is, Staged')
  BY DEF StagedRisk, DollarsStaged
<1>2. IsFiniteSet(Staged) /\ \A o \in Staged : was[o] \in Nat
  BY StagedType
<1>3. ASSUME NEW Q \in SUBSET Staged, \A o \in Q : is[o] = was[o]
      PROVE  /\ Total(is, Q) \in Int /\ IsFiniteSet(Q)
             /\ Total(is, Q) = Total(was, Q) /\ Total(is, Q) <= Total(was, Staged)
  <2> HIDE DEF was, is
  <2>1. IsFiniteSet(Q)
    BY <1>2, FS_Subset
  <2>2. Total(is, Q) = Total(was, Q)
    BY <1>3, <2>1, TotalSame
  <2>3. Total(was, Q) <= Total(was, Staged)
    BY <1>2, TotalPart
  <2>4. Total(was, Q) \in Int
    BY <1>2, <2>1, TotalType
  <2> QED
    BY <2>1, <2>2, <2>3, <2>4
<1>4. CASE ~StageDraft
  <2>1. Staged' \subseteq Staged /\ \A o \in Staged' : is[o] = was[o]
    <3>1. CASE orders' = orders
      BY <3>1 DEF Staged, DollarsStaged
    <3>2. CASE FillOrder \/ CloseOrder
      <4>1. /\ DOMAIN orders' = DOMAIN orders \cup {n}
            /\ \A o \in DOMAIN orders : orders'[o] = orders[o]
            /\ orders'[n].status = "filled"
        BY <1>4, <3>2, OrderAdded
      <4>2. Staged' \subseteq Staged
        <5> HIDE DEF n
        <5> QED
          BY <4>1 DEF Staged
      <4> QED
        BY <4>1, <4>2 DEF Staged, DollarsStaged
    <3>3. ASSUME NEW o \in DOMAIN orders, UpdateOrder(o, "cancelled")
          PROVE  Staged' \subseteq Staged /\ \A m \in Staged' : is[m] = was[m]
      <4>1. /\ DOMAIN orders' = DOMAIN orders /\ orders'[o].status = "cancelled"
            /\ \A m \in DOMAIN orders : m # o => orders'[m] = orders[m]
        BY <3>3, UpdateOrderType DEF TypeOK
      <4> QED
        BY <4>1 DEF Staged, DollarsStaged
    <3> QED
      BY <1>4, <3>1, <3>2, <3>3, OrdersStaged
  <2> HIDE DEF was, is
  <2> QED
    BY <1>1, <1>3, <1>4, <2>1
<1>5. CASE StageDraft
  <2>1. /\ DOMAIN orders' = DOMAIN orders \cup {n} /\ n \notin DOMAIN orders
        /\ \A o \in DOMAIN orders : orders'[o] = orders[o]
        /\ orders'[n].status = "draft" /\ orders'[n].price = trader.price
    BY <1>5, OrderAdded
  <2>2. /\ Staged' = Staged \cup {n} /\ n \notin Staged
        /\ \A o \in Staged : is[o] = was[o]
        /\ is[n] = Dollars(trader.price)
    <3>1. Staged' = Staged \cup {n} /\ n \notin Staged
      <4> HIDE DEF n
      <4> QED
        BY <2>1 DEF Staged
    <3> QED
      BY <2>1, <3>1 DEF Staged, DollarsStaged
  <2>3. Dollars(trader.price) \in Nat
    BY DollarsType DEF TypeOK, TraderTypeOK
  <2>4. Total(is, Staged \cup {n}) = is[n] + Total(is, Staged)
    <3> HIDE DEF was, is, n
    <3> QED
      BY <1>2, <2>2, <2>3, TotalInsert
  <2>5. Total(is, Staged) = Total(was, Staged) /\ Total(was, Staged) \in Int
    <3> HIDE DEF was, is
    <3> QED
      BY <1>2, <1>3, <2>2
  <2> HIDE DEF was, is, n
  <2> QED
    BY <1>1, <1>5, <2>2, <2>3, <2>4, <2>5
<1> QED
  BY <1>4, <1>5

-----------------------------------------------------------------------------
(* The limit of the book *)

Exposure == Total(DollarsHeld, Owned) + StagedRisk

BookKept ==
  /\ Exposure <= BookLimit
  /\ trader.pc \in Admitted => Exposure + Dollars(trader.price) <= BookLimit

LEMMA ExposureAfter ==
  ASSUME TypeOK, Placed, Referred, FillsSafe, FillsKnown, OnePerson, DraftsStand, [Next]_vars
  PROVE  /\ Exposure \in Int /\ Exposure' \in Int
         /\ ~FillPosition /\ ~StageDraft => Exposure' <= Exposure
         /\ FillPosition \/ StageDraft => Exposure' <= Exposure + Dollars(trader.price)
<1> DEFINE n == Len(positions) + 1
<1>1. Owned \in SUBSET DOMAIN positions
  BY DEF Owned
<1>2. /\ StagedRisk \in Int /\ StagedRisk' \in Int
      /\ ~StageDraft => StagedRisk' <= StagedRisk
      /\ StageDraft => /\ StagedRisk' = Dollars(trader.price) + StagedRisk
                       /\ Dollars(trader.price) \in Nat
  BY StagedType, StagedRiskAfter
<1>3. FillPosition => ~StageDraft
  BY DEF FillPosition, StageDraft, At
<1>4. CASE ~FillPosition
  <2>1. /\ Total(DollarsHeld, Owned) \in Int /\ Total(DollarsHeld', Owned') \in Int
        /\ Total(DollarsHeld', Owned') <= Total(DollarsHeld, Owned)
    <3> DEFINE is == DollarsHeld'
               later == Owned'
    <3>1. later \in SUBSET Owned
      BY <1>4, OwnedAfter
    <3>2. /\ Total(DollarsHeld, Owned) \in Int /\ Total(is, later) \in Int
          /\ Total(is, later) <= Total(DollarsHeld, Owned)
      <4> HIDE DEF later
      <4> QED
        BY <1>1, <3>1, RiskAfter
    <3> QED
      BY <3>2
  <2> QED
    BY <1>2, <1>4, <2>1 DEF Exposure
<1>5. CASE FillPosition
  <2>1. /\ Total(DollarsHeld, Owned) \in Int /\ Total(DollarsHeld', Owned) \in Int
        /\ Total(DollarsHeld', Owned) <= Total(DollarsHeld, Owned)
        /\ Dollars(trader.price) \in Nat
        /\ Total(DollarsHeld', Owned \cup {n}) =
              Dollars(trader.price) + Total(DollarsHeld', Owned)
    BY <1>1, <1>5, RiskAfter
  <2>2. Owned' = Owned \cup {n}
    BY <1>5, OwnedAfter
  <2> QED
    BY <1>2, <1>3, <1>5, <2>1, <2>2 DEF Exposure
<1> QED
  BY <1>4, <1>5

LEMMA NextBookKept ==
  ASSUME TypeOK, Placed, Referred, FillsSafe, FillsKnown, LossesKnown, SoldFirst,
         OnePerson, DraftsStand, PricesWithinLoss, BookKept, [Next]_vars
  PROVE  BookKept'
<1>1. /\ Exposure \in Int /\ Exposure' \in Int /\ BookLimit \in Nat
      /\ ~FillPosition /\ ~StageDraft => Exposure' <= Exposure
      /\ FillPosition \/ StageDraft => Exposure' <= Exposure + Dollars(trader.price)
  BY ExposureAfter, TraderAssumption
<1>2. FillPosition \/ StageDraft => trader.pc \in Admitted
  BY DEF FillPosition, StageDraft, At, Admitted
<1>3. Dollars(trader.price) \in Nat
  BY DollarsType DEF TypeOK, TraderTypeOK
<1>4. Exposure' <= BookLimit
  BY <1>1, <1>2, <1>3 DEF BookKept
<1>5. ASSUME trader'.pc \in Admitted
      PROVE  Exposure' + Dollars(trader'.price) <= BookLimit
  <2>1. CASE trader.pc \in Admitted /\ trader'.price = trader.price
             /\ ~FillPosition /\ ~StageDraft
    BY <1>1, <1>3, <2>1 DEF BookKept
  <2>2. ASSUME NEW x \in Prices, Admit(x), trader'.price = x
        PROVE  Exposure' + Dollars(trader'.price) <= BookLimit
    <3>1. trader.pc = "size" /\ ~FillPosition /\ ~StageDraft
      BY <2>2 DEF Admit, At, FillPosition, StageDraft
    <3>2. /\ Dollars(x) \in Nat /\ Dollars(x) <= recs[trader.rec].maxLoss
          /\ recs[trader.rec].maxLoss \in Nat
          /\ OpenRisk(Held) + StagedRisk + recs[trader.rec].maxLoss <= BookLimit
      BY <2>2, <3>1, AdmitSized
    <3>3. /\ Total(DollarsHeld, Owned) <= OpenRisk(Held) /\ OpenRisk(Held) \in Int
          /\ Total(DollarsHeld, Owned) \in Int
      <4>1. Owned \in SUBSET Held /\ Held \in SUBSET DOMAIN positions
        BY HeldNotSold DEF Held
      <4>2. OpenRisk(Held) = Total(DollarsHeld, Held)
        BY DEF OpenRisk, DollarsHeld
      <4>3. /\ IsFiniteSet(Held) /\ IsFiniteSet(Owned)
            /\ \A p \in Held : DollarsHeld[p] \in Nat
        BY <4>1, DollarsHeldType, FS_Subset
      <4> QED
        BY <4>1, <4>2, <4>3, TotalPart, TotalType
    <3>4. StagedRisk \in Int
      BY StagedType
    <3>5. Exposure + Dollars(x) <= BookLimit
      BY <1>1, <3>2, <3>3, <3>4 DEF Exposure
    <3> QED
      BY <1>1, <2>2, <3>1, <3>2, <3>5
  <2> QED
    BY <1>5, <2>1, <2>2, TraderAdmits
<1> QED
  BY <1>4, <1>5 DEF BookKept

LEMMA InitLimits ==
  ASSUME Init
  PROVE  /\ LossesKnown /\ SoldFirst /\ DraftsStand
         /\ Owned = {} /\ StagedRisk = 0 /\ trader.pc = "idle"
<1>1. /\ recs = << >> /\ orders = << >> /\ positions = << >> /\ trader.pc = "idle"
      /\ \A h \in Operators : human[h].pc = "idle"
  BY DEF Init, DeskInit, TraderInit, IdleTrader, HumanInit, IdleHuman
<1>2. StagedRisk = 0
  <2>1. Staged = {}
    BY <1>1 DEF Staged
  <2> QED
    BY <2>1, TotalEmpty DEF StagedRisk
<1> QED
  BY <1>1, <1>2 DEF LossesKnown, SoldFirst, DraftsStand, HasDraft, Owned

(***************************************************************************)
(* docs/safety.md, max_book_pct: in every state, after any number of       *)
(* crashes and failing writes, what is held and staged is within the       *)
(* limit, if one person is at work and fills cost no more than max_loss.   *)
(***************************************************************************)
THEOREM BookWithinLimit ==
  OnePerson /\ PricesWithinLoss => (Spec => []BookRiskBound)
<1> SUFFICES ASSUME OnePerson, PricesWithinLoss
             PROVE  Spec => []BookRiskBound
  OBVIOUS
<1> DEFINE IInv == /\ TypeOK /\ Placed /\ Referred /\ FillsSafe /\ FillsKnown
                   /\ LossesKnown /\ SoldFirst /\ Staging /\ BookKept
<1>1. Init => IInv
  <2> SUFFICES ASSUME Init PROVE IInv
    OBVIOUS
  <2>1. Exposure = 0
    <3>1. Total(DollarsHeld, {}) = 0
      BY TotalEmpty
    <3> QED
      BY <3>1, InitLimits DEF Exposure
  <2>2. BookKept
    BY <2>1, InitLimits, TraderAssumption DEF BookKept, Admitted
  <2>3. Staging
    BY InitLimits DEF Staging, StagedOnce, NoneStaged, BeforeOpening, Init, DeskInit
  <2> QED
    BY <2>2, <2>3, InitPlaced, InitFills, InitLimits
<1>2. IInv /\ [Next]_vars => IInv'
  <2>1. Staging => DraftsStand
    BY DEF Staging
  <2> QED
    BY <2>1, NextPlaced, NextReferred, NextFillsSafe, NextFillsKnown, NextLossesKnown,
       NextSoldFirst, NextStaging, NextBookKept
<1>3. IInv => BookRiskBound
  <2>1. OpenRisk(Owned) = Total(DollarsHeld, Owned)
    BY DEF OpenRisk, DollarsHeld
  <2> QED
    BY <2>1, HeldNotSold DEF BookKept, Exposure, BookRiskBound
<1> QED
  BY <1>1, <1>2, <1>3, PTL DEF Spec

-----------------------------------------------------------------------------
(* The share of a strategy *)

Share(s) == Total(DollarsHeld, OwnedBy(s))

ShareKept ==
  /\ \A s \in Strategies : Share(s) <= StrategyLimit
  /\ trader.pc \in Admitted =>
       Share(recs[trader.rec].source) + Dollars(trader.price) <= StrategyLimit

LEMMA ShareAfter ==
  ASSUME TypeOK, Placed, Referred, FillsSafe, FillsKnown, [Next]_vars, NEW s \in Strategies
  PROVE  /\ Share(s) \in Int /\ Share(s)' \in Int
         /\ \/ Share(s)' <= Share(s)
            \/ /\ FillPosition /\ s = recs[trader.rec].source
               /\ Share(s)' <= Share(s) + Dollars(trader.price)
<1> DEFINE n == Len(positions) + 1
           is == DollarsHeld'
           was == DollarsHeld
           old == OwnedBy(s)
           new == OwnedBy(s)'
<1>1. old \in SUBSET DOMAIN positions
  BY DEF OwnedBy, Owned
<1>2. Share(s) = Total(was, old) /\ Share(s)' = Total(is, new)
  BY DEF Share
<1>3. ASSUME NEW Q \in SUBSET old
      PROVE  /\ Total(was, old) \in Int /\ Total(is, Q) \in Int
             /\ Total(is, Q) <= Total(was, old)
             /\ FillPosition => /\ Dollars(trader.price) \in Nat
                                /\ Total(is, Q \cup {n}) =
                                     Dollars(trader.price) + Total(is, Q)
  <2> HIDE DEF old
  <2> QED
    BY <1>1, RiskAfter
<1>4. CASE ~FillPosition
  <2>1. new \subseteq old
    BY <1>4, OwnedAfter, DebitsKept DEF OwnedBy, Owned
  <2> HIDE DEF new, old, is, was
  <2> QED
    BY <1>2, <1>3, <2>1
<1>5. CASE FillPosition
  <2>1. /\ Owned' = Owned \cup {n} /\ n \notin DOMAIN positions
        /\ positions'[n].strategy = recs[trader.rec].source
    BY <1>5, OwnedAfter, PositionAdded
  <2>2. \A p \in Owned : positions'[p].strategy = positions[p].strategy
    BY DebitsKept DEF Owned
  <2>3. new = IF s = recs[trader.rec].source THEN old \cup {n} ELSE old
    <3> HIDE DEF n
    <3> QED
      BY <2>1, <2>2 DEF OwnedBy
  <2> HIDE DEF new, old, is, was
  <2> QED
    BY <1>2, <1>3, <1>5, <2>3
<1> QED
  BY <1>4, <1>5

LEMMA NextShareKept ==
  ASSUME TypeOK, Placed, Referred, FillsSafe, FillsKnown, LossesKnown, SoldFirst,
         PricesWithinLoss, ShareKept, [Next]_vars
  PROVE  ShareKept'
<1>0. TypeOK' /\ TablesGrow
  BY NextPlaced
<1>1. StrategyLimit \in Nat /\ Dollars(trader.price) \in Nat
  BY TraderAssumption, DollarsType DEF TypeOK, TraderTypeOK
<1>2. FillPosition => trader.pc \in Admitted
  BY DEF FillPosition, At, Admitted
<1>3. ASSUME NEW s \in Strategies
      PROVE  Share(s)' <= StrategyLimit
  BY <1>1, <1>2, ShareAfter DEF ShareKept
<1>4. ASSUME trader'.pc \in Admitted
      PROVE  Share(recs[trader.rec].source)' + Dollars(trader'.price) <= StrategyLimit
  <2>1. /\ trader'.rec = trader.rec /\ ~FillPosition /\ trader.rec \in DOMAIN recs
        /\ IsOpening(trader.rec)
    BY <1>4, TraderAdmits DEF Placed, Admit, FillPosition, At, Admitted, Handling,
       BeforeOpening, DuringOpening
  <2> DEFINE s == recs[trader.rec].source
  <2>2. recs'[trader'.rec].source = s /\ s \in Strategies
    <3>1. recs[trader.rec] \in Recommendation
      BY <2>1 DEF TypeOK, DeskTypeOK
    <3> QED
      BY <1>0, <2>1, <3>1 DEF TablesGrow, Recommendation, IsOpening
  <2>3. Share(recs[trader.rec].source)' = Total(DollarsHeld', {p \in Owned' :
                                            positions'[p].strategy = s})
    BY <2>2 DEF Share, OwnedBy
  <2> HIDE DEF s
  <2>4. ASSUME NEW q \in Strategies, q = s
        PROVE  /\ Share(recs[trader.rec].source)' <= Share(q)
               /\ Share(q) \in Int /\ Share(recs[trader.rec].source)' \in Int
    <3>1. Share(recs[trader.rec].source)' = Share(q)'
      BY <2>3, <2>4 DEF Share, OwnedBy
    <3> QED
      BY <2>1, <2>4, <3>1, ShareAfter
  <2>5. ASSUME NEW q \in Strategies, q = s
        PROVE  Share(q) + Dollars(trader'.price) <= StrategyLimit
    <3>1. CASE trader.pc \in Admitted /\ trader'.price = trader.price
      BY <2>5, <3>1 DEF ShareKept, s
    <3>2. ASSUME NEW x \in Prices, Admit(x), trader'.price = x
          PROVE  Share(q) + Dollars(trader'.price) <= StrategyLimit
      <4>1. /\ Dollars(x) \in Nat /\ Dollars(x) <= recs[trader.rec].maxLoss
            /\ recs[trader.rec].maxLoss \in Nat
            /\ OpenRisk(HeldBy(recs[trader.rec].source)) + recs[trader.rec].maxLoss
                 <= StrategyLimit
        BY <3>2, AdmitSized DEF Admit, At
      <4>2. OpenRisk(HeldBy(recs[trader.rec].source)) = Total(DollarsHeld, HeldBy(q))
        BY <2>5 DEF OpenRisk, DollarsHeld, s
      <4>3. /\ Total(DollarsHeld, OwnedBy(q)) <= Total(DollarsHeld, HeldBy(q))
            /\ Total(DollarsHeld, OwnedBy(q)) \in Int /\ Total(DollarsHeld, HeldBy(q)) \in Int
        <5>1. OwnedBy(q) \in SUBSET HeldBy(q) /\ HeldBy(q) \in SUBSET DOMAIN positions
          BY HeldNotSold DEF OwnedBy, HeldBy, Held
        <5>2. /\ IsFiniteSet(HeldBy(q)) /\ IsFiniteSet(OwnedBy(q))
              /\ \A p \in HeldBy(q) : DollarsHeld[p] \in Nat
          BY <5>1, DollarsHeldType, FS_Subset
        <5> QED
          BY <5>1, <5>2, TotalPart, TotalType
      <4> QED
        BY <1>1, <3>2, <4>1, <4>2, <4>3 DEF Share
    <3> QED
      BY <1>4, <3>1, <3>2, TraderAdmits
  <2>6. Dollars(trader'.price) \in Int
    BY <1>0, DollarsType DEF TypeOK, TraderTypeOK
  <2> QED
    BY <1>1, <2>2, <2>4, <2>5, <2>6 DEF s
<1> QED
  BY <1>3, <1>4 DEF ShareKept

(***************************************************************************)
(* docs/safety.md, single_strategy_pct: the same for one strategy, with    *)
(* any number of people, since a staged order never becomes a position.    *)
(***************************************************************************)
THEOREM ShareWithinLimit == PricesWithinLoss => (Spec => []StrategyShareBound)
<1> SUFFICES ASSUME PricesWithinLoss
             PROVE  Spec => []StrategyShareBound
  OBVIOUS
<1> DEFINE IInv == /\ TypeOK /\ Placed /\ Referred /\ FillsSafe /\ FillsKnown
                   /\ LossesKnown /\ SoldFirst /\ ShareKept
<1>1. Init => IInv
  <2> SUFFICES ASSUME Init PROVE IInv
    OBVIOUS
  <2>1. \A s \in Strategies : Share(s) = 0
    <3>1. Total(DollarsHeld, {}) = 0
      BY TotalEmpty
    <3> QED
      BY <3>1, InitLimits DEF Share, OwnedBy
  <2>2. ShareKept
    BY <2>1, InitLimits, TraderAssumption DEF ShareKept, Admitted
  <2> QED
    BY <2>2, InitPlaced, InitFills, InitLimits
<1>2. IInv /\ [Next]_vars => IInv'
  BY NextPlaced, NextReferred, NextFillsSafe, NextFillsKnown, NextLossesKnown,
     NextSoldFirst, NextShareKept
<1>3. IInv => StrategyShareBound
  <2> SUFFICES ASSUME IInv, NEW s \in Strategies
               PROVE  OpenRisk(HeldBy(s) \ Sold) <= StrategyLimit
    BY DEF StrategyShareBound
  <2>1. HeldBy(s) \ Sold = OwnedBy(s)
    BY HeldNotSold DEF HeldBy, OwnedBy
  <2>2. OpenRisk(OwnedBy(s)) = Total(DollarsHeld, OwnedBy(s))
    BY DEF OpenRisk, DollarsHeld
  <2> QED
    BY <2>1, <2>2 DEF ShareKept, Share
<1> QED
  BY <1>1, <1>2, <1>3, PTL DEF Spec

-----------------------------------------------------------------------------
(* One tick at a time *)

(***************************************************************************)
(* How the tests and `--once` run the daemons: the ticks take turns,       *)
(* nothing fails, and people leave the closing recommendations alone.      *)
(***************************************************************************)
Sequential ==
  TicksOverlap = FALSE /\ RejectsCloses = FALSE /\ MaxCrashes = 0 /\ MaxFaults = 0

(***************************************************************************)
(* A person works on an opening, a position about to be set to 'closing'   *)
(* has its closing recommendation, and a closing recommendation is done    *)
(* with when its position is no longer held.                               *)
(***************************************************************************)
Turns ==
  /\ trader.pc = "idle" \/ manager.pc = "idle"
  /\ trader.pc # "error"
  /\ \A h \in Operators : human[h].pc # "idle" =>
       human[h].rec \in DOMAIN recs /\ IsOpening(human[h].rec)
  /\ manager.pc = "closing" => PendingClose(manager.position) # {}
  /\ trader.pc \in {"gone", "closeRec"} => Closing \notin Held

LEMMA SequentialSteps ==
  ASSUME TypeOK, Turns, Sequential, [Next]_vars
  PROVE  /\ ~TraderFails /\ ~ManagerFails /\ ~Crash /\ ~HandlerError
         /\ ManagerBegins \/ ManagerStep => trader.pc = "idle"
         /\ TraderBegins \/ TraderStep => manager.pc = "idle"
<1>1. ~TraderFails /\ ~ManagerFails /\ ~Crash
  BY DEF TraderFails, TraderRaises, HandlerRaises, TickRaises, ManagerFails, ManagerRaises,
     Crash, TypeOK, DeskTypeOK, Sequential
<1>2. ~HandlerError
  BY DEF HandlerError, At, Turns
<1>3. ManagerBegins \/ ManagerStep => trader.pc = "idle"
  BY DEF ManagerBegins, ManagerStep, ManagerWorks, PassedOver, EmitClose, SetClosing,
     ScanEnd, Sequential, Turns
<1>4. TraderStep => trader.pc # "idle"
  BY <1>2, TraderMoves DEF TraderStep, TraderWorks, CountSlots, ListPending, TakeRec, TickEnd,
     Emit, OpeningStaged, OpeningFresh, Refuse, RefuseLive, Admit, StageDraft, FillOrder,
     FillPosition, FillRec, CloseGone, MarkGone, CloseUnquoted, CloseQuoted, CloseOrder,
     ClosePosition, CloseRec, ClosePnl, RefuseClose, Reopen, Note, At
<1>5. TraderBegins \/ TraderStep => manager.pc = "idle"
  BY <1>4 DEF TraderBegins, Sequential, Turns
<1> QED
  BY <1>1, <1>2, <1>3, <1>5

(***************************************************************************)
(* The recommendation a person works on was read when the command began.   *)
(***************************************************************************)
LEMMA HumanRecs ==
  ASSUME TypeOK, Command, NEW k \in Operators, human'[k].pc # "idle"
  PROVE  \/ human[k].pc # "idle" /\ human'[k].rec = human[k].rec
         \/ /\ human'[k].rec \in DOMAIN recs
            /\ IsOpening(human'[k].rec) \/ RejectsCloses
<1>1. PICK h \in Operators : CommandBegins(h) \/ CommandWorks(h) \/ CommandDies(h)
  BY DEF Command
<1>2. human[h] \in [pc : {"idle", "order", "writeOrder", "writeRec"},
                    act : {"approve", "reject"}, rec : 0 .. Len(recs),
                    order : 0 .. Len(orders)]
      /\ human \in [Operators -> [pc : {"idle", "order", "writeOrder", "writeRec"},
                    act : {"approve", "reject"}, rec : 0 .. Len(recs),
                    order : 0 .. Len(orders)]]
  BY DEF TypeOK, HumanTypeOK
<1>3. CASE CommandBegins(h)
  <2>1. PICK act \in {"approve", "reject"}, r \in DOMAIN recs : ReadRec(h, act, r)
    BY <1>3 DEF CommandBegins
  <2>2. human'[h].rec = r /\ (k # h => human'[k] = human[k])
    BY <1>2, <2>1 DEF ReadRec, IdleHuman
  <2> QED
    BY <2>1, <2>2 DEF ReadRec, IsOpening
<1>4. CASE ReadOrder(h)
  <2>1. human'[k].rec = human[k].rec /\ human[h].pc = "order"
        /\ (k # h => human'[k] = human[k])
    BY <1>2, <1>4 DEF ReadOrder
  <2> QED
    BY <2>1
<1>5. CASE NoOrder(h)
  <2>1. \/ human' = [human EXCEPT ![h] = IdleHuman]
        \/ human' = [human EXCEPT ![h] = [human[h] EXCEPT !.pc = "writeRec"]]
    BY <1>5 DEF NoOrder
  <2>2. human[h].pc = "order"
    BY <1>5 DEF NoOrder
  <2> QED
    BY <1>2, <2>1, <2>2 DEF IdleHuman
<1>6. CASE ApproveRec(h) \/ CancelOrder(h)
  <2>1. human[h].pc # "idle" /\ \E pc : human' = [human EXCEPT ![h].pc = pc]
    BY <1>6 DEF ApproveRec, CancelOrder
  <2> QED
    BY <1>2, <2>1
<1>7. CASE ApproveOrder(h) \/ RejectRec(h) \/ CommandDies(h)
  BY <1>2, <1>7 DEF ApproveOrder, RejectRec, CommandDies, IdleHuman
<1> QED
  BY <1>1, <1>3, <1>4, <1>5, <1>6, <1>7 DEF CommandWorks

LEMMA HumanOpenings ==
  ASSUME TypeOK, Placed, Turns, Sequential, [Next]_vars
  PROVE  \A h \in Operators : human'[h].pc # "idle" =>
           human'[h].rec \in DOMAIN recs' /\ IsOpening(human[h].rec)'
<1>0. TypeOK' /\ TablesGrow
  BY NextPlaced
<1> SUFFICES ASSUME NEW k \in Operators, human'[k].pc # "idle"
             PROVE  /\ human'[k].rec \in DOMAIN recs'
                    /\ recs'[human'[k].rec].source # PositionManager
  BY DEF IsOpening
<1>1. ASSUME NEW r \in DOMAIN recs, IsOpening(r), human'[k].rec = r
      PROVE  r \in DOMAIN recs' /\ recs'[r].source # PositionManager
  BY <1>0, <1>1 DEF TablesGrow, IsOpening
<1>2. human[k].pc # "idle" => human[k].rec \in DOMAIN recs /\ IsOpening(human[k].rec)
  BY DEF Turns
<1>3. CASE Command
  BY <1>1, <1>2, <1>3, HumanRecs DEF Sequential
<1>4. CASE ~Command
  <2>1. human' = human
    BY <1>4 DEF Next, TraderBegins, TraderStep, TraderFails, ManagerBegins, ManagerStep,
       ManagerFails, ModeCommand, Crash, vars
  <2> QED
    BY <1>1, <1>2, <2>1
<1> QED
  BY <1>3, <1>4

(***************************************************************************)
(* Who writes the status of a recommendation.                              *)
(***************************************************************************)
LEMMA RecWrites ==
  ASSUME TypeOK, [Next]_vars, NEW r \in DOMAIN recs, recs'[r] # recs[r]
  PROVE  \/ /\ TraderStep /\ r = trader.rec
            /\ Refuse \/ RefuseLive \/ FillRec \/ MarkGone \/ CloseRec \/ RefuseClose
                 \/ HandlerError
         \/ \E h \in Operators : r = human[h].rec /\ human[h].pc = "writeRec"
<1>1. ASSUME NEW source, NEW position, NEW maxLoss, InsertRec(source, position, maxLoss)
      PROVE  FALSE
  <2> DEFINE row == [source |-> source, position |-> position,
                     maxLoss |-> maxLoss, status |-> "pending"]
  <2>1. recs \in Seq(Recommendation) /\ recs' = Append(recs, row)
    BY <1>1 DEF InsertRec, TypeOK, DeskTypeOK
  <2> HIDE DEF row
  <2> QED
    BY <2>1
<1>2. ASSUME NEW q, NEW status, UpdateRec(q, status)
      PROVE  r = q
  BY <1>2 DEF UpdateRec, TypeOK, DeskTypeOK
<1>3. CASE Command
  <2>1. PICK h \in Operators : CommandBegins(h) \/ CommandWorks(h) \/ CommandDies(h)
    BY <1>3 DEF Command
  <2>2. ApproveRec(h) \/ RejectRec(h)
    BY <2>1 DEF CommandBegins, CommandWorks, ReadRec, ReadOrder, NoOrder, ApproveOrder,
       CancelOrder, CommandDies, deskVars
  <2> QED
    BY <1>2, <2>2 DEF ApproveRec, RejectRec
<1>4. CASE TraderStep
  <2>1. \/ Refuse \/ RefuseLive \/ FillRec \/ MarkGone \/ CloseRec \/ RefuseClose
           \/ HandlerError
        \/ \E s \in Strategies, l \in MaxLosses : Emit(s, l)
    BY <1>4 DEF TraderStep, TraderWorks, CountSlots, ListPending, TakeRec, TickEnd,
       OpeningStaged, OpeningFresh, Admit, StageDraft, FillOrder, FillPosition, CloseGone,
       CloseUnquoted, CloseQuoted, CloseOrder, ClosePosition, ClosePnl, Reopen, Note, deskVars
  <2>2. ASSUME NEW s \in Strategies, NEW l \in MaxLosses, Emit(s, l)
        PROVE  FALSE
    BY <1>1, <2>2 DEF Emit
  <2> QED
    BY <1>2, <1>4, <2>1, <2>2 DEF Refuse, RefuseLive, FillRec, MarkGone, CloseRec,
       RefuseClose, HandlerError
<1>5. CASE ManagerStep
  BY <1>1, <1>5 DEF ManagerStep, ManagerWorks, PassedOver, EmitClose, SetClosing, ScanEnd,
     deskVars
<1>6. CASE TraderBegins \/ TraderFails \/ ManagerBegins \/ ManagerFails
             \/ ModeCommand \/ Crash \/ UNCHANGED vars
  BY <1>6 DEF TraderBegins, TickStart, TraderFails, TraderRaises, HandlerRaises, TickRaises,
     ManagerBegins, ManagerFails, ListPositions, ManagerRaises, ModeCommand, SetMode, Crash,
     deskVars, vars
<1> QED
  BY <1>3, <1>4, <1>5, <1>6 DEF Next

(***************************************************************************)
(* Only the trader settles a closing recommendation.                       *)
(***************************************************************************)
LEMMA PendingCloseAfter ==
  ASSUME TypeOK, Placed, Turns, [Next]_vars, NEW p, NEW r \in PendingClose(p)
  PROVE  \/ r \in PendingClose(p)'
         \/ TraderStep /\ (MarkGone \/ CloseRec \/ RefuseClose) /\ p = Closing
<1>0. TypeOK' /\ TablesGrow
  BY NextPlaced
<1>1. /\ r \in DOMAIN recs /\ ~IsOpening(r) /\ recs[r].position = p
      /\ recs[r].status \in {"pending", "approved"}
  BY DEF PendingClose, IsOpening
<1>2. CASE recs'[r] = recs[r]
  BY <1>0, <1>1, <1>2 DEF PendingClose, IsOpening, TablesGrow
<1>3. CASE recs'[r] # recs[r]
  <2>1. ~ \E h \in Operators : r = human[h].rec /\ human[h].pc = "writeRec"
    BY <1>1 DEF Turns
  <2>2. /\ TraderStep /\ r = trader.rec
        /\ Refuse \/ RefuseLive \/ FillRec \/ MarkGone \/ CloseRec \/ RefuseClose
             \/ HandlerError
    BY <1>1, <1>3, <2>1, RecWrites
  <2>3. ~Refuse /\ ~RefuseLive /\ ~FillRec
    BY <1>1, <2>2 DEF Refuse, RefuseLive, FillRec, At, Placed, BeforeOpening, DuringOpening
  <2>4. ~HandlerError
    BY DEF HandlerError, At, Turns
  <2> QED
    BY <1>1, <2>2, <2>3, <2>4 DEF Closing
<1> QED
  BY <1>2, <1>3

LEMMA NextTurns ==
  ASSUME TypeOK, Placed, Turns, Sequential, [Next]_vars
  PROVE  Turns'
<1>0. TypeOK' /\ TablesGrow
  BY NextPlaced
<1>1. /\ ~TraderFails /\ ~ManagerFails /\ ~Crash /\ ~HandlerError
      /\ ManagerBegins \/ ManagerStep => trader.pc = "idle"
      /\ TraderBegins \/ TraderStep => manager.pc = "idle"
  BY SequentialSteps
<1>2. \/ (TraderBegins \/ TraderStep) /\ manager.pc = "idle" /\ manager' = manager
      \/ (ManagerBegins \/ ManagerStep) /\ trader.pc = "idle" /\ trader' = trader
      \/ UNCHANGED <<trader, manager>>
  BY <1>1 DEF Next, TraderBegins, TraderStep, ManagerBegins, ManagerStep, ModeCommand,
     Command, vars
<1>3. trader'.pc = "idle" \/ manager'.pc = "idle"
  BY <1>2 DEF Turns
<1>4. trader'.pc # "error"
  <2>1. CASE TraderStep
    BY <1>1, <2>1, TraderMoves DEF TraderStep, TraderWorks, Skips, Moved
  <2>2. CASE TraderBegins
    BY <2>2, TraderMoves DEF TraderBegins, Moved
  <2> QED
    BY <1>2, <2>1, <2>2 DEF Turns
<1>5. \A h \in Operators : human'[h].pc # "idle" =>
           human'[h].rec \in DOMAIN recs' /\ IsOpening(human[h].rec)'
  BY HumanOpenings
<1>6. manager'.pc = "closing" => PendingClose(manager.position)' # {}
  <2>1. CASE ManagerStep /\ EmitClose
    <3>1. PICK p \in manager.todo :
            /\ manager' = [manager EXCEPT !.pc = "closing", !.todo = @ \ {p}, !.position = p]
            /\ InsertRec(PositionManager, p, 0)
      BY <2>1 DEF EmitClose
    <3>2. manager'.position = p /\ p \in Nat
      BY <3>1, Lengths DEF TypeOK, ManagerTypeOK
    <3> DEFINE row == [source |-> PositionManager, position |-> p, maxLoss |-> 0,
                       status |-> "pending"]
    <3>3. row.source = PositionManager /\ row.position = p /\ row.status = "pending"
      OBVIOUS
    <3>4. recs \in Seq(Recommendation) /\ recs' = Append(recs, row)
      BY <3>1 DEF InsertRec, TypeOK, DeskTypeOK
    <3> HIDE DEF row
    <3>5. Len(recs) + 1 \in DOMAIN recs' /\ recs'[Len(recs) + 1] = row
      BY <3>4
    <3> QED
      BY <3>2, <3>3, <3>5 DEF PendingClose
  <2>2. CASE manager'.pc = "closing" /\ ~(ManagerStep /\ EmitClose)
    <3>1. manager' = manager
      <4>1. ManagerBegins \/ ScanEnd => manager'.pc \in {"scan", "idle"}
        <5>1. ManagerBegins => manager'.pc = "scan"
          BY DEF ManagerBegins, ListPositions, IdleManager
        <5>2. ScanEnd => manager'.pc = "idle"
          BY DEF ScanEnd, IdleManager
        <5> QED
          BY <5>1, <5>2
      <4>2. PassedOver => manager'.pc = "scan"
        BY DEF PassedOver, TypeOK, ManagerTypeOK
      <4>3. SetClosing => manager'.pc = "scan"
        BY DEF SetClosing, TypeOK, ManagerTypeOK
      <4> QED
        BY <1>2, <2>2, <4>1, <4>2, <4>3 DEF ManagerStep, ManagerWorks
    <3>2. trader.pc = "idle"
      BY <2>2, <3>1 DEF Turns
    <3>3. PICK r \in PendingClose(manager.position) : TRUE
      BY <2>2, <3>1 DEF Turns
    <3>4. r \in PendingClose(manager.position)'
      BY <3>1, <3>2, <3>3, PendingCloseAfter DEF MarkGone, CloseRec, RefuseClose, At
    <3> QED
      BY <3>1, <3>4
  <2> QED
    BY <2>1, <2>2
<1>7. trader'.pc \in {"gone", "closeRec"} => (Closing \notin Held)'
  <2>1. CASE CloseGone /\ TraderStep
    <3>1. trader'.rec = trader.rec /\ recs' = recs /\ positions' = positions
      BY <2>1, TraderMoves DEF CloseGone, Moved, deskVars
    <3> QED
      BY <2>1, <3>1 DEF CloseGone, Closing, Held
  <2>2. CASE ClosePosition /\ TraderStep
    <3>1. /\ trader'.rec = trader.rec /\ recs' = recs
          /\ Closing \in DOMAIN positions /\ Realized \in Int
      BY <2>2, TraderMoves, RealizedType DEF ClosePosition, Moved, At, Placed, DuringClosing
    <3>2. positions'[Closing].status = "closed"
      BY <2>2, <3>1, PositionWritten DEF ClosePosition, TypeOK
    <3> QED
      BY <3>1, <3>2 DEF Closing, Held
  <2>3. CASE trader'.pc \in {"gone", "closeRec"} /\ ~((CloseGone \/ ClosePosition) /\ TraderStep)
    <3>1. ~TraderStep /\ ~TraderBegins
      BY <1>1, <2>3, TraderMoves DEF TraderStep, TraderBegins, TraderWorks, Skips, Moved
    <3>2. trader' = trader /\ ~ManagerStep
      BY <1>1, <1>2, <2>3, <3>1
    <3>3. positions' = positions
      BY <3>1, <3>2, PositionSteps
    <3>4. trader.rec \in DOMAIN recs
      BY <2>3, <3>2 DEF Placed, Handling
    <3>5. Closing' = Closing
      BY <1>0, <3>2, <3>4 DEF TablesGrow, Closing
    <3> QED
      BY <2>3, <3>2, <3>3, <3>5 DEF Turns, Held
  <2> QED
    BY <2>1, <2>2, <2>3
<1> QED
  BY <1>3, <1>4, <1>5, <1>6, <1>7 DEF Turns

LEMMA NextClosingPending ==
  ASSUME TypeOK, Placed, Turns, Sequential, ClosingHasPendingClose, [Next]_vars
  PROVE  ClosingHasPendingClose'
<1>0. TypeOK' /\ TablesGrow
  BY NextPlaced
<1>1. /\ ~TraderFails /\ ~ManagerFails /\ ~Crash /\ ~HandlerError
      /\ ManagerBegins \/ ManagerStep => trader.pc = "idle"
  BY SequentialSteps
<1> SUFFICES ASSUME NEW p \in DOMAIN positions', positions'[p].status = "closing"
             PROVE  \/ PendingClose(p)' # {}
                    \/ trader'.pc = "reopen" /\ Closing' = p
  BY DEF ClosingHasPendingClose
<1>2. CASE p \notin DOMAIN positions \/ positions'[p] # positions[p]
  <2>1. CASE TraderStep /\ FillPosition
    BY <1>2, <2>1, PositionAdded
  <2>2. CASE TraderStep /\ (ClosePosition \/ Reopen)
    <3>1. /\ Closing \in DOMAIN positions
          /\ \E status \in {"open", "closed"}, realized \in Int :
               UpdatePosition(Closing, status, realized)
      BY <2>2, RealizedType DEF ClosePosition, Reopen, At, Placed, DuringClosing
    <3> QED
      BY <1>2, <3>1, PositionWritten DEF TypeOK
  <2>3. CASE ManagerStep /\ SetClosing
    <3>1. manager.pc = "closing" /\ trader.pc = "idle" /\ trader' = trader
      BY <1>1, <2>3 DEF SetClosing, ManagerStep
    <3>2. manager.position = p
      BY <1>2, <2>3 DEF SetClosing, UpdatePosition, TypeOK, DeskTypeOK
    <3>3. PICK r \in PendingClose(p) : TRUE
      BY <3>1, <3>2 DEF Turns
    <3> QED
      BY <3>1, <3>3, PendingCloseAfter DEF MarkGone, CloseRec, RefuseClose, At
  <2> QED
    BY <1>2, <2>1, <2>2, <2>3, PositionSteps
<1>3. CASE p \in DOMAIN positions /\ positions'[p] = positions[p]
  <2>1. CASE PendingClose(p) # {} /\ PendingClose(p)' = {}
    <3>1. TraderStep /\ (MarkGone \/ CloseRec \/ RefuseClose) /\ p = Closing
      BY <2>1, PendingCloseAfter
    <3>2. trader.pc \in {"gone", "closeRec"} => p \notin Held
      BY <3>1 DEF Turns
    <3>3. RefuseClose
      BY <1>3, <3>1, <3>2 DEF Held, MarkGone, CloseRec, At
    <3>4. trader'.pc = "reopen" /\ trader'.rec = trader.rec /\ trader.rec \in DOMAIN recs
      BY <3>3, TraderMoves DEF Moved, Placed, Handling
    <3> QED
      BY <1>0, <3>1, <3>4 DEF TablesGrow, Closing
  <2>2. CASE PendingClose(p) = {}
    <3>1. trader.pc = "reopen" /\ Closing = p
      BY <1>3, <2>2 DEF ClosingHasPendingClose
    <3>2. CASE TraderStep
      <4>1. Reopen
        BY <1>1, <3>1, <3>2, TraderMoves DEF TraderStep, TraderWorks, Skips, OpeningStaged,
           Refuse, RefuseLive, FillRec, MarkGone, CloseUnquoted, Note, TakeRec, ListPending,
           TickEnd, At
      <4> QED
        BY <1>3, <3>1, <4>1, PositionWritten DEF Reopen, TypeOK
    <3>3. CASE ~TraderStep
      <4>1. trader' = trader
        BY <1>1, <3>1, <3>3 DEF Next, TraderBegins, TickStart, At, ModeCommand, Command, vars
      <4>2. trader.rec \in DOMAIN recs
        BY <3>1 DEF Placed, Handling
      <4> QED
        BY <1>0, <3>1, <4>1, <4>2 DEF TablesGrow, Closing
    <3> QED
      BY <3>2, <3>3
  <2> QED
    BY <2>1, <2>2
<1> QED
  BY <1>2, <1>3

(***************************************************************************)
(* One tick at a time, a position that is put up for exit always has the   *)
(* closing recommendation that the trader will act upon.  (Of the threads  *)
(* of daemons/main.py it is not true.)                                     *)
(***************************************************************************)
THEOREM ExitsStayPending == Sequential => (Spec => []ClosingHasPendingClose)
<1> SUFFICES ASSUME Sequential
             PROVE  Spec => []ClosingHasPendingClose
  OBVIOUS
<1> DEFINE IInv == TypeOK /\ Placed /\ Turns /\ ClosingHasPendingClose
<1>1. Init => IInv
  <2> SUFFICES ASSUME Init PROVE IInv
    OBVIOUS
  <2>1. recs = << >> /\ trader.pc = "idle" /\ positions = << >>
    BY DEF Init, DeskInit, TraderInit, IdleTrader
  <2>2. manager.pc = "idle" /\ \A h \in Operators : human[h].pc = "idle"
    BY DEF Init, ManagerInit, IdleManager, HumanInit, IdleHuman
  <2>3. Turns /\ ClosingHasPendingClose
    BY <2>1, <2>2 DEF Turns, ClosingHasPendingClose
  <2> QED
    BY <2>3, InitPlaced
<1>2. IInv /\ [Next]_vars => IInv'
  BY NextPlaced, NextTurns, NextClosingPending
<1>3. IInv => ClosingHasPendingClose
  OBVIOUS
<1> QED
  BY <1>1, <1>2, <1>3, PTL DEF Spec

-----------------------------------------------------------------------------
(* The position book *)

(***************************************************************************)
(* The manager's list is not stale: what it holds is open, and so is the   *)
(* position that is about to be set to 'closing'.                          *)
(***************************************************************************)
ListStillOpen ==
  /\ manager.pc # "idle" => \A p \in manager.todo : positions[p].status = "open"
  /\ manager.pc = "closing" => /\ manager.position \in DOMAIN positions \ manager.todo
                               /\ positions[manager.position].status = "open"

(***************************************************************************)
(* A position has realized nothing before it is closed, and what is paid   *)
(* for it and got for it are quoted prices.                                *)
(***************************************************************************)
Priced == Admitted \cup {"closeOrder", "unclose", "closePosition", "closeRec", "closePnl"}

QuotedPrices ==
  /\ \A p \in DOMAIN positions : positions[p].debit \in Prices
  /\ trader.pc \in Priced => trader.price \in Prices

NothingRealized ==
  \A p \in DOMAIN positions : positions[p].status # "closed" => positions[p].realized = 0

(***************************************************************************)
(* What the trader closes or hands back was put up for exit.               *)
(***************************************************************************)
Exiting == {"closeOrder", "unclose", "closePosition", "reopen"}

PutUpForExit == trader.pc \in Exiting => positions[Closing].status = "closing"

BookReady == ListStillOpen /\ QuotedPrices /\ NothingRealized /\ PutUpForExit

LEMMA NextListStillOpen ==
  ASSUME TypeOK, Placed, Turns, Sequential, ListStillOpen, [Next]_vars
  PROVE  ListStillOpen'
<1>0. /\ manager \in [pc : {"idle", "scan", "closing"}, todo : SUBSET DOMAIN positions,
                      position : 0 .. Len(positions)]
      /\ positions \in Seq(Position)
  BY DEF TypeOK, ManagerTypeOK, DeskTypeOK
<1>1. /\ ~TraderFails /\ ~ManagerFails /\ ~Crash
      /\ TraderBegins \/ TraderStep => manager.pc = "idle"
  BY SequentialSteps
<1>2. CASE ManagerBegins
  BY <1>2 DEF ManagerBegins, ListPositions, IdleManager, ListStillOpen, deskVars
<1>3. CASE ManagerStep /\ PassedOver
  <2>1. PICK p \in manager.todo : manager' = [manager EXCEPT !.todo = @ \ {p}]
    BY <1>3 DEF PassedOver
  <2>2. manager'.pc = "scan" /\ manager'.todo \subseteq manager.todo /\ manager.pc = "scan"
        /\ positions' = positions
    BY <1>0, <1>3, <2>1 DEF PassedOver, deskVars
  <2> QED
    BY <2>2 DEF ListStillOpen
<1>4. CASE ManagerStep /\ EmitClose
  <2>1. PICK p \in manager.todo :
          manager' = [manager EXCEPT !.pc = "closing", !.todo = @ \ {p}, !.position = p]
    BY <1>4 DEF EmitClose
  <2>2. manager'.position = p /\ manager'.todo = manager.todo \ {p} /\ manager.pc = "scan"
        /\ positions' = positions /\ p \in DOMAIN positions
    BY <1>0, <1>4, <2>1 DEF EmitClose
  <2> QED
    BY <2>2 DEF ListStillOpen
<1>5. CASE ManagerStep /\ SetClosing
  <2>1. /\ manager'.pc = "scan" /\ manager'.todo = manager.todo /\ manager.pc = "closing"
        /\ UpdatePosition(manager.position, "closing", 0)
    BY <1>0, <1>5 DEF SetClosing
  <2>2. manager.position \in DOMAIN positions \ manager.todo
    BY <2>1 DEF ListStillOpen
  <2>3. \A q \in DOMAIN positions : q # manager.position => positions'[q] = positions[q]
    BY <2>1, <2>2, PositionWritten DEF TypeOK
  <2> QED
    BY <1>0, <2>1, <2>2, <2>3 DEF ListStillOpen
<1>6. CASE ManagerStep /\ ScanEnd
  BY <1>6 DEF ScanEnd, IdleManager, ListStillOpen
<1>7. CASE TraderBegins \/ TraderStep
  BY <1>1, <1>7 DEF TraderBegins, TraderStep, ListStillOpen
<1>8. CASE ModeCommand \/ Command \/ UNCHANGED vars
  <2>1. manager' = manager /\ positions' = positions
    BY <1>8, PositionSteps DEF ModeCommand, Command, vars, deskVars, SetMode, CommandBegins,
       CommandWorks, ReadRec, ReadOrder, NoOrder, ApproveRec, ApproveOrder, CancelOrder,
       RejectRec, CommandDies
  <2> QED
    BY <2>1 DEF ListStillOpen
<1> QED
  BY <1>1, <1>2, <1>3, <1>4, <1>5, <1>6, <1>7, <1>8 DEF Next, ManagerStep, ManagerWorks

(***************************************************************************)
(* What a step does to the position it writes.                             *)
(***************************************************************************)
LEMMA PositionsAfter ==
  ASSUME TypeOK, Placed, ListStillOpen, [Next]_vars
  PROVE  \/ positions' = positions
         \/ TraderStep /\ FillPosition
         \/ /\ TraderStep /\ ClosePosition /\ Closing \in DOMAIN positions
            /\ Realized \in Int /\ UpdatePosition(Closing, "closed", Realized)
         \/ /\ TraderStep /\ Reopen /\ Closing \in DOMAIN positions
            /\ UpdatePosition(Closing, "open", 0)
         \/ /\ ManagerStep /\ SetClosing /\ manager.position \in DOMAIN positions
            /\ UpdatePosition(manager.position, "closing", 0)
<1>1. ClosePosition => /\ Closing \in DOMAIN positions /\ Realized \in Int
                       /\ UpdatePosition(Closing, "closed", Realized)
  BY RealizedType DEF ClosePosition, At, Placed, DuringClosing
<1>2. Reopen => Closing \in DOMAIN positions /\ UpdatePosition(Closing, "open", 0)
  BY DEF Reopen, At, Placed, DuringClosing
<1>3. SetClosing => /\ manager.position \in DOMAIN positions
                    /\ UpdatePosition(manager.position, "closing", 0)
  BY DEF SetClosing, ListStillOpen
<1> QED
  BY <1>1, <1>2, <1>3, PositionSteps

LEMMA NextNothingRealized ==
  ASSUME TypeOK, Placed, ListStillOpen, NothingRealized, [Next]_vars
  PROVE  NothingRealized'
<1>1. ASSUME NEW p \in DOMAIN positions, NEW status \in {"open", "closing", "closed"},
             NEW realized \in Int, UpdatePosition(p, status, realized)
      PROVE  NothingRealized'
  BY <1>1, PositionWritten DEF NothingRealized, TypeOK
<1>2. CASE FillPosition
  BY <1>2, PositionAdded DEF NothingRealized
<1>3. CASE positions' = positions
  BY <1>3 DEF NothingRealized
<1> QED
  BY <1>1, <1>2, <1>3, PositionsAfter

LEMMA NextQuotedPrices ==
  ASSUME TypeOK, Placed, QuotedPrices, [Next]_vars
  PROVE  QuotedPrices'
<1>1. ASSUME NEW p \in DOMAIN positions'
      PROVE  positions'[p].debit \in Prices
  <2>1. CASE p \in DOMAIN positions
    BY <2>1, DebitsKept DEF QuotedPrices
  <2>2. CASE p \notin DOMAIN positions
    <3>1. FillPosition
      <4>1. ASSUME NEW q, NEW status, NEW realized, UpdatePosition(q, status, realized)
            PROVE  FALSE
        BY <2>2, <4>1 DEF UpdatePosition, TypeOK, DeskTypeOK
      <4> QED
        BY <2>2, <4>1, PositionSteps DEF ClosePosition, Reopen, SetClosing
    <3>2. positions'[p].debit = trader.price /\ trader.pc = "fillPosition"
      BY <2>2, <3>1, PositionAdded DEF FillPosition, At
    <3> QED
      BY <3>2 DEF QuotedPrices, Priced, Admitted
  <2> QED
    BY <2>1, <2>2
<1>2. trader'.pc \in Priced => trader'.price \in Prices
  <2>1. CASE trader' = trader
    BY <2>1 DEF QuotedPrices
  <2>2. CASE TraderBegins \/ TraderStep \/ TraderFails
    <3>1. TraderWorks \/ TraderRaises \/ TickStart
      BY <2>2 DEF TraderBegins, TraderStep, TraderFails
    <3>2. CASE \E x \in Prices : Admit(x) \/ CloseQuoted(x)
      BY <3>2, TraderMoves DEF Moved
    <3>3. CASE trader'.pc \in Priced /\ ~ \E x \in Prices : Admit(x) \/ CloseQuoted(x)
      <4>1. FillOrder \/ CloseOrder \/ ClosePosition \/ CloseRec
        BY <3>1, <3>3, TraderMoves DEF TraderWorks, TraderRaises, Skips, Moved, Priced,
           Admitted
      <4>2. trader'.price = trader.price /\ trader.pc \in Priced
        BY <4>1, TraderMoves DEF Moved, Priced, Admitted
      <4> QED
        BY <4>2 DEF QuotedPrices
    <3> QED
      BY <3>2, <3>3
  <2>3. CASE Crash
    BY <2>3 DEF Crash, IdleTrader, Priced, Admitted
  <2> QED
    BY <2>1, <2>2, <2>3 DEF Next, ManagerBegins, ManagerStep, ManagerFails, ModeCommand,
       Command, vars
<1> QED
  BY <1>1, <1>2 DEF QuotedPrices

(***************************************************************************)
(* A recommendation the trader has in hand is alive, so the position it    *)
(* closes is open only while the manager is about to set it to 'closing'.  *)
(***************************************************************************)
LEMMA NextPutUpForExit ==
  ASSUME TypeOK, Placed, Turns, Sequential, OneExitAlive, PutUpForExit, [Next]_vars
  PROVE  PutUpForExit'
<1> SUFFICES ASSUME trader'.pc \in Exiting
             PROVE  positions'[Closing'].status = "closing"
  BY DEF PutUpForExit
<1>0. TypeOK' /\ TablesGrow
  BY NextPlaced
<1>1. /\ ~TraderFails /\ ~ManagerFails /\ ~Crash
      /\ ManagerBegins \/ ManagerStep => trader.pc = "idle"
      /\ TraderBegins \/ TraderStep => manager.pc = "idle"
  BY SequentialSteps
<1>2. OneExit
  BY DeskAssumption DEF OneExitAlive, Sequential, TypeOK, DeskTypeOK
<1>3. CASE TraderStep
  <2>1. TraderWorks /\ manager.pc = "idle"
    BY <1>1, <1>3 DEF TraderStep
  <2>2. (\E x \in Prices : CloseQuoted(x)) \/ CloseOrder \/ RefuseClose
    BY <2>1, TraderMoves DEF TraderWorks, Skips, Moved, Exiting
  <2>3. trader'.rec = trader.rec /\ trader.rec \in DOMAIN recs /\ positions' = positions
    BY <2>2, TraderMoves DEF Moved, Placed, Handling, CloseQuoted, CloseOrder, RefuseClose,
       deskVars
  <2>4. Closing' = Closing
    BY <1>0, <2>3 DEF TablesGrow, Closing
  <2>5. CASE \E x \in Prices : CloseQuoted(x)
    <3>1. Closing \in Held /\ ~IsOpening(trader.rec)
      BY <2>5 DEF CloseQuoted
    <3>2. trader.rec \in AliveCloses(Closing)
      BY <2>3, <3>1 DEF AliveCloses, Alive, Closing
    <3>3. positions[Closing].status # "open"
      BY <1>2, <2>1, <3>1, <3>2 DEF OneExit, Held
    <3> QED
      BY <2>3, <2>4, <3>1, <3>3 DEF Held
  <2>6. CASE CloseOrder \/ RefuseClose
    BY <2>3, <2>4, <2>6 DEF CloseOrder, RefuseClose, At, Exiting, PutUpForExit
  <2> QED
    BY <2>2, <2>5, <2>6
<1>4. CASE ~TraderStep
  <2>1. ~TraderBegins
    BY TraderMoves DEF TraderBegins, Moved, Exiting
  <2>2. trader' = trader /\ ~ManagerStep
    BY <1>1, <1>4, <2>1 DEF Next, ManagerBegins, ManagerStep, ModeCommand, Command, vars,
       Exiting
  <2>3. positions' = positions
    BY <1>4, <2>2, PositionSteps
  <2>4. trader.rec \in DOMAIN recs
    BY <2>2 DEF Placed, Handling, Exiting
  <2>5. Closing' = Closing
    BY <1>0, <2>2, <2>4 DEF TablesGrow, Closing
  <2> QED
    BY <2>2, <2>3, <2>5 DEF PutUpForExit
<1> QED
  BY <1>3, <1>4

-----------------------------------------------------------------------------
(* Every step is a step of the book, or none *)

Shown == [p \in DOMAIN positions |-> [stage |-> positions[p].status,
                                      realized |-> positions[p].realized]]

Booked ==
  cash.dailyPnl + (IF trader.pc \in {"closeRec", "closePnl"} THEN Realized ELSE 0)

LEMMA SeqEqual ==
  ASSUME NEW S, NEW s \in Seq(S), NEW t \in Seq(S), Len(s) = Len(t),
         \A p \in 1 .. Len(s) : s[p] = t[p]
  PROVE  s = t
  OBVIOUS

LEMMA AppendedRow ==
  ASSUME NEW S, NEW s \in Seq(S), NEW x \in S, NEW t,
         DOMAIN t = 1 .. Len(s) + 1, t = [p \in 1 .. Len(s) + 1 |-> t[p]],
         \A p \in 1 .. Len(s) : t[p] = s[p], t[Len(s) + 1] = x
  PROVE  t = Append(s, x)
<1>1. Append(s, x) \in Seq(S) /\ Len(Append(s, x)) = Len(s) + 1
  OBVIOUS
<1>2. \A p \in 1 .. Len(s) + 1 : Append(s, x)[p] = t[p]
  OBVIOUS
<1>3. t \in Seq(S) /\ Len(t) = Len(s) + 1
  <2>1. \A p \in 1 .. Len(s) + 1 : t[p] \in S
    OBVIOUS
  <2> QED
    BY <2>1
<1> QED
  BY <1>1, <1>2, <1>3, SeqEqual

LEMMA ShownAfter ==
  ASSUME TypeOK, Placed
  PROVE  /\ positions' = positions => Shown' = Shown
         /\ FillPosition => Shown' = Append(Shown, [stage |-> "open", realized |-> 0])
         /\ \A p \in DOMAIN positions, realized \in Int :
              /\ UpdatePosition(p, "closed", realized) =>
                   Shown' = [Shown EXCEPT ![p] = [stage |-> "closed", realized |-> realized]]
              /\ \A status \in {"open", "closing"} : UpdatePosition(p, status, 0) =>
                   Shown' = [Shown EXCEPT ![p] = [stage |-> status, realized |-> 0]]
<1>0. positions \in Seq(Position)
  BY DEF TypeOK, DeskTypeOK
<1>1. ASSUME FillPosition
      PROVE  Shown' = Append(Shown, [stage |-> "open", realized |-> 0])
  <2> DEFINE row == [stage |-> "open", realized |-> 0]
             n == Len(positions)
  <2>1. /\ DOMAIN positions = 1 .. n /\ n \in Nat
        /\ DOMAIN positions' = 1 .. n + 1
    BY <1>0, <1>1 DEF FillPosition, InsertPosition
  <2>2. /\ \A q \in 1 .. n : positions'[q] = positions[q]
        /\ positions'[n + 1].status = "open" /\ positions'[n + 1].realized = 0
    BY <1>1, <2>1, PositionAdded
  <2>3. Shown' = [p \in 1 .. n + 1 |-> [stage |-> positions'[p].status,
                                        realized |-> positions'[p].realized]]
    BY <2>1 DEF Shown
  <2>4. \A p \in 1 .. n : Shown'[p] = Shown[p]
    BY <2>1, <2>2, <2>3 DEF Shown
  <2>5. Shown'[n + 1] = row
    BY <2>1, <2>2, <2>3
  <2> DEFINE Rows == [stage : {"open", "closing", "closed"}, realized : Int]
  <2>6. Shown \in [1 .. n -> Rows]
    <3>1. \A p \in 1 .. n : positions[p] \in Position
      BY <1>0, <2>1
    <3> QED
      BY <2>1, <3>1 DEF Shown, Position
  <2>7. row \in Rows
    OBVIOUS
  <2> HIDE DEF row, Rows
  <2>8. Shown \in Seq(Rows) /\ Len(Shown) = n
    <3>1. Shown \in Seq(Rows)
      BY <2>1, <2>6
    <3> QED
      BY <2>1, <2>6, <3>1
  <2> HIDE DEF n
  <2>9. DOMAIN Shown' = 1 .. n + 1 /\ Shown' = [p \in 1 .. n + 1 |-> Shown'[p]]
    BY <2>3
  <2>10. Shown' = Append(Shown, row)
    BY <2>1, <2>4, <2>5, <2>7, <2>8, <2>9, AppendedRow
  <2> QED
    BY <2>10 DEF row
<1>2. ASSUME NEW p \in DOMAIN positions, NEW realized \in Int,
             NEW status \in {"open", "closing", "closed"},
             UpdatePosition(p, status, realized)
      PROVE  Shown' = [Shown EXCEPT ![p] =
               [stage |-> status, realized |-> IF status = "closed" THEN realized ELSE 0]]
  <2> DEFINE gain == IF status = "closed" THEN realized ELSE 0
             row == [stage |-> status, realized |-> gain]
  <2>1. /\ DOMAIN positions' = DOMAIN positions
        /\ positions'[p].status = status /\ positions'[p].realized = gain
        /\ \A q \in DOMAIN positions : q # p => positions'[q] = positions[q]
    BY <1>2, PositionWritten DEF TypeOK
  <2> HIDE DEF gain
  <2>2. /\ DOMAIN Shown' = DOMAIN positions /\ DOMAIN Shown = DOMAIN positions
        /\ Shown' = [q \in DOMAIN positions |-> Shown'[q]]
    BY <2>1 DEF Shown
  <2>3. Shown'[p] = row /\ \A q \in DOMAIN positions : q # p => Shown'[q] = Shown[q]
    BY <2>1 DEF Shown
  <2> HIDE DEF row
  <2>4. Shown' = [Shown EXCEPT ![p] = row]
    BY <2>2, <2>3
  <2> QED
    BY <2>4 DEF row, gain
<1>3. positions' = positions => Shown' = Shown
  BY DEF Shown
<1> QED
  BY <1>1, <1>2, <1>3

(***************************************************************************)
(* Closing the position is what books its P&L; that the cash row is        *)
(* written two steps later changes nothing in the book.                    *)
(***************************************************************************)
LEMMA BookedAfter ==
  ASSUME TypeOK, Placed, Turns, Sequential, [Next]_vars
  PROVE  /\ ClosePosition => Booked' = Booked + Realized
         /\ ~ClosePosition => Booked' = Booked
<1>0. trader.pc \in {"closePosition", "closeRec", "closePnl"} =>
        trader.rec \in DOMAIN recs /\ Closing \in DOMAIN positions /\ Realized \in Int
  BY RealizedType DEF Placed, Handling, DuringClosing
<1>1. ASSUME trader'.rec = trader.rec, trader'.price = trader.price,
             trader.pc \in {"closePosition", "closeRec", "closePnl"}
      PROVE  Realized' = Realized
  BY <1>0, <1>1, RealizedKept
<1>2. ~TraderFails /\ ~Crash /\ ~HandlerError
  BY SequentialSteps
<1>3. cash.dailyPnl \in Int
  BY DEF TypeOK, DeskTypeOK
<1>4. CASE trader' = trader
  <2>1. ~ClosePosition /\ ~ClosePnl
    BY <1>4, TraderMoves DEF Moved
  <2> QED
    BY <1>1, <1>4, <2>1, PnlSteps DEF Booked
<1>5. CASE TraderBegins \/ TraderStep
  <2>1. TraderWorks \/ TickStart
    BY <1>5 DEF TraderBegins, TraderStep
  <2>2. CASE ClosePosition
    <3>1. /\ trader.pc = "closePosition" /\ trader'.pc = "closeRec" /\ ~ClosePnl
          /\ trader'.rec = trader.rec /\ trader'.price = trader.price
      BY <2>2, TraderMoves DEF Moved
    <3>2. Booked = cash.dailyPnl + 0 /\ Booked' = cash'.dailyPnl + Realized'
      BY <3>1 DEF Booked
    <3> QED
      BY <1>0, <1>1, <1>3, <2>2, <3>1, <3>2, PnlSteps
  <2>3. CASE CloseRec
    <3>1. /\ trader.pc = "closeRec" /\ trader'.pc = "closePnl" /\ ~ClosePnl /\ ~ClosePosition
          /\ trader'.rec = trader.rec /\ trader'.price = trader.price
      BY <2>3, TraderMoves DEF Moved
    <3> QED
      BY <1>1, <3>1, PnlSteps DEF Booked
  <2>4. CASE ClosePnl
    <3>1. trader.pc = "closePnl" /\ trader'.pc = "note" /\ ~ClosePosition
      BY <2>4, TraderMoves DEF Moved
    <3>2. Booked = cash.dailyPnl + Realized /\ Booked' = cash'.dailyPnl + 0
      BY <3>1 DEF Booked
    <3> QED
      BY <1>0, <1>3, <2>4, <3>1, <3>2, PnlSteps
  <2>5. CASE ~ClosePosition /\ ~CloseRec /\ ~ClosePnl
    <3>1. trader'.pc \notin {"closeRec", "closePnl"}
      BY <2>1, <2>5, TraderMoves DEF TraderWorks, Skips, Moved
    <3>2. trader.pc \notin {"closeRec", "closePnl"}
      BY <1>2, <2>1, <2>5, TraderMoves DEF TraderWorks, OpeningStaged, Refuse, RefuseLive,
         FillRec, MarkGone, CloseUnquoted, Reopen, Note, At
    <3> QED
      BY <2>5, <3>1, <3>2, PnlSteps DEF Booked
  <2> QED
    BY <2>2, <2>3, <2>4, <2>5
<1> QED
  BY <1>2, <1>4, <1>5 DEF Next, ManagerBegins, ManagerStep, ManagerFails, ModeCommand,
     Command, vars

LEMMA BookMoves ==
  ASSUME NEW p \in DOMAIN positions,
         \/ Book!AskExit(p) \/ Book!TakeBack(p)
         \/ \E gain \in {x - y : x, y \in Prices} : Book!Settle(p, gain)
  PROVE  Book!BookNext
  BY DEF Book!BookNext

LEMMA BookSteps ==
  ASSUME TypeOK, Placed, Turns, Sequential, BookReady, [Next]_vars
  PROVE  [Book!BookNext]_(Book!bookVars)
<1>0. DOMAIN Shown = DOMAIN positions
  BY DEF Shown
<1>1. CASE positions' = positions
  <2>1. ~ClosePosition
    <3>1. SUFFICES ASSUME ClosePosition PROVE FALSE
      OBVIOUS
    <3>2. /\ Closing \in DOMAIN positions /\ Realized \in Int
          /\ UpdatePosition(Closing, "closed", Realized)
          /\ positions[Closing].status = "closing"
      BY <3>1, RealizedType DEF ClosePosition, At, Placed, DuringClosing, BookReady,
         PutUpForExit, Exiting
    <3> QED
      BY <1>1, <3>2, PositionWritten DEF TypeOK
  <2>2. Shown' = Shown /\ Booked' = Booked
    BY <1>1, <2>1, ShownAfter, BookedAfter
  <2> QED
    BY <2>2 DEF Shown, Booked, Book!bookVars
<1>2. CASE TraderStep /\ FillPosition
  <2>1. ~ClosePosition
    BY <1>2 DEF FillPosition, ClosePosition, At
  <2>2. Shown' = Append(Shown, [stage |-> "open", realized |-> 0]) /\ Booked' = Booked
    BY <1>2, <2>1, ShownAfter, BookedAfter
  <2>3. Book!OpenPosition
    BY <2>2 DEF Shown, Booked, Book!OpenPosition
  <2> QED
    BY <2>3 DEF Book!BookNext
<1>3. ASSUME NEW p \in DOMAIN positions, p = Closing, TraderStep, ClosePosition,
             NEW gain \in Int, gain = Realized, UpdatePosition(p, "closed", gain)
      PROVE  Book!BookNext
  <2>1. /\ Shown' = [Shown EXCEPT ![p] = [stage |-> "closed", realized |-> gain]]
        /\ Booked' = Booked + gain
    BY <1>3, ShownAfter, BookedAfter
  <2>2. Shown[p].stage = "closing"
    BY <1>3 DEF ClosePosition, At, BookReady, PutUpForExit, Exiting, Shown
  <2>3. gain \in {x - y : x, y \in Prices}
    <3>1. trader.price \in Prices /\ positions[p].debit \in Prices
      BY <1>3 DEF ClosePosition, At, BookReady, QuotedPrices, Priced
    <3> QED
      BY <1>3, <3>1 DEF Realized
  <2>4. Book!Settle(p, gain)
    BY <2>1, <2>2 DEF Shown, Booked, Book!Settle
  <2> QED
    BY <2>3, <2>4, BookMoves
<1>4. ASSUME NEW p \in DOMAIN positions, p = Closing, TraderStep, Reopen,
             UpdatePosition(p, "open", 0)
      PROVE  Book!BookNext
  <2>1. ~ClosePosition
    BY <1>4 DEF Reopen, ClosePosition, At
  <2>2. /\ Shown' = [Shown EXCEPT ![p] = [stage |-> "open", realized |-> 0]]
        /\ Booked' = Booked
    BY <1>4, <2>1, ShownAfter, BookedAfter
  <2>3. Shown[p] = [stage |-> "closing", realized |-> 0]
    BY <1>4 DEF Reopen, At, BookReady, PutUpForExit, Exiting, NothingRealized, Shown
  <2>4. Shown' = [Shown EXCEPT ![p].stage = "open"]
    <3>1. [Shown[p] EXCEPT !.stage = "open"] = [stage |-> "open", realized |-> 0]
      BY <2>3
    <3> QED
      BY <2>2, <3>1
  <2>5. Book!TakeBack(p)
    BY <2>2, <2>3, <2>4 DEF Shown, Booked, Book!TakeBack
  <2> QED
    BY <2>5, BookMoves
<1>5. ASSUME NEW p \in DOMAIN positions, p = manager.position, ManagerStep, SetClosing,
             UpdatePosition(p, "closing", 0)
      PROVE  Book!BookNext
  <2>1. ~ClosePosition
    BY <1>5, SequentialSteps DEF ClosePosition, At
  <2>2. /\ Shown' = [Shown EXCEPT ![p] = [stage |-> "closing", realized |-> 0]]
        /\ Booked' = Booked
    BY <1>5, <2>1, ShownAfter, BookedAfter
  <2>3. Shown[p] = [stage |-> "open", realized |-> 0]
    BY <1>5 DEF SetClosing, BookReady, ListStillOpen, NothingRealized, Shown
  <2>4. Shown' = [Shown EXCEPT ![p].stage = "closing"]
    <3>1. [Shown[p] EXCEPT !.stage = "closing"] = [stage |-> "closing", realized |-> 0]
      BY <2>3
    <3> QED
      BY <2>2, <3>1
  <2>5. Book!AskExit(p)
    BY <2>2, <2>3, <2>4 DEF Shown, Booked, Book!AskExit
  <2> QED
    BY <2>5, BookMoves
<1> QED
  BY <1>1, <1>2, <1>3, <1>4, <1>5, PositionsAfter DEF BookReady

(***************************************************************************)
(* One tick at a time the desk implements PositionBook: a position is      *)
(* settled once, with the P&L that enters the day's, and never changes     *)
(* again.                                                                  *)
(***************************************************************************)
THEOREM DeskKeepsBook == Sequential => (Spec => KeepsBook)
<1> SUFFICES ASSUME Sequential
             PROVE  Spec => KeepsBook
  OBVIOUS
<1> DEFINE IInv == /\ TypeOK /\ Placed /\ Referred /\ FilledOnce /\ OneExitAlive
                   /\ Turns /\ BookReady
<1>1. Init => IInv
  <2> SUFFICES ASSUME Init PROVE IInv
    OBVIOUS
  <2>1. recs = << >> /\ orders = << >> /\ trader.pc = "idle" /\ positions = << >>
    BY DEF Init, DeskInit, TraderInit, IdleTrader
  <2>2. /\ manager.pc = "idle" /\ manager.todo = {}
        /\ \A h \in Operators : human[h].pc = "idle"
    BY DEF Init, ManagerInit, IdleManager, HumanInit, IdleHuman
  <2>3. Referred /\ FilledOnce /\ OneExitAlive
    BY <2>1, <2>2 DEF Referred, FilledOnce, FillsDone, Filled, FilledOrders, Unfilled,
       OneExitAlive, OneExit, AliveCloses
  <2>4. Turns /\ BookReady
    BY <2>1, <2>2 DEF Turns, BookReady, ListStillOpen, QuotedPrices, NothingRealized,
       PutUpForExit, Priced, Admitted, Exiting
  <2> QED
    BY <2>3, <2>4, InitPlaced
<1>2. IInv /\ [Next]_vars => IInv'
  BY NextPlaced, NextReferred, NextFilledOnce, NextOneExitAlive, NextTurns,
     NextListStillOpen, NextNothingRealized, NextQuotedPrices, NextPutUpForExit DEF BookReady
<1>3. Init => Book!BookInit
  <2> SUFFICES ASSUME Init PROVE Book!BookInit
    OBVIOUS
  <2>1. positions = << >> /\ cash.dailyPnl = 0 /\ trader.pc = "idle"
    BY DEF Init, DeskInit, TraderInit, IdleTrader
  <2>2. Shown = << >> /\ Booked = 0
    BY <2>1 DEF Shown, Booked
  <2> QED
    BY <2>2 DEF Shown, Booked, Book!BookInit
<1>4. IInv /\ [Next]_vars => [Book!BookNext]_(Book!bookVars)
  BY BookSteps
<1> QED
  BY <1>1, <1>2, <1>3, <1>4, PTL DEF Spec, KeepsBook, Book!BookSpec

-----------------------------------------------------------------------------
(* Slots *)

(***************************************************************************)
(* A recommendation that may still take a slot of its strategy: the tick   *)
(* has it in hand or will, and nothing is staged for it yet.               *)
(***************************************************************************)
Working == {"rec", "size", "draft", "paper", "live", "fillPosition"}

Evaluating == {"idle", "tick", "eval"}

Wanted(r) ==
  \/ r \in trader.todo
  \/ trader.rec = r /\ trader.pc \in Working
  \/ recs[r].status = "pending" /\ trader.pc \in Evaluating

Waiting(s) == {r \in DOMAIN recs : /\ recs[r].source = s
                                   /\ Wanted(r) /\ ActiveOrders(r) = {}}

Used(s) == Cardinality(HeldBy(s)) + Cardinality(StagedBy(s)) + Cardinality(Waiting(s))

(***************************************************************************)
(* An opening that is still pending is staged, or the tick gets to it.     *)
(***************************************************************************)
Served ==
  \A r \in DOMAIN recs : IsOpening(r) /\ recs[r].status = "pending" =>
    \/ ActiveOrders(r) # {}
    \/ r \in trader.todo
    \/ trader.rec = r /\ trader.pc \in Working \cup {"fillRec"}

NoneCancelled == \A o \in DOMAIN orders : orders[o].status # "cancelled"

SlotsKept ==
  /\ trader.pc \in Evaluating => trader.todo = {}
  /\ trader.pc # "eval" => Served
  /\ \A s \in Strategies :
       IF trader.pc = "eval"
         THEN Used(s) <= trader.slots[s] /\ trader.slots[s] <= MaxConcurrent
         ELSE Used(s) <= MaxConcurrent
  /\ trader.pc = "fillPosition" => ActiveOrders(trader.rec) = {}

SlotsInv == NoneCancelled => SlotsKept

(***************************************************************************)
(* Finite sets that lose elements, gain one, or lose one.                  *)
(***************************************************************************)
LEMMA PartCounts ==
  ASSUME NEW S, IsFiniteSet(S), NEW T, T \subseteq S
  PROVE  /\ Cardinality(S) \in Nat /\ Cardinality(T) \in Nat
         /\ Cardinality(T) <= Cardinality(S)
  BY FS_Subset, FS_CardinalityType

LEMMA OneMoreCounts ==
  ASSUME NEW S, IsFiniteSet(S), NEW x, NEW T, T \subseteq S \cup {x}
  PROVE  /\ Cardinality(S) \in Nat /\ Cardinality(T) \in Nat
         /\ Cardinality(T) <= Cardinality(S) + 1
<1>1. /\ IsFiniteSet(S \cup {x}) /\ Cardinality(S) \in Nat
      /\ Cardinality(S \cup {x}) \in {Cardinality(S), Cardinality(S) + 1}
  BY FS_AddElement, FS_CardinalityType
<1>2. Cardinality(T) \in Nat /\ Cardinality(T) <= Cardinality(S \cup {x})
  BY <1>1, PartCounts
<1> QED
  BY <1>1, <1>2

LEMMA OneLessCounts ==
  ASSUME NEW S, IsFiniteSet(S), NEW x \in S, NEW T, T \subseteq S \ {x}
  PROVE  /\ Cardinality(S) \in Nat /\ Cardinality(T) \in Nat
         /\ Cardinality(T) <= Cardinality(S) - 1
<1>1. /\ IsFiniteSet(S \ {x}) /\ Cardinality(S) \in Nat
      /\ Cardinality(S \ {x}) = Cardinality(S) - 1
  BY FS_RemoveElement, FS_CardinalityType
<1>2. Cardinality(T) \in Nat /\ Cardinality(T) <= Cardinality(S \ {x})
  BY <1>1, PartCounts
<1> QED
  BY <1>1, <1>2

LEMMA SlotsFinite ==
  ASSUME TypeOK, NEW s
  PROVE  IsFiniteSet(HeldBy(s)) /\ IsFiniteSet(StagedBy(s)) /\ IsFiniteSet(Waiting(s))
<1>1. /\ IsFiniteSet(1 .. Len(positions)) /\ IsFiniteSet(1 .. Len(orders))
      /\ IsFiniteSet(1 .. Len(recs))
  BY Lengths, FS_Interval DEF TypeOK
<1>2. /\ HeldBy(s) \subseteq 1 .. Len(positions) /\ StagedBy(s) \subseteq 1 .. Len(orders)
      /\ Waiting(s) \subseteq 1 .. Len(recs)
  BY Lengths DEF HeldBy, Held, StagedBy, Waiting, TypeOK
<1> QED
  BY <1>1, <1>2, FS_Subset

(***************************************************************************)
(* Only a fill adds to what a strategy holds, only staging to its drafts.  *)
(***************************************************************************)
LEMMA HeldAfter ==
  ASSUME TypeOK, Placed, ListStillOpen, PutUpForExit, [Next]_vars, NEW s
  PROVE  \/ HeldBy(s)' \subseteq HeldBy(s)
         \/ /\ TraderStep /\ FillPosition /\ s = recs[trader.rec].source
            /\ HeldBy(s)' \subseteq HeldBy(s) \cup {Len(positions) + 1}
<1>1. CASE positions' = positions
  BY <1>1 DEF HeldBy, Held
<1>2. CASE TraderStep /\ FillPosition
  BY <1>2, PositionAdded DEF HeldBy, Held
<1>3. ASSUME NEW p \in DOMAIN positions, NEW status \in {"open", "closing", "closed"},
             NEW realized \in Int, UpdatePosition(p, status, realized),
             positions[p].status \in {"open", "closing"}
      PROVE  HeldBy(s)' \subseteq HeldBy(s)
  BY <1>3, PositionWritten DEF HeldBy, Held, TypeOK
<1>4. CASE \/ /\ TraderStep /\ ClosePosition /\ Closing \in DOMAIN positions
              /\ Realized \in Int /\ UpdatePosition(Closing, "closed", Realized)
           \/ /\ TraderStep /\ Reopen /\ Closing \in DOMAIN positions
              /\ UpdatePosition(Closing, "open", 0)
  <2>1. positions[Closing].status = "closing"
    BY <1>4 DEF ClosePosition, Reopen, At, PutUpForExit, Exiting
  <2> QED
    BY <1>3, <1>4, <2>1
<1>5. CASE /\ ManagerStep /\ SetClosing /\ manager.position \in DOMAIN positions
           /\ UpdatePosition(manager.position, "closing", 0)
  <2>1. positions[manager.position].status = "open"
    BY <1>5 DEF SetClosing, ListStillOpen
  <2> QED
    BY <1>3, <1>5, <2>1
<1> QED
  BY <1>1, <1>2, <1>4, <1>5, PositionsAfter

LEMMA StagedAfter ==
  ASSUME TypeOK, Placed, Referred, OnePerson, DraftsStand, [Next]_vars, NEW s
  PROVE  \/ StagedBy(s)' \subseteq StagedBy(s)
         \/ /\ StageDraft /\ s = recs[trader.rec].source
            /\ StagedBy(s)' \subseteq StagedBy(s) \cup {Len(orders) + 1}
<1>0. /\ \A r \in DOMAIN recs : recs'[r].source = recs[r].source
      /\ \A o \in DOMAIN orders : orders[o].rec \in DOMAIN recs
  BY NextPlaced DEF TablesGrow, Referred
<1>1. CASE orders' = orders
  BY <1>0, <1>1 DEF StagedBy
<1>2. CASE StageDraft \/ FillOrder \/ CloseOrder
  <2>1. /\ DOMAIN orders' = DOMAIN orders \cup {Len(orders) + 1}
        /\ \A n \in DOMAIN orders : orders'[n] = orders[n]
        /\ orders'[Len(orders) + 1].rec = trader.rec
        /\ orders'[Len(orders) + 1].status = (IF StageDraft THEN "draft" ELSE "filled")
    BY <1>2, OrderAdded
  <2>2. trader.rec \in DOMAIN recs
    BY <1>2 DEF StageDraft, FillOrder, CloseOrder, At, Placed, Handling
  <2> QED
    BY <1>0, <2>1, <2>2 DEF StagedBy
<1>3. ASSUME NEW o \in DOMAIN orders, UpdateOrder(o, "cancelled")
      PROVE  StagedBy(s)' \subseteq StagedBy(s)
  <2>1. /\ DOMAIN orders' = DOMAIN orders
        /\ orders'[o].status = "cancelled"
        /\ \A n \in DOMAIN orders : n # o => orders'[n] = orders[n]
    BY <1>3, UpdateOrderType DEF TypeOK
  <2> QED
    BY <1>0, <2>1 DEF StagedBy
<1> QED
  BY <1>1, <1>2, <1>3, OrdersStaged

(***************************************************************************)
(* A cancelled order stays cancelled, and but for cancelling a draft       *)
(* stays where it is.                                                      *)
(***************************************************************************)
LEMMA DraftsKept ==
  ASSUME TypeOK, Placed, OnePerson, DraftsStand, [Next]_vars, NoneCancelled'
  PROVE  /\ NoneCancelled
         /\ \A r : ActiveOrders(r) \subseteq ActiveOrders(r)'
<1>1. CASE orders' = orders
  BY <1>1 DEF NoneCancelled, ActiveOrders
<1>2. CASE StageDraft \/ FillOrder \/ CloseOrder
  <2>1. /\ DOMAIN orders' = DOMAIN orders \cup {Len(orders) + 1}
        /\ \A n \in DOMAIN orders : orders'[n] = orders[n]
    BY <1>2, OrderAdded
  <2> QED
    BY <2>1 DEF NoneCancelled, ActiveOrders
<1>3. ASSUME NEW o \in DOMAIN orders, UpdateOrder(o, "cancelled")
      PROVE  FALSE
  <2>1. DOMAIN orders' = DOMAIN orders /\ orders'[o].status = "cancelled"
    BY <1>3, UpdateOrderType DEF TypeOK
  <2> QED
    BY <2>1 DEF NoneCancelled
<1> QED
  BY <1>1, <1>2, <1>3, OrdersStaged

(***************************************************************************)
(* What the trader's step is, when its steps take turns and none fails.    *)
(***************************************************************************)
LEMMA TraderTurn ==
  ASSUME TypeOK, Turns, Sequential, [Next]_vars
  PROVE  trader' = trader \/ (TraderStep /\ TraderWorks /\ ~HandlerError) \/ TickStart
<1>1. ~TraderFails /\ ~Crash /\ ~HandlerError
  BY SequentialSteps
<1> QED
  BY <1>1 DEF Next, TraderBegins, TraderStep, ManagerBegins, ManagerStep, ManagerFails,
     ModeCommand, Command, vars

(***************************************************************************)
(* A tick only takes on what was pending when it listed its work, and      *)
(* leaves nothing pending without a draft when it ends.                    *)
(***************************************************************************)
LEMMA WantedAfter ==
  ASSUME TypeOK, Placed, Turns, Sequential, FillBudget, SlotsKept, [Next]_vars,
         NEW r \in DOMAIN recs, IsOpening(r), ActiveOrders(r) = {}, Wanted(r)'
  PROVE  Wanted(r) /\ ((StageDraft \/ FillPosition) => r # trader.rec)
<1>0. /\ recs'[r].status = "pending" => recs[r].status = "pending"
      /\ r \in Nat \ {0}
  BY NeverPendingAgain, Lengths DEF TypeOK
<1>1. \/ r \in trader'.todo
      \/ trader'.rec = r /\ trader'.pc \in Working
      \/ recs'[r].status = "pending" /\ trader'.pc \in Evaluating
  BY DEF Wanted
<1>2. CASE trader' = trader
  <2>1. ~StageDraft /\ ~FillPosition
    BY <1>2, TraderMoves DEF Moved
  <2> QED
    BY <1>0, <1>1, <1>2, <2>1 DEF Wanted
<1>3. CASE StageDraft \/ FillPosition
  <2>1. /\ trader'.pc \in {"note", "fillRec"} /\ trader'.todo = trader.todo
        /\ trader.pc \in Handling
    BY <1>3, TraderMoves DEF Moved, Handling
  <2>2. r \in trader.todo /\ trader.rec \notin trader.todo
    BY <1>1, <2>1 DEF Evaluating, Working, FillBudget
  <2> QED
    BY <2>2 DEF Wanted
<1>4. CASE TraderStep /\ TraderWorks /\ ~HandlerError /\ ~StageDraft /\ ~FillPosition
  <2>1. CASE TickEnd
    <3>1. trader.pc = "next" /\ trader.todo = {} /\ trader'.todo = {} /\ trader'.pc = "idle"
      BY <2>1, TraderMoves DEF TickEnd, At, Moved
    <3>2. recs[r].status = "pending" /\ Served
      BY <1>0, <1>1, <3>1 DEF Working, SlotsKept
    <3> QED
      BY <3>1, <3>2 DEF Served, Working
  <2>2. CASE ListPending
    <3>1. trader'.pc = "next" /\ trader'.todo = PendingRecs /\ trader.pc \in Evaluating
      BY <2>2, TraderMoves DEF Moved, Evaluating
    <3> QED
      BY <1>1, <1>4, <3>1 DEF Wanted, PendingRecs, Evaluating, Working
  <2>3. CASE TakeRec
    BY <1>1, <1>4, <2>3, TraderMoves DEF Moved, Evaluating, Wanted
  <2>4. CASE CountSlots \/ \E s \in Strategies, l \in MaxLosses : Emit(s, l)
    BY <1>0, <1>1, <1>4, <2>4, TraderMoves DEF Moved, Evaluating, Working, Wanted
  <2>5. CASE OpeningFresh \/ FillOrder \/ \E x \in Prices : Admit(x)
    BY <1>1, <1>4, <2>5, TraderMoves DEF Moved, Evaluating, Working, Wanted
  <2>6. CASE Skips
    BY <1>1, <1>4, <2>6, TraderMoves DEF Moved, Evaluating, Working, Wanted
  <2>7. CASE CloseGone \/ CloseOrder \/ ClosePosition \/ CloseRec \/ ClosePnl \/ RefuseClose
               \/ \E x \in Prices : CloseQuoted(x)
    BY <1>1, <1>4, <2>7, TraderMoves DEF Moved, Evaluating, Working, Wanted
  <2> QED
    BY <1>4, <2>1, <2>2, <2>3, <2>4, <2>5, <2>6, <2>7 DEF TraderWorks, Skips
<1>5. CASE TickStart
  <2>1. ~StageDraft /\ ~FillPosition
    BY <1>5 DEF TickStart, StageDraft, FillPosition, At
  <2> QED
    BY <1>0, <1>1, <1>5, <2>1, TraderMoves DEF Moved, Evaluating, Working, Wanted
<1> QED
  BY <1>2, <1>3, <1>4, <1>5, TraderTurn

LEMMA NextServed ==
  ASSUME TypeOK, Placed, Referred, Turns, Sequential, OnePerson, DraftsStand, NoneCancelled',
         SlotsKept, [Next]_vars, trader'.pc # "eval"
  PROVE  Served'
<1>0. TablesGrow /\ TypeOK'
  BY NextPlaced
<1> SUFFICES ASSUME NEW r \in DOMAIN recs', IsOpening(r)', recs'[r].status = "pending",
                    ActiveOrders(r)' = {}
             PROVE  \/ r \in trader'.todo
                    \/ trader'.rec = r /\ trader'.pc \in Working \cup {"fillRec"}
  BY DEF Served
<1>1. r \in DOMAIN recs
  <2>1. ASSUME NEW s \in Strategies, NEW l \in MaxLosses, Emit(s, l)
        PROVE  trader'.pc = "eval"
    BY <2>1 DEF Emit, At, TypeOK, TraderTypeOK
  <2>2. ASSUME NEW q, NEW status, UpdateRec(q, status)
        PROVE  DOMAIN recs' = DOMAIN recs
    BY <2>2 DEF UpdateRec, TypeOK, DeskTypeOK
  <2>3. CASE ManagerStep /\ EmitClose
    <3>1. PICK p \in manager.todo : InsertRec(PositionManager, p, 0)
      BY <2>3 DEF EmitClose
    <3> DEFINE row == [source |-> PositionManager, position |-> p, maxLoss |-> 0,
                       status |-> "pending"]
    <3>2. row.source = PositionManager
      OBVIOUS
    <3>3. recs \in Seq(Recommendation) /\ recs' = Append(recs, row)
      BY <3>1 DEF InsertRec, TypeOK, DeskTypeOK
    <3> HIDE DEF row
    <3>4. r \notin DOMAIN recs => recs'[r] = row
      BY <3>3
    <3> QED
      BY <3>2, <3>4 DEF IsOpening
  <2> QED
    BY <2>1, <2>2, <2>3, RecSteps
<1>2. /\ IsOpening(r) /\ recs[r].status = "pending" /\ ActiveOrders(r) = {}
  BY <1>0, <1>1, NeverPendingAgain, DraftsKept DEF TablesGrow, IsOpening
<1>3. CASE trader' = trader
  BY <1>1, <1>2, <1>3 DEF SlotsKept, Served
<1>4. CASE TickStart \/ CountSlots
  BY <1>1, <1>2, <1>4, TraderMoves DEF TickStart, CountSlots, At, SlotsKept, Served, Moved,
     Working
<1>5. CASE ListPending
  BY <1>1, <1>2, <1>5, TraderMoves DEF Moved, PendingRecs
<1>6. CASE TraderStep /\ TraderWorks /\ ~HandlerError /\ ~CountSlots /\ ~ListPending
  <2>1. ~ \E s \in Strategies, l \in MaxLosses : Emit(s, l)
    <3>1. ASSUME NEW s \in Strategies, NEW l \in MaxLosses, Emit(s, l)
          PROVE  trader'.pc = "eval"
      BY <3>1 DEF Emit, At, TypeOK, TraderTypeOK
    <3> QED
      BY <3>1
  <2>2. trader.pc # "eval"
    BY <1>6, <2>1, TraderMoves DEF TraderWorks, OpeningStaged, Refuse, RefuseLive, FillRec,
       MarkGone, CloseUnquoted, Reopen, Note, TickEnd, At
  <2>3. \/ r \in trader.todo
        \/ trader.rec = r /\ trader.pc \in Working \cup {"fillRec"}
    BY <1>1, <1>2, <2>2 DEF SlotsKept, Served
  <2>4. CASE r \in trader.todo
    BY <1>6, <2>1, <2>4, TraderMoves DEF TraderWorks, Skips, Moved, TickEnd, Working
  <2>5. CASE r \notin trader.todo
    <3>1. trader.rec = r /\ trader.pc \in Working \cup {"fillRec"}
      BY <2>3, <2>5
    <3>2. ASSUME NEW status, status # "pending", UpdateRec(r, status)
          PROVE  FALSE
      <4>1. recs \in Seq(Recommendation) /\ recs[r] \in Recommendation
        BY <1>1 DEF TypeOK, DeskTypeOK
      <4>2. [recs[r] EXCEPT !.status = status].status = status
        BY <4>1 DEF Recommendation
      <4> DEFINE row == [recs[r] EXCEPT !.status = status]
      <4>3. recs' = [recs EXCEPT ![r] = row]
        BY <3>2 DEF UpdateRec
      <4> HIDE DEF row
      <4>4. recs'[r] = row
        BY <1>1, <4>1, <4>3
      <4> QED
        BY <3>2, <4>2, <4>4 DEF row
    <3>3. ~Refuse /\ ~RefuseLive /\ ~FillRec
      BY <3>1, <3>2 DEF Refuse, RefuseLive, FillRec
    <3>4. ~StageDraft
      <4>1. SUFFICES ASSUME StageDraft PROVE ActiveOrders(r)' # {}
        OBVIOUS
      <4>2. /\ Len(orders) + 1 \in DOMAIN orders'
            /\ orders'[Len(orders) + 1].rec = r
            /\ orders'[Len(orders) + 1].status = "draft"
        BY <3>1, <4>1, OrderAdded
      <4> QED
        BY <4>2 DEF ActiveOrders
    <3>5. CASE OpeningFresh \/ FillOrder \/ FillPosition \/ \E x \in Prices : Admit(x)
      BY <3>1, <3>5, TraderMoves DEF Moved, Working
    <3>6. ~OpeningStaged
      BY <1>2, <3>1 DEF OpeningStaged
    <3>7. ~CloseGone /\ ~CloseUnquoted /\ ~(\E x \in Prices : CloseQuoted(x))
      BY <1>2, <3>1 DEF CloseGone, CloseUnquoted, CloseQuoted
    <3>8. trader.pc \in Handling /\ trader.pc \notin {"gone", "closeOrder", "closePosition",
            "closeRec", "closePnl", "unclose", "reopen", "note"}
      BY <3>1 DEF Working, Handling
    <3> QED
      BY <1>6, <2>1, <3>3, <3>4, <3>5, <3>6, <3>7, <3>8, TraderMoves DEF TraderWorks, MarkGone,
         Reopen, Note, At, Handling
  <2> QED
    BY <2>4, <2>5
<1> QED
  BY <1>3, <1>4, <1>5, <1>6, TraderTurn

LEMMA EmitAdds ==
  ASSUME TypeOK, NEW q \in Strategies, NEW l \in MaxLosses, Emit(q, l)
  PROVE  /\ trader.pc = "eval" /\ trader'.pc = "eval" /\ trader'.todo = trader.todo
         /\ trader.slots[q] < MaxConcurrent
         /\ trader'.slots[q] = trader.slots[q] + 1
         /\ \A s \in Strategies : s # q => trader'.slots[s] = trader.slots[s]
         /\ DOMAIN recs' = DOMAIN recs \cup {Len(recs) + 1}
         /\ recs'[Len(recs) + 1].source = q
<1>1. trader \in [pc : Places, mode : Modes, todo : SUBSET DOMAIN recs, rec : 0 .. Len(recs),
                  slots : [Strategies -> Nat], price : Int]
  BY DEF TypeOK, TraderTypeOK
<1>2. /\ trader.pc = "eval" /\ trader.slots[q] < MaxConcurrent
      /\ trader' = [trader EXCEPT !.slots[q] = @ + 1]
  BY DEF Emit, At
<1>3. trader'.slots = [trader.slots EXCEPT ![q] = @ + 1]
      /\ trader'.pc = trader.pc /\ trader'.todo = trader.todo
  BY <1>1, <1>2
<1> DEFINE row == [source |-> q, position |-> 0, maxLoss |-> l, status |-> "pending"]
<1>4. row.source = q
  OBVIOUS
<1>5. recs \in Seq(Recommendation) /\ recs' = Append(recs, row)
  BY DEF Emit, InsertRec, TypeOK, DeskTypeOK
<1> HIDE DEF row
<1>6. DOMAIN recs' = DOMAIN recs \cup {Len(recs) + 1} /\ recs'[Len(recs) + 1] = row
  BY <1>5
<1> QED
  BY <1>1, <1>2, <1>3, <1>4, <1>6

(***************************************************************************)
(* Only a signal adds to what waits, and what is staged or becomes a       *)
(* position waits no longer.                                               *)
(***************************************************************************)
LEMMA WaitingAfter ==
  ASSUME TypeOK, Placed, Referred, Turns, Sequential, OnePerson, Staging, FillBudget,
         NoneCancelled', SlotsKept, [Next]_vars, NEW s \in Strategies
  PROVE  /\ Waiting(s)' \subseteq Waiting(s) \cup {Len(recs) + 1}
         /\ ~(\E l \in MaxLosses : Emit(s, l)) => Waiting(s)' \subseteq Waiting(s)
         /\ (StageDraft \/ FillPosition) /\ s = recs[trader.rec].source =>
              /\ trader.rec \in Waiting(s)
              /\ Waiting(s)' \subseteq Waiting(s) \ {trader.rec}
<1>0. TablesGrow /\ TypeOK'
  BY NextPlaced
<1>1. s # PositionManager
  BY DeskAssumption
<1>2. ASSUME NEW r \in Waiting(s)', r \in DOMAIN recs
      PROVE  r \in Waiting(s) /\ ((StageDraft \/ FillPosition) => r # trader.rec)
  <2>1. recs[r].source = s /\ IsOpening(r) /\ ActiveOrders(r) = {} /\ Wanted(r)'
    BY <1>0, <1>1, <1>2, DraftsKept DEF Waiting, TablesGrow, IsOpening, Staging
  <2> QED
    BY <1>2, <2>1, WantedAfter DEF Waiting
<1>3. ASSUME NEW r \in Waiting(s)', r \notin DOMAIN recs
      PROVE  r = Len(recs) + 1 /\ \E l \in MaxLosses : Emit(s, l)
  <2>1. r \in DOMAIN recs' /\ recs'[r].source = s
    BY <1>3 DEF Waiting
  <2>2. ASSUME NEW q, NEW status, UpdateRec(q, status)
        PROVE  DOMAIN recs' = DOMAIN recs
    BY <2>2 DEF UpdateRec, TypeOK, DeskTypeOK
  <2>3. ~(ManagerStep /\ EmitClose)
    <3>1. SUFFICES ASSUME ManagerStep, EmitClose PROVE FALSE
      OBVIOUS
    <3>2. PICK p \in manager.todo : InsertRec(PositionManager, p, 0)
      BY <3>1 DEF EmitClose
    <3> DEFINE row == [source |-> PositionManager, position |-> p, maxLoss |-> 0,
                       status |-> "pending"]
    <3>3. row.source = PositionManager
      OBVIOUS
    <3>4. recs \in Seq(Recommendation) /\ recs' = Append(recs, row)
      BY <3>2 DEF InsertRec, TypeOK, DeskTypeOK
    <3> HIDE DEF row
    <3>5. recs'[r] = row
      BY <1>3, <2>1, <3>4
    <3> QED
      BY <1>1, <2>1, <3>3, <3>5
  <2>4. PICK q \in Strategies, l \in MaxLosses : Emit(q, l)
    BY <1>3, <2>1, <2>2, <2>3, RecSteps
  <2> QED
    BY <1>3, <2>1, <2>4, EmitAdds
<1>4. ASSUME StageDraft \/ FillPosition, s = recs[trader.rec].source
      PROVE  trader.rec \in Waiting(s) /\ Len(recs) + 1 \notin Waiting(s)'
  <2>1. trader.pc \in {"draft", "fillPosition"} /\ trader.rec \in DOMAIN recs
    BY <1>4 DEF StageDraft, FillPosition, At, Placed, Handling
  <2>2. ActiveOrders(trader.rec) = {}
    BY <2>1 DEF Staging, NoneStaged, BeforeOpening, SlotsKept
  <2>3. ~ \E l \in MaxLosses : Emit(s, l)
    BY <2>1 DEF Emit, At
  <2>4. Len(recs) + 1 \notin DOMAIN recs
    BY Lengths DEF TypeOK
  <2> QED
    BY <1>3, <1>4, <2>1, <2>2, <2>3, <2>4 DEF Waiting, Wanted, Working
<1> QED
  BY <1>2, <1>3, <1>4

LEMMA UsedAfter ==
  ASSUME TypeOK, Placed, Referred, Turns, Sequential, OnePerson, Staging, FillBudget,
         BookReady, NoneCancelled', SlotsKept, [Next]_vars, NEW s \in Strategies
  PROVE  /\ Used(s) \in Nat /\ Used(s)' \in Nat
         /\ Used(s)' <= Used(s) + 1
         /\ ~(\E l \in MaxLosses : Emit(s, l)) => Used(s)' <= Used(s)
<1> DEFINE H == HeldBy(s)
           S == StagedBy(s)
           W == Waiting(s)
           Hn == HeldBy(s)'
           Sn == StagedBy(s)'
           Wn == Waiting(s)'
<1>1. IsFiniteSet(H) /\ IsFiniteSet(S) /\ IsFiniteSet(W)
  BY SlotsFinite
<1>2. /\ Used(s) = Cardinality(H) + Cardinality(S) + Cardinality(W)
      /\ Used(s)' = Cardinality(Hn) + Cardinality(Sn) + Cardinality(Wn)
  BY DEF Used
<1>3. ListStillOpen /\ PutUpForExit /\ DraftsStand
  BY DEF BookReady, Staging
<1>4. Wn \subseteq W \cup {Len(recs) + 1}
      /\ (~(\E l \in MaxLosses : Emit(s, l)) => Wn \subseteq W)
  BY WaitingAfter
<1>5. CASE FillPosition /\ s = recs[trader.rec].source
  <2>1. ~StageDraft
    BY <1>5 DEF FillPosition, StageDraft, At
  <2>2. Hn \subseteq H \cup {Len(positions) + 1} /\ Sn \subseteq S
    BY <1>3, <2>1, HeldAfter, StagedAfter
  <2>3. trader.rec \in W /\ Wn \subseteq W \ {trader.rec}
    BY <1>5, WaitingAfter
  <2> HIDE DEF H, S, W, Hn, Sn, Wn
  <2>4. /\ Cardinality(H) \in Nat /\ Cardinality(Hn) \in Nat
        /\ Cardinality(Hn) <= Cardinality(H) + 1
    BY <1>1, <2>2, OneMoreCounts
  <2>5. /\ Cardinality(S) \in Nat /\ Cardinality(Sn) \in Nat
        /\ Cardinality(Sn) <= Cardinality(S)
    BY <1>1, <2>2, PartCounts
  <2>6. /\ Cardinality(W) \in Nat /\ Cardinality(Wn) \in Nat
        /\ Cardinality(Wn) <= Cardinality(W) - 1
    BY <1>1, <2>3, OneLessCounts
  <2> QED
    BY <1>2, <2>4, <2>5, <2>6
<1>6. CASE StageDraft /\ s = recs[trader.rec].source
  <2>1. ~FillPosition
    BY <1>6 DEF FillPosition, StageDraft, At
  <2>2. Hn \subseteq H /\ Sn \subseteq S \cup {Len(orders) + 1}
    BY <1>3, <2>1, HeldAfter, StagedAfter
  <2>3. trader.rec \in W /\ Wn \subseteq W \ {trader.rec}
    BY <1>6, WaitingAfter
  <2> HIDE DEF H, S, W, Hn, Sn, Wn
  <2>4. /\ Cardinality(S) \in Nat /\ Cardinality(Sn) \in Nat
        /\ Cardinality(Sn) <= Cardinality(S) + 1
    BY <1>1, <2>2, OneMoreCounts
  <2>5. /\ Cardinality(H) \in Nat /\ Cardinality(Hn) \in Nat
        /\ Cardinality(Hn) <= Cardinality(H)
    BY <1>1, <2>2, PartCounts
  <2>6. /\ Cardinality(W) \in Nat /\ Cardinality(Wn) \in Nat
        /\ Cardinality(Wn) <= Cardinality(W) - 1
    BY <1>1, <2>3, OneLessCounts
  <2> QED
    BY <1>2, <2>4, <2>5, <2>6
<1>7. CASE ~((FillPosition \/ StageDraft) /\ s = recs[trader.rec].source)
  <2>1. Hn \subseteq H /\ Sn \subseteq S
    BY <1>3, <1>7, HeldAfter, StagedAfter
  <2> HIDE DEF H, S, W, Hn, Sn, Wn
  <2>2. /\ Cardinality(H) \in Nat /\ Cardinality(Hn) \in Nat
        /\ Cardinality(Hn) <= Cardinality(H)
        /\ Cardinality(S) \in Nat /\ Cardinality(Sn) \in Nat
        /\ Cardinality(Sn) <= Cardinality(S)
    BY <1>1, <2>1, PartCounts
  <2>3. /\ Cardinality(W) \in Nat /\ Cardinality(Wn) \in Nat
        /\ Cardinality(Wn) <= Cardinality(W) + 1
    BY <1>1, <1>4, OneMoreCounts
  <2>4. Wn \subseteq W => Cardinality(Wn) <= Cardinality(W)
    BY <1>1, PartCounts
  <2> QED
    BY <1>2, <1>4, <2>2, <2>3, <2>4
<1> QED
  BY <1>5, <1>6, <1>7

LEMMA NextSlotsInv ==
  ASSUME TypeOK, Placed, Referred, Turns, Sequential, OnePerson, Staging, FillBudget,
         BookReady, SlotsInv, [Next]_vars
  PROVE  SlotsInv'
<1> SUFFICES ASSUME NoneCancelled'
             PROVE  SlotsKept'
  BY DEF SlotsInv
<1>0. SlotsKept /\ DraftsStand
  BY DraftsKept DEF SlotsInv, Staging
<1>t. \A s \in Strategies : trader.slots[s] \in Nat /\ MaxConcurrent \in Nat
  BY TraderAssumption DEF TypeOK, TraderTypeOK
<1>1. trader'.pc \in Evaluating => trader'.todo = {}
  <2>1. CASE trader' = trader
    BY <1>0, <2>1 DEF SlotsKept
  <2>2. CASE TickStart \/ CountSlots \/ \E s \in Strategies, l \in MaxLosses : Emit(s, l)
    BY <1>0, <2>2, TraderMoves DEF Moved, Evaluating, SlotsKept
  <2>3. CASE /\ TraderWorks /\ ~CountSlots
             /\ ~ \E s \in Strategies, l \in MaxLosses : Emit(s, l)
    BY <2>3, TraderMoves DEF TraderWorks, Skips, Moved, Evaluating
  <2> QED
    BY <2>1, <2>2, <2>3, TraderTurn
<1>2. trader'.pc # "eval" => Served'
  BY <1>0, NextServed
<1>3. ASSUME NEW s \in Strategies
      PROVE  IF trader'.pc = "eval"
               THEN Used(s)' <= trader'.slots[s] /\ trader'.slots[s] <= MaxConcurrent
               ELSE Used(s)' <= MaxConcurrent
  <2>1. /\ Used(s) \in Nat /\ Used(s)' \in Nat /\ Used(s)' <= Used(s) + 1
        /\ ~(\E l \in MaxLosses : Emit(s, l)) => Used(s)' <= Used(s)
    BY <1>0, UsedAfter
  <2>2. IF trader.pc = "eval" THEN Used(s) <= trader.slots[s] /\ trader.slots[s] <= MaxConcurrent
                              ELSE Used(s) <= MaxConcurrent
    BY <1>0 DEF SlotsKept
  <2>3. CASE \E l \in MaxLosses : Emit(s, l)
    BY <1>t, <2>1, <2>2, <2>3, EmitAdds
  <2>4. CASE \E q \in Strategies, l \in MaxLosses : q # s /\ Emit(q, l)
    <3>1. ~ \E l \in MaxLosses : Emit(s, l)
      <4>1. SUFFICES ASSUME NEW l \in MaxLosses, Emit(s, l) PROVE FALSE
        OBVIOUS
      <4>2. PICK q \in Strategies, m \in MaxLosses : q # s /\ Emit(q, m)
        BY <2>4
      <4>3. trader'.slots[q] = trader.slots[q] + 1 /\ trader'.slots[q] = trader.slots[q]
        BY <4>1, <4>2, EmitAdds
      <4> QED
        BY <1>t, <4>3
    <3> QED
      BY <1>t, <2>1, <2>2, <2>4, <3>1, EmitAdds
  <2>5. CASE CountSlots
    <3>1. /\ trader.pc = "tick" /\ trader'.pc = "eval" /\ trader'.slots = SlotsTaken
          /\ UNCHANGED deskVars
      BY <2>5 DEF CountSlots, At, TypeOK, TraderTypeOK
    <3>2. Waiting(s) = {}
      <4>1. Served /\ trader.todo = {}
        BY <1>0, <3>1 DEF SlotsKept, Evaluating
      <4>2. s # PositionManager
        BY DeskAssumption
      <4> QED
        BY <3>1, <4>1, <4>2 DEF Served, Waiting, Wanted, Working, IsOpening
    <3>3. Used(s) = Cardinality(HeldBy(s)) + Cardinality(StagedBy(s)) + 0
      BY <3>2, FS_EmptySet DEF Used
    <3>4. trader'.slots[s] = Cardinality(HeldBy(s)) + Cardinality(StagedBy(s))
      BY <3>1 DEF SlotsTaken
    <3>5. Cardinality(HeldBy(s)) \in Nat /\ Cardinality(StagedBy(s)) \in Nat
      BY SlotsFinite, FS_CardinalityType
    <3>6. ~ \E l \in MaxLosses : Emit(s, l)
      BY <3>1 DEF Emit, At
    <3> QED
      BY <1>t, <2>1, <2>2, <3>1, <3>3, <3>4, <3>5, <3>6
  <2>6. CASE ~CountSlots /\ ~ \E q \in Strategies, l \in MaxLosses : Emit(q, l)
    <3>1. trader' = trader \/ trader'.pc # "eval"
      <4>1. TickStart => trader'.pc = "tick"
        BY DEF TickStart, TypeOK, TraderTypeOK
      <4> QED
        BY <2>6, <4>1, TraderTurn, TraderMoves DEF TraderWorks, Skips, Moved
    <3>2. Used(s)' <= Used(s)
      BY <2>1, <2>6
    <3> QED
      BY <1>t, <2>1, <2>2, <3>1, <3>2
  <2> QED
    BY <2>3, <2>4, <2>5, <2>6
<1>4. trader'.pc = "fillPosition" => ActiveOrders(trader.rec)' = {}
  <2>1. CASE trader' = trader
    <3>1. ~StageDraft
      BY <2>1, TraderMoves DEF Moved
    <3>2. ASSUME NEW r, r = trader.rec, trader.pc = "fillPosition"
          PROVE  ActiveOrders(r)' = {}
      BY <1>0, <3>1, <3>2, ActiveAfter DEF SlotsKept
    <3> QED
      BY <2>1, <3>2 DEF ActiveOrders
  <2>2. CASE FillOrder
    <3>1. trader'.rec = trader.rec /\ ~StageDraft /\ trader.pc = "paper"
      BY <2>2, TraderMoves DEF Moved, StageDraft, At
    <3>2. ActiveOrders(trader.rec) = {}
      BY <3>1 DEF Staging, NoneStaged, BeforeOpening
    <3>3. ASSUME NEW r, r = trader.rec
          PROVE  ActiveOrders(r)' = {}
      BY <1>0, <3>1, <3>2, <3>3, ActiveAfter
    <3> QED
      BY <3>1, <3>3 DEF ActiveOrders
  <2>3. CASE (TraderWorks /\ ~FillOrder) \/ TickStart
    BY <2>3, TraderMoves DEF TraderWorks, Skips, Moved
  <2> QED
    BY <2>1, <2>2, <2>3, TraderTurn
<1> QED
  BY <1>1, <1>2, <1>3, <1>4 DEF SlotsKept

(***************************************************************************)
(* One tick at a time and with one person at work, no strategy ever has    *)
(* more than max_concurrent positions and staged orders, as long as no     *)
(* order has been cancelled.                                               *)
(***************************************************************************)
THEOREM SlotsHold == Sequential /\ OnePerson => (Spec => []SlotsBound)
<1> SUFFICES ASSUME Sequential, OnePerson
             PROVE  Spec => []SlotsBound
  OBVIOUS
<1> DEFINE IInv == /\ TypeOK /\ Placed /\ Referred /\ FilledOnce /\ OneExitAlive /\ FillBudget
                   /\ Turns /\ BookReady /\ Staging /\ SlotsInv
<1>1. Init => IInv
  <2> SUFFICES ASSUME Init PROVE IInv
    OBVIOUS
  <2>1. recs = << >> /\ orders = << >> /\ positions = << >>
        /\ trader.pc = "idle" /\ trader.todo = {}
    BY DEF Init, DeskInit, TraderInit, IdleTrader
  <2>2. /\ manager.pc = "idle" /\ manager.todo = {}
        /\ \A h \in Operators : human[h].pc = "idle"
    BY DEF Init, ManagerInit, IdleManager, HumanInit, IdleHuman
  <2>3. Referred /\ FilledOnce /\ OneExitAlive /\ FillBudget
    BY <2>1, <2>2 DEF Referred, FilledOnce, FillsDone, Filled, FilledOrders, Unfilled,
       OneExitAlive, OneExit, AliveCloses, FillBudget, Handling
  <2>4. Turns /\ BookReady
    BY <2>1, <2>2 DEF Turns, BookReady, ListStillOpen, QuotedPrices, NothingRealized,
       PutUpForExit, Priced, Admitted, Exiting
  <2>5. Staging
    BY <2>1, <2>2 DEF Staging, StagedOnce, DraftsStand, HasDraft, NoneStaged, BeforeOpening
  <2>6. SlotsInv
    <3>1. ASSUME NEW s \in Strategies
          PROVE  Used(s) <= MaxConcurrent
      <4>1. HeldBy(s) = {} /\ StagedBy(s) = {} /\ Waiting(s) = {}
        BY <2>1 DEF HeldBy, Held, StagedBy, Waiting
      <4>2. Used(s) = 0
        BY <4>1, FS_EmptySet DEF Used
      <4> QED
        BY <4>2, TraderAssumption
    <3> QED
      BY <2>1, <3>1 DEF SlotsInv, SlotsKept, Served
  <2> QED
    BY <2>3, <2>4, <2>5, <2>6, InitPlaced
<1>2. IInv /\ [Next]_vars => IInv'
  BY NextPlaced, NextReferred, NextFilledOnce, NextOneExitAlive, NextFillBudget, NextTurns,
     NextListStillOpen, NextNothingRealized, NextQuotedPrices, NextPutUpForExit, NextStaging,
     NextSlotsInv DEF BookReady
<1>3. IInv => SlotsBound
  <2> SUFFICES ASSUME IInv, NoneCancelled, NEW s \in Strategies
               PROVE  Cardinality(HeldBy(s)) + Cardinality(StagedBy(s)) <= MaxConcurrent
    BY DEF SlotsBound, NoneCancelled
  <2>1. Used(s) <= MaxConcurrent
    <3>1. trader.slots[s] \in Nat /\ MaxConcurrent \in Nat /\ Used(s) \in Nat
      BY SlotsFinite, FS_CardinalityType, TraderAssumption DEF Used, TypeOK, TraderTypeOK
    <3> QED
      BY <3>1 DEF SlotsInv, SlotsKept
  <2>2. /\ Cardinality(HeldBy(s)) \in Nat /\ Cardinality(StagedBy(s)) \in Nat
        /\ Cardinality(Waiting(s)) \in Nat
    BY SlotsFinite, FS_CardinalityType
  <2> QED
    BY <2>1, <2>2, TraderAssumption DEF Used
<1> QED
  BY <1>1, <1>2, <1>3, PTL DEF Spec

=============================================================================
