-------------------------- MODULE CashLedgerProofs --------------------------
(***************************************************************************)
(* Which row is current, whatever the clocks say, and what CashLedger      *)
(* promises, each promise under the weakest assumption on the reconciler's *)
(* clock that it needs: none for types and watermark, a clock not ahead of *)
(* UTC for the P&L, UTC for the mode.                                      *)
(***************************************************************************)
EXTENDS CashLedger, TLAPS

(***************************************************************************)
(* Row i of a table is the one `ORDER BY ts DESC LIMIT 1` finds.           *)
(***************************************************************************)
Newest(table, i) ==
  \A j \in DOMAIN table : \/ table[i].ts > table[j].ts
                          \/ table[i].ts = table[j].ts /\ i >= j

IsCurrent(table, row) ==    \* the row it finds
  \E d \in DOMAIN table : Newest(table, d) /\ table[d] = row

HasCurrent == \E c \in DOMAIN rows : Newest(rows, c)

Fields(row, ts, mode, pnl, balance, high) ==
  /\ row.ts = ts /\ row.mode = mode /\ row.pnl = pnl
  /\ row.balance = balance /\ row.high = high

LEMMA TableRow ==
  ASSUME NEW table \in Seq(CashRow), NEW i \in DOMAIN table
  PROVE  table[i] \in CashRow /\ table[i].ts \in Int /\ i \in Int
  <1>1. table[i] \in CashRow /\ i \in Int
    OBVIOUS
  <1> QED
    BY <1>1 DEF CashRow

LEMMA TheNewest ==
  ASSUME NEW table \in Seq(CashRow), NEW c \in DOMAIN table, Newest(table, c)
  PROVE  (CHOOSE i \in DOMAIN table : Newest(table, i)) = c
  <1> SUFFICES ASSUME NEW i \in DOMAIN table, Newest(table, i)
               PROVE  i = c
    OBVIOUS
  <1>1. table[i].ts \in Int /\ table[c].ts \in Int /\ i \in Int /\ c \in Int
    BY TableRow
  <1> QED
    BY <1>1 DEF Newest

(***************************************************************************)
(* An appended row is the newest if none is stamped later; otherwise the   *)
(* newest stays what it was, and nobody sees the row.                      *)
(***************************************************************************)
LEMMA Appending ==
  ASSUME NEW table \in Seq(CashRow), NEW c \in DOMAIN table, Newest(table, c),
         NEW row \in CashRow, NEW longer, longer = Append(table, row)
  PROVE  /\ row.ts >= table[c].ts => IsCurrent(longer, row)
         /\ ~(row.ts >= table[c].ts) => IsCurrent(longer, table[c])
  <1> DEFINE n == Len(table) + 1
  <1>1. /\ n \in DOMAIN longer /\ longer[n] = row /\ n \in Int
        /\ \A i \in DOMAIN table : i \in DOMAIN longer /\ longer[i] = table[i] /\ i < n
        /\ \A i \in DOMAIN longer : i \in DOMAIN table \/ i = n
    OBVIOUS
  <1>2. \A i \in DOMAIN table : table[i].ts \in Int /\ i \in Int
    BY TableRow
  <1>3. row.ts \in Int
    BY DEF CashRow
  <1> HIDE DEF n
  <1>4. CASE row.ts >= table[c].ts
    <2>1. \A j \in DOMAIN table : table[j].ts <= table[c].ts
      BY <1>2 DEF Newest
    <2>2. Newest(longer, n)
      BY <1>1, <1>2, <1>3, <1>4, <2>1 DEF Newest
    <2> QED
      BY <1>1, <1>4, <2>2 DEF IsCurrent
  <1>5. CASE ~(row.ts >= table[c].ts)
    <2>1. Newest(longer, c)
      BY <1>1, <1>2, <1>3, <1>5 DEF Newest
    <2> QED
      BY <1>1, <1>5, <2>1 DEF IsCurrent
  <1> QED
    BY <1>4, <1>5

LEMMA CurrentNewest ==
  ASSUME TypeOK, HasCurrent
  PROVE  /\ CurrentRow \in DOMAIN rows /\ Newest(rows, CurrentRow)
         /\ Current = rows[CurrentRow] /\ Current \in CashRow
  <1>1. CurrentRow = CHOOSE i \in DOMAIN rows : Newest(rows, i)
    BY DEF CurrentRow, Supersedes, Newest
  <1>2. CurrentRow \in DOMAIN rows /\ Newest(rows, CurrentRow)
    BY <1>1 DEF HasCurrent
  <1> QED
    BY <1>2, TableRow DEF Current, TypeOK

(***************************************************************************)
(* After a step the newest row is the current one.                         *)
(***************************************************************************)
LEMMA NewestIsCurrent ==
  ASSUME rows' \in Seq(CashRow), NEW d \in DOMAIN rows', Newest(rows', d)
  PROVE  HasCurrent' /\ CurrentRow' = d /\ Current' = rows'[d]
  <1>1. CurrentRow' = CHOOSE i \in DOMAIN rows' : Newest(rows', i)
    BY DEF CurrentRow, Supersedes, Newest
  <1>2. CurrentRow' = d
    BY <1>1, TheNewest
  <1> QED
    BY <1>2 DEF Current, HasCurrent

LEMMA Appended ==
  ASSUME TypeOK, HasCurrent, NEW row \in CashRow, AppendRow(row)
  PROVE  /\ rows' \in Seq(CashRow) /\ rows' # << >> /\ HasCurrent'
         /\ Current' = IF row.ts >= Current.ts THEN row ELSE Current
         /\ \A i \in DOMAIN rows' : rows'[i] = row \/ \E j \in DOMAIN rows : rows'[i] = rows[j]
  <1>1. rows' = Append(rows, row) /\ rows \in Seq(CashRow)
    BY DEF AppendRow, TypeOK
  <1>2. /\ rows' \in Seq(CashRow) /\ rows' # << >>
        /\ \A i \in DOMAIN rows' : rows'[i] = row \/ \E j \in DOMAIN rows : rows'[i] = rows[j]
    BY <1>1
  <1>3. CurrentRow \in DOMAIN rows /\ Newest(rows, CurrentRow) /\ Current = rows[CurrentRow]
    BY CurrentNewest
  <1>4. /\ row.ts >= Current.ts => IsCurrent(rows', row)
        /\ ~(row.ts >= Current.ts) => IsCurrent(rows', Current)
    BY <1>1, <1>3, Appending
  <1>5. ASSUME NEW x, IsCurrent(rows', x)
        PROVE  HasCurrent' /\ Current' = x
    BY <1>2, <1>5, NewestIsCurrent DEF IsCurrent
  <1>6. HasCurrent' /\ Current' = IF row.ts >= Current.ts THEN row ELSE Current
    BY <1>4, <1>5
  <1> QED
    BY <1>2, <1>6

(***************************************************************************)
(* The reseed edits the current row, which stays the current one.          *)
(***************************************************************************)
LEMMA Reseeded ==
  ASSUME TypeOK, HasCurrent, ReseedUpdates
  PROVE  /\ rows' \in Seq(CashRow) /\ rows' # << >> /\ HasCurrent'
         /\ Fields(Current', Current.ts, DefaultMode, Current.pnl, Starting, Starting)
         /\ \A i \in DOMAIN rows' : i \in DOMAIN rows /\ rows'[i].ts = rows[i].ts
  <1> DEFINE c == CurrentRow
             row == [Current EXCEPT !.balance = Starting, !.high = Starting,
                                    !.mode = DefaultMode]
  <1>1. c \in DOMAIN rows /\ Newest(rows, c) /\ Current = rows[c] /\ Current \in CashRow
    BY CurrentNewest
  <1>2. rows \in Seq(CashRow) /\ Starting \in Int /\ DefaultMode \in Modes
    BY LedgerAssumption DEF TypeOK
  <1>3. row \in CashRow /\ Fields(row, rows[c].ts, DefaultMode, Current.pnl, Starting, Starting)
    BY <1>1, <1>2 DEF CashRow, Fields
  <1>4. rows' = [rows EXCEPT ![c] = row]
    BY DEF ReseedUpdates, Current
  <1> HIDE DEF row, c
  <1>5. /\ rows' \in Seq(CashRow) /\ rows' # << >> /\ DOMAIN rows' = DOMAIN rows
        /\ rows'[c] = row /\ \A i \in DOMAIN rows : i # c => rows'[i] = rows[i]
    BY <1>1, <1>2, <1>3, <1>4
  <1>6. \A i \in DOMAIN rows : rows'[i].ts = rows[i].ts
    BY <1>3, <1>5 DEF Fields
  <1>7. Newest(rows', c)
    BY <1>1, <1>5, <1>6 DEF Newest
  <1>8. HasCurrent' /\ Current' = row
    BY <1>1, <1>5, <1>7, NewestIsCurrent
  <1> QED
    BY <1>1, <1>3, <1>5, <1>6, <1>8

LEMMA InitCurrent ==
  ASSUME Init
  PROVE  /\ TypeOK /\ HasCurrent /\ DOMAIN rows = {1}
         /\ Current = [ts |-> 1, mode |-> "paper", pnl |-> 0,
                       balance |-> Starting, high |-> Starting]
         /\ rows[1] = Current
  <1> DEFINE row == [ts |-> 1, mode |-> "paper", pnl |-> 0,
                     balance |-> Starting, high |-> Starting]
  <1>1. row \in CashRow /\ row.ts = 1
    BY LedgerAssumption DEF CashRow, Modes
  <1>2. rows = <<row>> /\ now = 0 /\ asked = [mode |-> "paper", undone |-> "no"] /\ booked = 0
        /\ reconciler = "idle" /\ reseed = "idle"
    BY DEF Init
  <1> HIDE DEF row
  <1>3. rows \in Seq(CashRow) /\ rows # << >> /\ DOMAIN rows = {1} /\ rows[1] = row
    BY <1>1, <1>2
  <1>4. TypeOK
    BY <1>2, <1>3 DEF TypeOK, Asked, Modes
  <1>5. Newest(rows, 1)
    BY <1>1, <1>3 DEF Newest
  <1>6. HasCurrent /\ CurrentRow = 1
    BY <1>3, <1>4, <1>5, CurrentNewest DEF HasCurrent
  <1> QED
    BY <1>3, <1>4, <1>6 DEF Current, row

-----------------------------------------------------------------------------
(* What the steps do to the current row *)

(***************************************************************************)
(* The steps that append a row, and the row.                               *)
(***************************************************************************)
Appends(row) ==
  \/ \E mode \in Modes :
       /\ SetMode(mode)
       /\ Fields(row, UtcStamp, mode, Current.pnl, Current.balance, Current.high)
  \/ \E gain \in Gains :
       /\ UpdateDailyPnl(gain)
       /\ Fields(row, UtcStamp, Current.mode, Current.pnl + gain, Current.balance + gain,
                 Watermark(gain))
  \/ /\ ReconcileHalts
     /\ Fields(row, LocalStamp, "halt", Current.pnl, Current.balance, Current.high)
  \/ /\ ReseedInserts
     /\ Fields(row, UtcStamp, Current.mode, Current.pnl, Current.balance, Current.high)

LEMMA CurrentFields ==
  ASSUME TypeOK, HasCurrent
  PROVE  /\ Current.ts \in Int /\ Current.mode \in Modes /\ Current.pnl \in Int
         /\ Current.balance \in Int /\ Current.high \in Int
         /\ UtcStamp \in Int /\ LocalStamp \in Int
         /\ \A gain \in Gains : gain \in Int /\ Watermark(gain) \in Int
                                /\ Watermark(gain) >= Current.balance + gain
  <1>1. Current \in CashRow
    BY CurrentNewest
  <1>2. now \in Int /\ Offset \in Int /\ \A gain \in Gains : gain \in Int
    BY LedgerAssumption DEF TypeOK
  <1>3. /\ Current.ts \in Int /\ Current.mode \in Modes /\ Current.pnl \in Int
        /\ Current.balance \in Int /\ Current.high \in Int
    BY <1>1 DEF CashRow
  <1> QED
    BY <1>2, <1>3 DEF UtcStamp, LocalStamp, Watermark

(***************************************************************************)
(* Every step appends a row, edits the current one, or leaves the table.   *)
(***************************************************************************)
LEMMA TableSteps ==
  ASSUME TypeOK, HasCurrent, [Next]_ledgerVars
  PROVE  \/ \E row \in CashRow : Appends(row) /\ AppendRow(row)
         \/ ReseedUpdates
         \/ rows' = rows /\ asked' = asked /\ booked' = booked
  <1>a. Current \in CashRow /\ UtcStamp \in Int /\ LocalStamp \in Int
    BY CurrentNewest, CurrentFields
  <1>1. ASSUME NEW mode \in Modes, SetMode(mode)
        PROVE  \E row \in CashRow : Appends(row) /\ AppendRow(row)
    <2> DEFINE row == [Current EXCEPT !.ts = UtcStamp, !.mode = mode]
    <2>1. /\ row \in CashRow
          /\ Fields(row, UtcStamp, mode, Current.pnl, Current.balance, Current.high)
      BY <1>a DEF CashRow, Fields
    <2>2. AppendRow(row)
      BY <1>1 DEF SetMode
    <2> HIDE DEF row
    <2> QED
      BY <1>1, <2>1, <2>2 DEF Appends
  <1>2. ASSUME NEW gain \in Gains, UpdateDailyPnl(gain)
        PROVE  \E row \in CashRow : Appends(row) /\ AppendRow(row)
    <2> DEFINE pnl == Current.pnl + gain
               balance == Current.balance + gain
               row == [Current EXCEPT !.ts = UtcStamp, !.pnl = pnl, !.balance = balance,
                                      !.high = Watermark(gain)]
    <2>1. pnl \in Int /\ balance \in Int /\ Watermark(gain) \in Int
      BY CurrentFields
    <2>2. AppendRow(row)
      BY <1>2 DEF UpdateDailyPnl
    <2> HIDE DEF pnl, balance
    <2>3. /\ row \in CashRow
          /\ Fields(row, UtcStamp, Current.mode, pnl, balance, Watermark(gain))
      BY <1>a, <2>1 DEF CashRow, Fields
    <2> HIDE DEF row
    <2> QED
      BY <1>2, <2>2, <2>3 DEF Appends, pnl, balance
  <1>3. ASSUME ReconcileHalts
        PROVE  \E row \in CashRow : Appends(row) /\ AppendRow(row)
    <2> DEFINE row == [Current EXCEPT !.ts = LocalStamp, !.mode = "halt"]
    <2>1. /\ row \in CashRow
          /\ Fields(row, LocalStamp, "halt", Current.pnl, Current.balance, Current.high)
      BY <1>a DEF CashRow, Fields, Modes
    <2>2. AppendRow(row)
      BY <1>3 DEF ReconcileHalts
    <2> HIDE DEF row
    <2> QED
      BY <1>3, <2>1, <2>2 DEF Appends
  <1>4. ASSUME ReseedInserts
        PROVE  \E row \in CashRow : Appends(row) /\ AppendRow(row)
    <2> DEFINE row == [Current EXCEPT !.ts = UtcStamp]
    <2>1. /\ row \in CashRow
          /\ Fields(row, UtcStamp, Current.mode, Current.pnl, Current.balance, Current.high)
      BY <1>a DEF CashRow, Fields
    <2>2. AppendRow(row)
      BY <1>4 DEF ReseedInserts
    <2> HIDE DEF row
    <2> QED
      BY <1>4, <2>1, <2>2 DEF Appends
  <1>5. CASE Tick \/ ReconcileBegins \/ ReconcileEnds \/ ReseedDies \/ UNCHANGED ledgerVars
    BY <1>5 DEF Tick, ReconcileBegins, ReconcileEnds, ReseedDies, ledgerVars
  <1> QED
    BY <1>1, <1>2, <1>3, <1>4, <1>5 DEF Next

LEMMA NextTyped ==
  ASSUME TypeOK, HasCurrent, [Next]_ledgerVars
  PROVE  TypeOK' /\ HasCurrent'
  <1>1. rows' \in Seq(CashRow) /\ rows' # << >> /\ HasCurrent'
    <2>1. ASSUME NEW row \in CashRow, AppendRow(row)
          PROVE  rows' \in Seq(CashRow) /\ rows' # << >> /\ HasCurrent'
      BY <2>1, Appended
    <2>2. CASE rows' = rows
      BY <2>2 DEF TypeOK, HasCurrent
    <2> QED
      BY <2>1, <2>2, Reseeded, TableSteps
  <1>2. /\ now' \in Nat /\ reconciler' \in {"idle", "pulling"} /\ reseed' \in {"idle", "inserted"}
        /\ asked' \in Asked /\ booked' \in Int
    <2>1. now \in Nat /\ asked \in Asked /\ booked \in Int /\ \A gain \in Gains : gain \in Int
      BY LedgerAssumption DEF TypeOK
    <2>2. ASSUME NEW gain \in Gains, UpdateDailyPnl(gain)
          PROVE  booked' \in Int
      BY <2>1, <2>2 DEF UpdateDailyPnl
    <2>3. ASSUME NEW mode \in Modes, SetMode(mode)
          PROVE  asked' \in Asked
      BY <2>3 DEF SetMode, Asked
    <2>4. ReconcileHalts => asked' \in Asked
      BY DEF ReconcileHalts, Asked, Modes
    <2>5. ReseedUpdates => asked' \in Asked
      BY <2>1 DEF ReseedUpdates, Asked
    <2>6. asked' = asked \/ asked' \in Asked
      BY <2>3, <2>4, <2>5 DEF Next, Tick, UpdateDailyPnl, ReconcileBegins, ReconcileEnds,
         ReseedInserts, ReseedDies, ledgerVars
    <2>7. booked' = booked \/ booked' \in Int
      BY <2>2 DEF Next, Tick, SetMode, ReconcileBegins, ReconcileEnds, ReconcileHalts,
         ReseedInserts, ReseedUpdates, ReseedDies, ledgerVars
    <2>8. now' \in {now, now + 1} /\ reconciler' \in {reconciler, "idle", "pulling"}
          /\ reseed' \in {reseed, "idle", "inserted"}
      BY DEF Next, Tick, SetMode, UpdateDailyPnl, ReconcileBegins, ReconcileEnds,
         ReconcileHalts, ReseedInserts, ReseedUpdates, ReseedDies, ledgerVars
    <2> QED
      BY <2>1, <2>6, <2>7, <2>8 DEF TypeOK
  <1> QED
    BY <1>1, <1>2 DEF TypeOK

(***************************************************************************)
(* The rows of the cash table keep their types, whatever the clocks say.   *)
(***************************************************************************)
THEOREM LedgerTypes == Spec => []TypeOK
  <1> DEFINE IInv == TypeOK /\ HasCurrent
  <1>1. Init => IInv
    BY InitCurrent
  <1>2. IInv /\ [Next]_ledgerVars => IInv'
    BY NextTyped
  <1>3. IInv => TypeOK
    OBVIOUS
  <1> QED
    BY <1>1, <1>2, <1>3, PTL DEF Spec

(***************************************************************************)
(* The high watermark never falls below the balance: not by a booking, not *)
(* by a reseed that edits somebody else's row, and not when a row of a     *)
(* wrong clock hides or uncovers another.                                  *)
(***************************************************************************)
THEOREM WatermarkHolds == Spec => []WatermarkAboveBalance
  <1> DEFINE IInv == TypeOK /\ HasCurrent /\ WatermarkAboveBalance
  <1>1. Init => IInv
    <2> SUFFICES ASSUME Init PROVE IInv
      OBVIOUS
    <2>1. Current.high = Starting /\ Current.balance = Starting /\ Starting \in Int
      BY InitCurrent, LedgerAssumption
    <2> QED
      BY <2>1, InitCurrent DEF WatermarkAboveBalance
  <1>2. IInv /\ [Next]_ledgerVars => IInv'
    <2> SUFFICES ASSUME IInv, [Next]_ledgerVars PROVE IInv'
      OBVIOUS
    <2>1. ASSUME NEW row \in CashRow, Appends(row), AppendRow(row)
          PROVE  Current'.high >= Current'.balance
      <3>1. row.high >= row.balance /\ Current.high >= Current.balance
        BY <2>1, CurrentFields DEF Appends, Fields, WatermarkAboveBalance
      <3>2. Current' = row \/ Current' = Current
        BY <2>1, Appended
      <3> QED
        BY <3>1, <3>2
    <2>2. ReseedUpdates => Current'.high >= Current'.balance
      <3>1. ReseedUpdates => Current'.high = Starting /\ Current'.balance = Starting
        BY Reseeded DEF Fields
      <3> QED
        BY <3>1, LedgerAssumption
    <2>3. rows' = rows => Current' = Current
      BY DEF Current, CurrentRow, Supersedes
    <2>4. Current'.high >= Current'.balance
      BY <2>1, <2>2, <2>3, TableSteps DEF WatermarkAboveBalance
    <2> QED
      BY <2>4, NextTyped DEF WatermarkAboveBalance
  <1>3. IInv => WatermarkAboveBalance
    OBVIOUS
  <1> QED
    BY <1>1, <1>2, <1>3, PTL DEF Spec

-----------------------------------------------------------------------------
(* A reconciler whose clock is not ahead of UTC *)

(***************************************************************************)
(* No row is stamped later than the present, so whatever is stamped in UTC *)
(* now becomes the current row.                                            *)
(***************************************************************************)
NoneAhead == \A i \in DOMAIN rows : rows[i].ts <= UtcStamp

LEMMA NextNoneAhead ==
  ASSUME Offset <= 0, TypeOK, HasCurrent, NoneAhead, [Next]_ledgerVars
  PROVE  NoneAhead'
  <1>a. now \in Int /\ Offset \in Int /\ rows \in Seq(CashRow) /\ rows' \in Seq(CashRow)
    BY LedgerAssumption, NextTyped DEF TypeOK
  <1>b. UtcStamp \in Int /\ UtcStamp' \in Int /\ UtcStamp' >= UtcStamp /\ LocalStamp <= UtcStamp
    <2>1. now' = now \/ now' = now + 1
      BY DEF Next, Tick, SetMode, UpdateDailyPnl, ReconcileBegins, ReconcileEnds,
         ReconcileHalts, ReseedInserts, ReseedUpdates, ReseedDies, ledgerVars
    <2> QED
      BY <1>a, <2>1 DEF UtcStamp, LocalStamp
  <1>c. \A i \in DOMAIN rows : rows[i].ts \in Int /\ rows[i].ts <= UtcStamp'
    BY <1>a, <1>b, TableRow DEF NoneAhead
  <1> SUFFICES \A i \in DOMAIN rows' : rows'[i].ts <= UtcStamp'
    BY DEF NoneAhead
  <1>1. ASSUME NEW row \in CashRow, Appends(row), AppendRow(row)
        PROVE  \A i \in DOMAIN rows' : rows'[i].ts <= UtcStamp'
    <2>1. row.ts \in {UtcStamp, LocalStamp}
      BY <1>1 DEF Appends, Fields
    <2>2. row.ts <= UtcStamp' /\ row.ts \in Int
      BY <1>a, <1>b, <2>1 DEF LocalStamp
    <2> QED
      BY <1>c, <1>1, <2>2, Appended
  <1>2. CASE ReseedUpdates
    BY <1>c, <1>2, Reseeded
  <1>3. CASE rows' = rows
    BY <1>c, <1>3
  <1> QED
    BY <1>1, <1>2, <1>3, TableSteps

(***************************************************************************)
(* No booking is missing from the current row, west of UTC either: a row   *)
(* of the reconciler that is not seen is not copied, and one that is seen  *)
(* is a copy of the row that was current.  (East of UTC it stays current   *)
(* over the bookings of the hours that follow.)                            *)
(***************************************************************************)
THEOREM PnlIsKept ==
  ASSUME Offset <= 0
  PROVE  Spec => []AllBookedIsCurrent
  <1> DEFINE IInv == TypeOK /\ HasCurrent /\ NoneAhead /\ AllBookedIsCurrent
  <1>1. Init => IInv
    <2> SUFFICES ASSUME Init PROVE IInv
      OBVIOUS
    <2>1. now = 0 /\ booked = 0 /\ Current.ts = 1 /\ Current.pnl = 0
      BY InitCurrent DEF Init
    <2> QED
      BY <2>1, InitCurrent DEF NoneAhead, UtcStamp, AllBookedIsCurrent
  <1>2. IInv /\ [Next]_ledgerVars => IInv'
    <2> SUFFICES ASSUME IInv, [Next]_ledgerVars PROVE IInv'
      OBVIOUS
    <2>0. Current.ts <= UtcStamp /\ Current.pnl = booked
      BY CurrentNewest DEF NoneAhead, AllBookedIsCurrent
    <2>1. ASSUME NEW row \in CashRow, Appends(row), AppendRow(row)
          PROVE  Current'.pnl = booked'
      <3>1. Current' = IF row.ts >= Current.ts THEN row ELSE Current
        BY <2>1, Appended
      <3>2. ASSUME NEW gain \in Gains, UpdateDailyPnl(gain), row.pnl = Current.pnl + gain,
                   row.ts = UtcStamp
            PROVE  Current'.pnl = booked'
        <4>1. Current' = row
          BY <2>0, <3>1, <3>2, CurrentFields
        <4> QED
          BY <2>0, <3>2, <4>1 DEF UpdateDailyPnl
      <3>3. row.pnl = Current.pnl /\ booked' = booked => Current'.pnl = booked'
        BY <2>0, <3>1
      <3>4. \/ \E gain \in Gains : /\ UpdateDailyPnl(gain) /\ row.pnl = Current.pnl + gain
                                   /\ row.ts = UtcStamp
            \/ row.pnl = Current.pnl /\ booked' = booked
        BY <2>1 DEF Appends, Fields, SetMode, ReconcileHalts, ReseedInserts
      <3> QED
        BY <3>2, <3>3, <3>4
    <2>2. ReseedUpdates => Current'.pnl = booked'
      BY <2>0, Reseeded DEF ReseedUpdates, Fields
    <2>3. rows' = rows => Current' = Current
      BY DEF Current, CurrentRow, Supersedes
    <2>4. Current'.pnl = booked'
      BY <2>0, <2>1, <2>2, <2>3, TableSteps
    <2> QED
      BY <2>4, NextTyped, NextNoneAhead DEF AllBookedIsCurrent
  <1>3. IInv => AllBookedIsCurrent
    OBVIOUS
  <1> QED
    BY <1>1, <1>2, <1>3, PTL DEF Spec

-----------------------------------------------------------------------------
(* A reconciler in UTC *)

(***************************************************************************)
(* With the reconciler in UTC, who asked for a mode last is heard, in      *)
(* every interleaving of mode commands, bookings, passes and reseeds, but  *)
(* for the two ways of being undone that LastAskedIsCurrent names: its     *)
(* row is below no row but one of its own millisecond.                     *)
(***************************************************************************)
THEOREM LastAskedIsHeard ==
  ASSUME Offset = 0
  PROVE  Spec => []LastAskedIsCurrent
  <1> DEFINE IInv == TypeOK /\ HasCurrent /\ NoneAhead /\ LastAskedIsCurrent
  <1>1. Init => IInv
    <2> SUFFICES ASSUME Init PROVE IInv
      OBVIOUS
    <2>1. /\ now = 0 /\ asked.mode = "paper" /\ asked.undone = "no"
          /\ Current.ts = 1 /\ Current.mode = "paper"
      BY InitCurrent DEF Init
    <2> QED
      BY <2>1, InitCurrent DEF NoneAhead, UtcStamp, LastAskedIsCurrent
  <1>2. IInv /\ [Next]_ledgerVars => IInv'
    <2> SUFFICES ASSUME IInv, [Next]_ledgerVars PROVE IInv'
      OBVIOUS
    <2>0. Current.ts <= UtcStamp /\ Current.ts \in Int /\ UtcStamp \in Int /\ now \in Int
      BY CurrentNewest, CurrentFields DEF NoneAhead, TypeOK
    <2>1. ASSUME NEW row \in CashRow, Appends(row), AppendRow(row)
          PROVE  LastAskedIsCurrent'
      <3>1. Current' = IF row.ts >= Current.ts THEN row ELSE Current
        BY <2>1, Appended
      <3>2. ASSUME NEW mode \in Modes, SetMode(mode), row.mode = mode, row.ts = UtcStamp
            PROVE  LastAskedIsCurrent'
        <4>1. Current' = row
          BY <2>0, <3>1, <3>2
        <4>2. asked'.undone = "no" /\ asked'.mode = mode
          BY <3>2 DEF SetMode
        <4> QED
          BY <3>2, <4>1, <4>2 DEF LastAskedIsCurrent
      <3>3. ASSUME ReconcileHalts, row.mode = "halt", row.ts = LocalStamp
            PROVE  LastAskedIsCurrent'
        <4>1. LocalStamp = UtcStamp - 1
          BY <2>0 DEF LocalStamp, UtcStamp
        <4>2. CASE Current.ts = UtcStamp
          <5>1. asked'.undone = "millisecond"
            BY <3>3, <4>2 DEF ReconcileHalts
          <5> QED
            BY <5>1 DEF LastAskedIsCurrent
        <4>3. CASE Current.ts # UtcStamp
          <5>1. Current' = row
            BY <2>0, <3>1, <3>3, <4>1, <4>3
          <5>2. asked'.undone = "no" /\ asked'.mode = "halt"
            BY <3>3, <4>3 DEF ReconcileHalts
          <5> QED
            BY <3>3, <5>1, <5>2 DEF LastAskedIsCurrent
        <4> QED
          BY <4>2, <4>3
      <3>4. ASSUME row.mode = Current.mode, asked' = asked
            PROVE  LastAskedIsCurrent'
        <4>1. Current'.mode = Current.mode
          BY <3>1, <3>4
        <4> QED
          BY <3>4, <4>1 DEF LastAskedIsCurrent
      <3>5. \/ \E mode \in Modes : SetMode(mode) /\ row.mode = mode /\ row.ts = UtcStamp
            \/ ReconcileHalts /\ row.mode = "halt" /\ row.ts = LocalStamp
            \/ row.mode = Current.mode /\ asked' = asked
        BY <2>1 DEF Appends, Fields, UpdateDailyPnl, ReseedInserts
      <3> QED
        BY <3>2, <3>3, <3>4, <3>5
    <2>2. ASSUME ReseedUpdates
          PROVE  LastAskedIsCurrent'
      <3>1. Current'.mode = DefaultMode
        BY <2>2, Reseeded DEF Fields
      <3>2. asked'.undone = "reseed"
        BY <2>2 DEF ReseedUpdates, TypeOK, Asked
      <3> QED
        BY <3>1, <3>2 DEF LastAskedIsCurrent
    <2>3. ASSUME rows' = rows, asked' = asked
          PROVE  LastAskedIsCurrent'
      <3>1. Current' = Current
        BY <2>3 DEF Current, CurrentRow, Supersedes
      <3> QED
        BY <2>3, <3>1 DEF LastAskedIsCurrent
    <2>4. LastAskedIsCurrent'
      BY <2>1, <2>2, <2>3, TableSteps
    <2> QED
      BY <2>4, NextTyped, NextNoneAhead
  <1>3. IInv => LastAskedIsCurrent
    OBVIOUS
  <1> QED
    BY <1>1, <1>2, <1>3, PTL DEF Spec

=============================================================================
