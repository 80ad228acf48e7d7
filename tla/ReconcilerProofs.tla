-------------------------- MODULE ReconcilerProofs --------------------------
(***************************************************************************)
(* Whatever the desk and the people do during a pass, a leg that the       *)
(* complete report complains of was on one side only at some moment, and a *)
(* leg that was on one side only all the time halts the desk.              *)
(*                                                                         *)
(* The argument: one step changes the positions or the account, never      *)
(* both.  So a leg that has agreed at every moment of the pass, or at      *)
(* none, has not changed sides since the pass began, and what the pass     *)
(* read of it, however early, is still true.                               *)
(***************************************************************************)
EXTENDS Reconciler, TLAPS

Reading == {"pull", "report", "halt"}

Unmoved == (Legs \ differed) \union lasting

(***************************************************************************)
(* The histories frame the present, and what the pass has read of a leg    *)
(* that has not changed sides is what a new reading would find.            *)
(***************************************************************************)
HistoryInv ==
  ~At("idle") => OneSided \subseteq differed /\ lasting \subseteq OneSided

LoadedInv ==
  ~At("idle") /\ ~At("load") =>
    \A l \in Unmoved : l \in pass.open \union pass.closing <=> l \in BookLegs

OwedInv ==
  At("pull") \/ pass.ended => \A l \in Unmoved : l \in pass.owed <=> l \in HeldLegs

RowsInv ==
  ~At("idle") =>
    \A l \in Unmoved : \A q \in Quantities :
      <<l, q>> \in pass.rows => (q # 0 <=> l \in HeldLegs)

EndedInv ==
  /\ pass.ended => /\ pass.pc \in {"report", "halt"}
                   /\ Compared
                   /\ \A l \in pass.owed : \E q \in Quantities : <<l, q>> \in pass.rows
  /\ pass.pc \in {"load", "connect", "pull"} => ~pass.failed
  /\ pass.pc \in {"connect", "pull"} => pass.mode # "paper"
  /\ ~At("idle") => pass.exit = "none"

PassInv == TypeOK /\ HistoryInv /\ LoadedInv /\ OwedInv /\ RowsInv /\ EndedInv

-----------------------------------------------------------------------------
(* One step, one side *)

LEMMA SidesTyped ==
  ASSUME TypeOK
  PROVE  BookLegs \subseteq Legs /\ HeldLegs \subseteq Legs /\ OneSided \subseteq Legs
  BY ReconcilerAssumption DEF BookLegs, LegsWith, HeldLegs, OneSided

LEMMA SameBook ==
  ASSUME status' = status
  PROVE  BookLegs' = BookLegs
  BY DEF BookLegs, LegsWith

LEMMA SameAccount ==
  ASSUME account' = account
  PROVE  HeldLegs' = HeldLegs
  BY DEF HeldLegs

LEMMA OneSideMoves ==
  ASSUME Next
  PROVE  BookLegs' = BookLegs \/ HeldLegs' = HeldLegs
  BY SameBook, SameAccount
  DEF Next, PositionMoves, PersonTrades, SetMode, Pass, PassBegins, LoadDbPositions,
      RequestPositions, PositionRow, PositionEnd, PullTimesOut, PullFails,
      WriteReport, AutoHalt, Dies, world

(***************************************************************************)
(* A leg that has not changed sides up to the next state had not before    *)
(* it, and is where it was.                                                *)
(***************************************************************************)
LEMMA UnmovedStays ==
  ASSUME TypeOK, HistoryInv, Next, ~At("idle"), ~At("idle")',
         NEW l \in Unmoved'
  PROVE  /\ l \in Unmoved
         /\ l \in BookLegs' <=> l \in BookLegs
         /\ l \in HeldLegs' <=> l \in HeldLegs
  <1>1. /\ OneSided \subseteq differed
        /\ lasting \subseteq OneSided
        /\ differed' = differed \union OneSided'
        /\ lasting' = lasting \intersect OneSided'
    BY DEF HistoryInv, Next, Observe, At
  <1>2. l \in Legs \/ l \in lasting'
    BY DEF Unmoved
  <1>3. l \in Unmoved
    BY <1>1 DEF Unmoved
  <1>4. l \in OneSided' <=> l \in OneSided
    BY <1>1 DEF Unmoved
  <1>5. l \in OneSided <=> (l \in BookLegs /\ l \notin HeldLegs)
                           \/ (l \in HeldLegs /\ l \notin BookLegs)
    BY DEF OneSided
  <1>6. l \in OneSided' <=> (l \in BookLegs' /\ l \notin HeldLegs')
                            \/ (l \in HeldLegs' /\ l \notin BookLegs')
    BY DEF OneSided
  <1>7. BookLegs' = BookLegs \/ HeldLegs' = HeldLegs
    BY OneSideMoves
  <1> QED
    BY <1>3, <1>4, <1>5, <1>6, <1>7, Zenon

-----------------------------------------------------------------------------
(* The steps of the invariant *)

LEMMA InitPass == Init => PassInv
  BY ReconcilerAssumption
  DEF Init, PassInv, TypeOK, Modes, Held, Idle, PassType, HistoryInv, LoadedInv,
      OwedInv, RowsInv, EndedInv, At

LEMMA RowTyped ==
  ASSUME TypeOK, NEW row \in pass.rows
  PROVE  row[1] \in Legs /\ row[2] \in Quantities /\ row = <<row[1], row[2]>>
  BY DEF TypeOK, PassType

LEMMA TypeStep ==
  ASSUME TypeOK, Next
  PROVE  TypeOK'
  <1>1. OneSided' \subseteq Legs
    <2>1. CASE PositionMoves
      <3>1. status' \in [Positions -> Held \union {"none", "closed"}] /\ account' = account
        BY <2>1 DEF PositionMoves, TypeOK
      <3> QED
        BY <3>1, ReconcilerAssumption DEF OneSided, BookLegs, LegsWith, HeldLegs
    <2>2. CASE status' = status
      BY <2>2, ReconcilerAssumption DEF OneSided, BookLegs, LegsWith, HeldLegs
    <2> QED
      BY <2>1, <2>2
      DEF Next, PersonTrades, SetMode, Pass, PassBegins, LoadDbPositions,
          RequestPositions, PositionRow, PositionEnd, PullTimesOut, PullFails,
          WriteReport, AutoHalt, Dies, world
  <1>2. differed' \in SUBSET Legs /\ lasting' \in SUBSET Legs
    BY <1>1 DEF TypeOK, Next, Observe
  <1>3. /\ mode' \in Modes
        /\ status' \in [Positions -> Held \union {"none", "closed"}]
        /\ account' \in [Legs -> Quantities]
    BY DEF Next, TypeOK, Modes, PositionMoves, PersonTrades, SetMode, Pass, PassBegins,
           LoadDbPositions, RequestPositions, PositionRow, PositionEnd, PullTimesOut,
           PullFails, WriteReport, AutoHalt, Dies, world
  <1>4. Idle \in PassType /\ pass \in PassType
    BY DEF Idle, PassType, Modes, TypeOK
  <1>5. pass' \in PassType
    <2>1. CASE PassBegins
      BY <2>1, <1>4 DEF PassBegins, PassType, Idle, TypeOK
    <2>2. CASE LoadDbPositions
      <3>1. LoadedLegs \subseteq Legs /\ LegsWith("closing") \subseteq Legs
        BY ReconcilerAssumption DEF LoadedLegs, LegsWith
      <3> QED
        BY <2>2, <1>4, <3>1 DEF LoadDbPositions, PassType
    <2>3. CASE RequestPositions
      BY <2>3, <1>4, SidesTyped DEF RequestPositions, PassType
    <2>4. CASE PositionRow
      <3>1. PICK l \in Legs : pass' = [pass EXCEPT !.rows = @ \union {<<l, account[l]>>}]
        BY <2>4 DEF PositionRow
      <3>2. <<l, account[l]>> \in Legs \X Quantities
        BY DEF TypeOK
      <3> QED
        BY <3>1, <3>2, <1>4 DEF PassType
    <2>5. CASE PositionEnd \/ PullTimesOut \/ PullFails
      BY <2>5, <1>4 DEF PositionEnd, PullTimesOut, PullFails, PassType
    <2>6. CASE WriteReport \/ AutoHalt \/ Dies
      <3>1. \A e \in {"ok", "inconsistent"} : [Idle EXCEPT !.exit = e] \in PassType
        BY <1>4 DEF PassType
      <3>2. [pass EXCEPT !.pc = "halt"] \in PassType
        BY <1>4 DEF PassType
      <3> QED
        BY <2>6, <1>4, <3>1, <3>2, Zenon DEF WriteReport, AutoHalt, Dies
    <2>7. CASE PositionMoves \/ PersonTrades \/ SetMode
      BY <2>7, <1>4 DEF PositionMoves, PersonTrades, SetMode
    <2> QED
      BY <2>1, <2>2, <2>3, <2>4, <2>5, <2>6, <2>7 DEF Next, Pass
  <1> QED
    BY <1>2, <1>3, <1>5 DEF TypeOK

LEMMA HistoryStep ==
  ASSUME TypeOK, HistoryInv, Next
  PROVE  HistoryInv'
  BY DEF HistoryInv, Next, Observe, At

(***************************************************************************)
(* The desk and the people leave the pass where it is.                     *)
(***************************************************************************)
LEMMA WorldStep ==
  ASSUME PassInv, Next, pass' = pass
  PROVE  LoadedInv' /\ OwedInv' /\ RowsInv' /\ EndedInv'
  <1>1. EndedInv'
    BY DEF PassInv, EndedInv, At, Compared
  <1>2. CASE At("idle")
    BY <1>1, <1>2 DEF PassInv, LoadedInv, OwedInv, RowsInv, EndedInv, At
  <1>3. CASE ~At("idle")
    <2>1. \A l \in Unmoved' : /\ l \in Unmoved
                              /\ l \in BookLegs' <=> l \in BookLegs
                              /\ l \in HeldLegs' <=> l \in HeldLegs
      BY <1>3, UnmovedStays DEF PassInv, At
    <2> QED
      BY <1>1, <2>1 DEF PassInv, LoadedInv, OwedInv, RowsInv, At
  <1> QED
    BY <1>2, <1>3

(***************************************************************************)
(* While the pass reads, the two sides stand still.                        *)
(***************************************************************************)
LEMMA ReadStep ==
  ASSUME PassInv, Pass, Observe
  PROVE  LoadedInv' /\ OwedInv' /\ RowsInv' /\ EndedInv'
  <1> USE DEF PassInv
  <1>1. CASE pass'.pc = "idle" /\ ~pass'.ended
    BY <1>1 DEF LoadedInv, OwedInv, RowsInv, EndedInv, At
  <1>2. CASE PassBegins
    BY <1>2 DEF PassBegins, Idle, LoadedInv, OwedInv, RowsInv, EndedInv, At
  <1>3. ASSUME ~At("idle"), ~At("idle")', status' = status, account' = account
        PROVE  /\ \A l \in Unmoved' : l \in Unmoved
               /\ BookLegs' = BookLegs /\ HeldLegs' = HeldLegs
    BY <1>3, UnmovedStays, SameBook, SameAccount DEF Next
  <1>4. pass \in PassType
    BY DEF TypeOK
  <1>5. CASE LoadDbPositions
    <2>1. BookLegs = LoadedLegs \union LegsWith("closing")
      BY DEF BookLegs, LoadedLegs
    <2>2. /\ pass'.open = LoadedLegs /\ pass'.closing = LegsWith("closing")
          /\ pass'.rows = pass.rows /\ pass'.ended = pass.ended
          /\ pass'.exit = pass.exit /\ pass'.failed = pass.failed
          /\ pass'.mode = pass.mode /\ pass.pc = "load"
          /\ pass'.pc = IF pass.mode = "paper" THEN "report" ELSE "connect"
      BY <1>4, <1>5 DEF LoadDbPositions, PassType, At
    <2>3. ~At("idle") /\ ~At("idle")' /\ status' = status /\ account' = account
      BY <1>5, <2>2 DEF LoadDbPositions, At, world
    <2> QED
      BY <1>3, <2>1, <2>2, <2>3 DEF LoadedInv, OwedInv, RowsInv, EndedInv, At
  <1>6. CASE RequestPositions
    <2>1. /\ pass' = [pass EXCEPT !.pc = "pull", !.owed = HeldLegs]
          /\ pass.pc = "connect" /\ status' = status /\ account' = account
      BY <1>6 DEF RequestPositions, At, world
    <2>2. /\ pass'.pc = "pull" /\ pass'.owed = HeldLegs
          /\ pass'.open = pass.open /\ pass'.closing = pass.closing
          /\ pass'.rows = pass.rows /\ pass'.ended = pass.ended
          /\ pass'.exit = pass.exit /\ pass'.failed = pass.failed
          /\ pass'.mode = pass.mode
      BY <1>4, <2>1 DEF PassType
    <2>3. ~At("idle") /\ ~At("idle")'
      BY <2>1, <2>2 DEF At
    <2> QED
      BY <1>3, <2>1, <2>2, <2>3 DEF LoadedInv, OwedInv, RowsInv, EndedInv, At
  <1>7. CASE PositionRow
    <2>1. PICK m \in Legs :
            pass' = [pass EXCEPT !.rows = @ \union {<<m, account[m]>>}]
      BY <1>7 DEF PositionRow
    <2>2. pass.pc = "pull" /\ status' = status /\ account' = account
      BY <1>7 DEF PositionRow, At, world
    <2>3. /\ pass'.pc = "pull" /\ pass'.owed = pass.owed
          /\ pass'.open = pass.open /\ pass'.closing = pass.closing
          /\ pass'.rows = pass.rows \union {<<m, account[m]>>}
          /\ pass'.ended = pass.ended /\ pass'.exit = pass.exit
          /\ pass'.failed = pass.failed /\ pass'.mode = pass.mode
      BY <1>4, <2>1, <2>2 DEF PassType
    <2>4. ~At("idle") /\ ~At("idle")'
      BY <2>2, <2>3 DEF At
    <2>5. RowsInv'
      <3>1. account[m] # 0 <=> m \in HeldLegs
        BY DEF HeldLegs
      <3>2. \A l \in Unmoved, q \in Quantities :
              <<l, q>> \in pass'.rows => (q # 0 <=> l \in HeldLegs)
        BY <2>3, <2>4, <3>1 DEF RowsInv
      <3> QED
        BY <1>3, <2>2, <2>4, <3>2 DEF RowsInv
    <2> QED
      BY <1>3, <2>2, <2>3, <2>4, <2>5 DEF LoadedInv, OwedInv, EndedInv, At
  <1>8. CASE PositionEnd
    <2>1. /\ pass' = [pass EXCEPT !.pc = "report", !.ended = TRUE]
          /\ pass.pc = "pull" /\ status' = status /\ account' = account
      BY <1>8 DEF PositionEnd, At, world
    <2>2. /\ pass'.pc = "report" /\ pass'.ended /\ pass'.owed = pass.owed
          /\ pass'.open = pass.open /\ pass'.closing = pass.closing
          /\ pass'.rows = pass.rows /\ pass'.exit = pass.exit
          /\ pass'.failed = pass.failed /\ pass'.mode = pass.mode
      BY <1>4, <2>1 DEF PassType
    <2>3. ~At("idle") /\ ~At("idle")'
      BY <2>1, <2>2 DEF At
    <2>4. \A l \in pass.owed : \E q \in Quantities : <<l, q>> \in pass.rows
      BY <1>8, RowTyped DEF PositionEnd, RowsOf
    <2>5. EndedInv'
      BY <2>1, <2>2, <2>3, <2>4 DEF EndedInv, Compared, At
    <2> QED
      BY <1>3, <2>1, <2>2, <2>3, <2>5 DEF LoadedInv, OwedInv, RowsInv, At
  <1>9. CASE PullTimesOut \/ PullFails \/ (WriteReport /\ ~Consistent)
    <2>1. /\ pass.pc \in {"connect", "pull", "report"}
          /\ status' = status /\ account' = account
      BY <1>9 DEF PullTimesOut, PullFails, WriteReport, At, world
    <2>2. /\ pass'.pc \in {"report", "halt"} /\ pass'.owed = pass.owed
          /\ pass'.open = pass.open /\ pass'.closing = pass.closing
          /\ pass'.rows \in {pass.rows, {}} /\ pass'.ended = pass.ended
          /\ pass'.exit = pass.exit /\ pass'.mode = pass.mode
      BY <1>4, <1>9 DEF PassType, PullTimesOut, PullFails, WriteReport, At
    <2>3. ~At("idle") /\ ~At("idle")'
      BY <2>1, <2>2 DEF At
    <2>4. pass.ended => pass'.rows = pass.rows /\ pass'.failed = pass.failed
      BY <1>4, <1>9
      DEF PassType, PullTimesOut, PullFails, WriteReport, At, EndedInv
    <2> QED
      BY <1>3, <2>1, <2>2, <2>3, <2>4
      DEF LoadedInv, OwedInv, RowsInv, EndedInv, Compared, At
  <1>10. CASE (WriteReport /\ Consistent) \/ AutoHalt \/ Dies
    <2>1. pass'.pc = "idle" /\ ~pass'.ended
      BY <1>10 DEF WriteReport, AutoHalt, Dies, Idle
    <2> QED
      BY <1>1, <2>1
  <1> QED
    BY <1>2, <1>5, <1>6, <1>7, <1>8, <1>9, <1>10 DEF Pass

(***************************************************************************)
(* Every step of the desk, of the people and of the pass keeps the         *)
(* invariant: the fields have their types, and what was read of an unmoved *)
(* leg is still true.                                                      *)
(***************************************************************************)
THEOREM PassInvariant == Spec => []PassInv
  <1>1. PassInv /\ [Next]_vars => PassInv'
    <2> SUFFICES ASSUME PassInv, [Next]_vars PROVE PassInv'
      OBVIOUS
    <2>1. CASE UNCHANGED vars
      BY <2>1
      DEF vars, PassInv, TypeOK, HistoryInv, LoadedInv, OwedInv, RowsInv, EndedInv,
          At, Unmoved, OneSided, BookLegs, LegsWith, HeldLegs, Compared
    <2>2. CASE Next
      <3>1. TypeOK' /\ HistoryInv'
        BY <2>2, TypeStep, HistoryStep DEF PassInv
      <3>2. LoadedInv' /\ OwedInv' /\ RowsInv' /\ EndedInv'
        BY <2>2, WorldStep, ReadStep
        DEF Next, PositionMoves, PersonTrades, SetMode
      <3> QED
        BY <3>1, <3>2 DEF PassInv
    <2> QED
      BY <2>1, <2>2
  <1> QED
    BY InitPass, <1>1, PTL DEF Spec

(***************************************************************************)
(* The mode, the positions, the account and what a pass has read of them   *)
(* keep their types.                                                       *)
(***************************************************************************)
THEOREM TypeCorrect == Spec => []TypeOK
  BY PassInvariant, PTL DEF PassInv

-----------------------------------------------------------------------------
(* What the report of a complete pass is worth *)

LEMMA CompleteRows ==
  ASSUME PassInv, pass.ended, NEW l \in Unmoved
  PROVE  /\ l \in IbLegs <=> l \in HeldLegs
         /\ l \in pass.open \union pass.closing <=> l \in BookLegs
  <1>1. pass.pc \in {"report", "halt"}
    BY DEF PassInv, EndedInv
  <1>2. l \in pass.open \union pass.closing <=> l \in BookLegs
    BY <1>1 DEF PassInv, LoadedInv, At
  <1>3. l \in pass.owed <=> l \in HeldLegs
    BY <1>1 DEF PassInv, OwedInv
  <1>4. \A q \in Quantities : <<l, q>> \in pass.rows => (q # 0 <=> l \in HeldLegs)
    BY <1>1 DEF PassInv, RowsInv, At
  <1>5. ASSUME l \in HeldLegs PROVE l \in IbLegs
    <2>1. PICK q \in Quantities : <<l, q>> \in pass.rows
      BY <1>3, <1>5 DEF PassInv, EndedInv
    <2>2. q # 0
      BY <1>4, <1>5, <2>1
    <2> QED
      BY <2>1, <2>2 DEF IbLegs
  <1>6. ASSUME l \in IbLegs PROVE l \in HeldLegs
    <2>1. PICK row \in pass.rows : row[2] # 0 /\ row[1] = l
      BY <1>6 DEF IbLegs
    <2>2. row[2] \in Quantities /\ <<l, row[2]>> \in pass.rows
      BY <2>1, RowTyped DEF PassInv
    <2> QED
      BY <1>4, <2>1, <2>2
  <1> QED
    BY <1>2, <1>5, <1>6

(***************************************************************************)
(* For any number of positions and legs, and whatever happens during the   *)
(* pass, the alarms of a complete pass have a cause.                       *)
(***************************************************************************)
THEOREM RealAlarms == Spec => []AlarmsAreReal
  <1>1. PassInv => AlarmsAreReal
    <2> SUFFICES ASSUME PassInv, pass.pc \in {"report", "halt"}, pass.ended,
                        NEW l \in External \union Orphaned,
                        l \notin differed
                 PROVE  l \in pass.closing
      BY DEF AlarmsAreReal
    <2>1. l \in IbLegs \ pass.open \/ l \in pass.open \ IbLegs
      BY DEF External, Orphaned
    <2>2. l \in Legs
      BY <2>1, RowTyped DEF IbLegs, PassInv, TypeOK, PassType
    <2>3. l \in Unmoved /\ l \notin OneSided
      BY <2>2 DEF Unmoved, PassInv, HistoryInv, At
    <2>4. l \in BookLegs <=> l \in HeldLegs
      BY <2>3, <2>2 DEF OneSided
    <2> QED
      BY <2>1, <2>3, <2>4, CompleteRows
  <1> QED
    BY <1>1, PassInvariant, PTL

(***************************************************************************)
(* A leg on one side only during the whole of a complete pass halts the    *)
(* desk, unless its position is being closed.                              *)
(***************************************************************************)
THEOREM LastingMismatchHalts == Spec => MismatchHalts
  <1>1. PassInv /\ [Next]_vars =>
          [PassEnds /\ pass.ended /\ lasting \ pass.closing # {} => mode' = "halt"]_vars
    <2> SUFFICES ASSUME PassInv, Next, PassEnds, pass.ended,
                        NEW l \in lasting \ pass.closing
                 PROVE  mode' = "halt"
      OBVIOUS
    <2>1. pass.pc \in {"report", "halt"} /\ Compared
      BY DEF PassInv, EndedInv
    <2>2. l \in Unmoved /\ l \in OneSided
      BY <2>1 DEF Unmoved, PassInv, HistoryInv, At
    <2>3. \/ l \in BookLegs /\ l \notin HeldLegs
          \/ l \in HeldLegs /\ l \notin BookLegs
      BY <2>2 DEF OneSided
    <2>4. l \in External \/ l \in Orphaned
      BY <2>1, <2>2, <2>3, CompleteRows DEF External, Orphaned
    <2>5. ~WriteReport
      BY <2>4 DEF WriteReport, Consistent, PassEnds, PassInv, TypeOK, PassType
    <2>6. AutoHalt
      BY <2>1, <2>5
      DEF Next, PassEnds, PositionMoves, PersonTrades, SetMode, Pass, PassBegins,
          LoadDbPositions, RequestPositions, PositionRow, PositionEnd, PullTimesOut,
          PullFails, Dies, Idle, At
    <2> QED
      BY <2>6 DEF AutoHalt
  <1> QED
    BY <1>1, PassInvariant, PTL DEF Spec, MismatchHalts

=============================================================================
