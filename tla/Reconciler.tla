----------------------------- MODULE Reconciler -----------------------------
(***************************************************************************)
(* daemons/reconciler.py: one pass reads the mode, loads the open          *)
(* positions, lets IB stream the account, compares the legs and, when they *)
(* differ, writes a commentary and halts.  Meanwhile the desk changes the  *)
(* positions and people trade in the account by hand.                      *)
(***************************************************************************)
EXTENDS Integers

CONSTANTS
  Positions,     \* ids of the positions table
  Legs,          \* identity tuples: symbol, type, expiry, strike, right, class
  LegsOf,        \* the legs of each position
  Quantities,    \* what the account can hold of a leg, 0 among them
  SettableModes  \* the modes that people set

ASSUME ReconcilerAssumption ==
  /\ LegsOf \in [Positions -> SUBSET Legs]
  /\ 0 \in Quantities
  /\ SettableModes \subseteq {"paper", "draft", "live", "halt"}

Modes == SettableModes \union {"paper", "halt"}
Held == {"open", "closing"}

VARIABLES
  mode,       \* of the current cash row
  status,     \* of each position, "none" before it is inserted
  account,    \* the quantity of each leg at IB
  pass,       \* the pass under way: where it is and what it has read
  differed,   \* history: legs on one side only at some moment of the pass
  lasting     \* history: legs on one side only at every moment of it

world == <<mode, status, account>>
vars == <<mode, status, account, pass, differed, lasting>>

Idle == [pc |-> "idle", mode |-> "halt", open |-> {}, closing |-> {},
         owed |-> {}, rows |-> {}, ended |-> FALSE, failed |-> FALSE,
         exit |-> "none"]

Init ==
  /\ mode = "paper"
  /\ status = [p \in Positions |-> "none"]
  /\ account = [l \in Legs |-> 0]
  /\ pass = Idle
  /\ differed = {} /\ lasting = {}

At(pc) == pass.pc = pc

LegsWith(s) == UNION {LegsOf[p] : p \in {q \in Positions : status[q] = s}}

BookLegs == LegsWith("open") \union LegsWith("closing")

HeldLegs == {l \in Legs : account[l] # 0}

OneSided == (BookLegs \ HeldLegs) \union (HeldLegs \ BookLegs)

-----------------------------------------------------------------------------
(* The desk and the people *)

PositionMoves ==     \* insert_position and update_position_status
  /\ \E p \in Positions, s \in Held \union {"closed"} :
       /\ <<status[p], s>> \in {<<"none", "open">>, <<"open", "closing">>,
                                <<"closing", "closed">>, <<"closing", "open">>}
       /\ status' = [status EXCEPT ![p] = s]
  /\ UNCHANGED <<mode, account, pass>>

PersonTrades ==
  /\ \E l \in Legs, q \in Quantities :
       /\ q # account[l]
       /\ account' = [account EXCEPT ![l] = q]
  /\ UNCHANGED <<mode, status, pass>>

SetMode ==
  /\ mode' \in SettableModes
  /\ UNCHANGED <<status, account, pass>>

-----------------------------------------------------------------------------
(* reconcile *)

PassBegins ==        \* get_current_mode
  /\ At("idle")
  /\ pass' = [Idle EXCEPT !.pc = "load", !.mode = mode]
  /\ UNCHANGED world

LoadedIds == {p \in Positions : status[p] = "open"}   \* mutant of LoadedLegs
LoadedLegs == LegsWith("open")

LoadDbPositions ==
  /\ At("load")
  /\ pass' = [pass EXCEPT !.open = LoadedLegs,
                          !.closing = LegsWith("closing"),
                          !.pc = IF pass.mode = "paper" THEN "report" ELSE "connect"]
  /\ UNCHANGED world

RequestPositions ==  \* IB owes a row for everything held at this moment
  /\ At("connect")
  /\ pass' = [pass EXCEPT !.pc = "pull", !.owed = HeldLegs]
  /\ UNCHANGED world

PositionRow ==       \* the callback position: also for later changes
  /\ At("pull")
  /\ \E l \in Legs : pass' = [pass EXCEPT !.rows = @ \union {<<l, account[l]>>}]
  /\ UNCHANGED world

RowsOf(l) == {row \in pass.rows : row[1] = l}

PositionEnd ==
  /\ At("pull")
  /\ \A l \in pass.owed : RowsOf(l) # {}
  /\ pass' = [pass EXCEPT !.pc = "report", !.ended = TRUE]
  /\ UNCHANGED world

PullTimesOut ==      \* a warning, and on with the rows received so far
  /\ At("pull")
  /\ pass' = [pass EXCEPT !.pc = "report"]
  /\ UNCHANGED world

PullFails ==         \* except Exception: FAILED to pull IB positions
  /\ pass.pc \in {"connect", "pull"}
  /\ pass' = [pass EXCEPT !.pc = "report", !.rows = {}, !.failed = TRUE]
  /\ UNCHANGED world

EveryRow == {row[1] : row \in pass.rows}     \* mutant of IbLegs
IbLegs == {row[1] : row \in {r \in pass.rows : r[2] # 0}}

Compared == pass.mode # "paper" /\ ~pass.failed

External == IF Compared THEN IbLegs \ pass.open ELSE {}

NoOrphans == {}                              \* mutant of Orphaned
Orphaned == IF Compared THEN pass.open \ IbLegs ELSE {}

Consistent == External = {} /\ Orphaned = {} /\ ~pass.failed

-----------------------------------------------------------------------------
(* persist_report: the commentary and the halt are two transactions *)

WriteReport ==
  /\ At("report")
  /\ pass' = IF Consistent THEN [Idle EXCEPT !.exit = "ok"]
                           ELSE [pass EXCEPT !.pc = "halt"]
  /\ UNCHANGED world

AutoHalt ==
  /\ At("halt")
  /\ mode' = "halt"
  /\ pass' = [Idle EXCEPT !.exit = "inconsistent"]
  /\ UNCHANGED <<status, account>>

Dies ==
  /\ ~At("idle")
  /\ pass' = Idle
  /\ UNCHANGED world

Pass ==
  \/ PassBegins \/ LoadDbPositions \/ RequestPositions
  \/ PositionRow \/ PositionEnd \/ PullTimesOut \/ PullFails
  \/ WriteReport \/ AutoHalt \/ Dies

-----------------------------------------------------------------------------
(* What the two sides were like while the pass ran *)

Observe ==
  LET now == OneSided'
  IN  IF pass'.pc = "idle"
        THEN differed' = {} /\ lasting' = {}
        ELSE /\ differed' = differed \union now
             /\ lasting' = IF At("idle") THEN now ELSE lasting \intersect now

Next == (PositionMoves \/ PersonTrades \/ SetMode \/ Pass) /\ Observe

Spec == Init /\ [][Next]_vars

-----------------------------------------------------------------------------
PassType ==
  [pc : {"idle", "load", "connect", "pull", "report", "halt"}, mode : Modes,
   open : SUBSET Legs, closing : SUBSET Legs, owed : SUBSET Legs,
   rows : SUBSET (Legs \X Quantities), ended : BOOLEAN, failed : BOOLEAN,
   exit : {"none", "ok", "inconsistent"}]

TypeOK ==
  /\ mode \in Modes
  /\ status \in [Positions -> Held \union {"none", "closed"}]
  /\ account \in [Legs -> Quantities]
  /\ pass \in PassType
  /\ differed \in SUBSET Legs /\ lasting \in SUBSET Legs

(***************************************************************************)
(* The two sides are read at different moments, and the account row by     *)
(* row, while both change.  Still, when IB has sent everything, a leg that *)
(* the report complains of was on one side only at some moment of the      *)
(* pass, or belonged to a position that was being closed: the query asks   *)
(* for status = 'open' alone.                                              *)
(***************************************************************************)
AlarmsAreReal ==
  pass.pc \in {"report", "halt"} /\ pass.ended =>
    External \union Orphaned \subseteq differed \union pass.closing

(***************************************************************************)
(* docs/safety.md: a phantom position halts trading.  When a leg is on one *)
(* side only during the whole of a pass that talks to IB and gets all of   *)
(* its rows, the pass ends in the mode 'halt', whatever else changes and   *)
(* whatever people set the mode to.  (Legs of positions being closed are   *)
(* not compared.)                                                          *)
(***************************************************************************)
PassEnds == pass.exit = "none" /\ pass'.exit # "none"

MismatchHalts ==
  [][PassEnds /\ pass.ended /\ lasting \ pass.closing # {} => mode' = "halt"]_vars

=============================================================================
