----------------------------- MODULE ExitRules ------------------------------
(***************************************************************************)
(* core/risk.py with the parts of daemons/position_manager.py that feed    *)
(* it: what a combo is worth in a snapshot, and when to leave a position.  *)
(*                                                                         *)
(* A field that may be missing is a set of at most one element, so that a  *)
(* rule that needs it is an existential that a missing field makes false.  *)
(* Prices are whole multiples of a unit worth more than a cent, doubled so *)
(* that a mid is whole too; P&L counts the same half units times qty, and  *)
(* the factor CL_MULT that all P&L shares is left out.  Fractions are      *)
(* percentages, the strike buffer is per mille.                            *)
(***************************************************************************)
EXTENDS Integers, FiniteSetsExt, FiniteSums

Distance(x, y) == IF x < y THEN y - x ELSE x - y

Quote == [bid : Nat, ask : Nat, last : Nat]       \* 0: none

TwoSided(q) == q.bid > 0 /\ q.ask > 0

(***************************************************************************)
(* mark_position, and compute_combo_mid_from_snapshot in the trader: the   *)
(* mid of each leg, else its last, signed by the leg's action.  A book     *)
(* gives the quotes of the legs; ratio is negative for a leg that is sold. *)
(***************************************************************************)
Mid(q) == IF TwoSided(q) THEN q.bid + q.ask ELSE 2 * q.last

The(S) == CHOOSE x \in S : TRUE                  \* the element of a singleton

ComboMid(ratio, book) ==
  LET worth == [l \in DOMAIN ratio |-> ratio[l] * Mid(The(book[l]))]
  IN  IF \A l \in DOMAIN ratio : \E q \in book[l] : Mid(q) > 0
        THEN {Total(worth, DOMAIN ratio)} ELSE {}

(***************************************************************************)
(* The combo's bid and ask: only when every leg is quoted on both sides.   *)
(***************************************************************************)
ComboSides(ratio, book) ==
  LET sold   == [l \in DOMAIN ratio |->
                   2 * ratio[l] * (IF ratio[l] > 0 THEN The(book[l]).bid
                                                   ELSE The(book[l]).ask)]
      bought == [l \in DOMAIN ratio |->
                   2 * ratio[l] * (IF ratio[l] > 0 THEN The(book[l]).ask
                                                   ELSE The(book[l]).bid)]
      sides  == {Total(sold, DOMAIN ratio), Total(bought, DOMAIN ratio)}
  IN  IF \A l \in DOMAIN ratio : \E q \in book[l] : TwoSided(q)
        THEN {[bid |-> Min(sides), ask |-> Max(sides)]} ELSE {}

(***************************************************************************)
(* The short strike nearest to the money, the first leg on a tie.          *)
(***************************************************************************)
ShortStrike(ratio, strike, spot) ==
  LET shorts == {l \in DOMAIN ratio : ratio[l] < 0}
      far(l) == Distance(strike[l], spot)
      nearest == {l \in shorts : \A k \in shorts : far(l) <= far(k)}
  IN  IF shorts = {} THEN {} ELSE {strike[Min(nearest)]}

-----------------------------------------------------------------------------
(* StopRules: percentages, with the optional ones as sets *)

Optional == {S \in SUBSET (0 .. 1000) : Cardinality(S) <= 1}

(***************************************************************************)
(* _strategy_stop_rules for a strategy that strategies.yaml does not list. *)
(***************************************************************************)
DefaultRules(isCredit) ==
  [isCredit |-> isCredit, target |-> 50, stop |-> 100, timeStop |-> 3,
   volCrush |-> {}, trailActivate |-> {}, trailGiveback |-> {},
   strikeBuffer |-> {}, comboSpread |-> {}]

-----------------------------------------------------------------------------
(* evaluate_exit.  open and mark are the absolute values the manager       *)
(* passes; ctx is its ExitContext.                                         *)

TimeStop(rules, dte) == dte <= rules.timeStop

StrikeTested(rules, ctx) ==
  /\ rules.isCredit
  /\ \E b \in rules.strikeBuffer, s \in ctx.shortStrike, u \in ctx.spot :
       s > 0 /\ 1000 * Distance(u, s) <= b * s

VolCrushAtALoss(rules, ctx) ==                 \* mutant of VolCrush
  /\ rules.isCredit
  /\ \E v \in rules.volCrush, e \in ctx.entryIv, c \in ctx.iv : e - c >= v

VolCrush(rules, ctx) ==
  /\ rules.isCredit
  /\ \E v \in rules.volCrush, e \in ctx.entryIv, c \in ctx.iv : e - c >= v
  /\ ctx.pnl > 0

(***************************************************************************)
(* |open_debit| * 1000 stands for the greatest profit.                     *)
(***************************************************************************)
Trail(rules, open, ctx) ==
  \E a \in rules.trailActivate, g \in rules.trailGiveback :
    /\ open > 0
    /\ 100 * ctx.peak >= a * open
    /\ 100 * (ctx.peak - ctx.pnl) >= g * ctx.peak
    /\ ctx.peak > ctx.pnl

Target(rules, open, mark) ==
  IF rules.isCredit THEN 100 * mark <= open * (100 - rules.target)
                    ELSE 100 * mark >= open * (100 + rules.target)

Stop(rules, open, mark) ==
  IF rules.isCredit THEN 100 * mark >= open * (100 + rules.stop)
                    ELSE 100 * mark <= open * (100 - rules.stop)

(***************************************************************************)
(* The combo is quoted wider than comboSpread percent of its mid.          *)
(***************************************************************************)
TooWide(rules, ctx) ==
  \E w \in rules.comboSpread, c \in ctx.sides :
    /\ c.bid + c.ask # 0
    /\ 200 * (c.ask - c.bid) > w * Distance(c.bid + c.ask, 0)

BaseReason(rules, open, mark) ==
  IF Target(rules, open, mark) THEN "target"
  ELSE IF Stop(rules, open, mark) THEN "stop"
  ELSE "hold"

DeferAny(rules, reason, ctx) ==                \* mutant of Deferred
  reason # "hold" /\ TooWide(rules, ctx)
Deferred(rules, reason, ctx) == reason = "target" /\ TooWide(rules, ctx)

ExitReason(rules, open, mark, dte, ctx) ==
  IF TimeStop(rules, dte) THEN "time_stop"
  ELSE IF StrikeTested(rules, ctx) THEN "strike_tested"
  ELSE IF VolCrush(rules, ctx) THEN "vol_crush"
  ELSE IF Trail(rules, open, ctx) THEN "trail"
  ELSE LET base == BaseReason(rules, open, mark)
       IN  IF Deferred(rules, base, ctx) THEN "defer" ELSE base

ShouldExit(reason) == reason \notin {"hold", "defer"}

=============================================================================
