---------------------------- MODULE PositionLife ----------------------------
(***************************************************************************)
(* The life of one position as prices move: the trader admits it by the    *)
(* DTE policy and fills it at the snapshot's mid, the position manager     *)
(* marks it every tick and asks evaluate_exit, and the trader closes it.   *)
(* The three read different snapshots: each takes the newest when it acts. *)
(*                                                                         *)
(* TraderDaemon and PositionManager model the rows and the races of these  *)
(* steps and leave the prices out; here it is the other way round.         *)
(***************************************************************************)
EXTENDS ExitRules, DtePolicy

CONSTANTS
  Strategies,     \* the strategies that propose
  Rules,          \* strategies.yaml: the stop rules of those it lists
  SellsPremium,   \* strategies whose structure's name says credit
  Ratio,          \* per strategy, the signed ratio of each leg
  Strike,         \* the strike of each leg
  Quotes,         \* quotes a snapshot may have for an option
  Views,          \* [iv, spot] readings of the expiry's chain
  Medians,        \* median IVs of the whole snapshot
  Days            \* the DTEs at which the daemons happen to look

Legs == DOMAIN Strike

Rule == [isCredit : BOOLEAN, target : Nat, stop : Nat, timeStop : Nat,
         volCrush : Optional, trailActivate : Optional, trailGiveback : Optional,
         strikeBuffer : Optional, comboSpread : Optional]

ASSUME LifeAssumption ==
  /\ SellsPremium \subseteq Strategies
  /\ Ratio \in [Strategies -> [Legs -> Int]]
  /\ IsFiniteSet(Legs) /\ Legs \subseteq Nat
  /\ Strike \in [Legs -> Nat]
  /\ Quotes \subseteq Quote
  /\ Views \subseteq [iv : Nat, spot : Nat \ {0}]
  /\ Medians \subseteq Nat
  /\ Days \subseteq Nat
  /\ \A s \in DOMAIN Rules : Rules[s] \in Rule

VARIABLES
  dte,      \* days to the position's expiry
  snap,     \* the newest snapshot: [book, chain]
  pos,      \* the positions row: [status, strategy, open, entryIv]
  marks,    \* MAX(unrealized_pnl) over its position_marks, when it has any
  fresh,    \* history: no newer snapshot, and no new day, since it was priced
  best,     \* history: the greatest profit it was ever marked at
  verdict   \* history: the manager's last answer [reason, pnl, sawPeak]

vars == <<dte, snap, pos, marks, fresh, best, verdict>>

AtMostOne(S) == {{}} \cup {{x} : x \in S}

Snapshot == [book : [Legs -> AtMostOne(Quotes)], chain : AtMostOne(Views)]
NoSnapshot == [book |-> [l \in Legs |-> {}], chain |-> {}]
NoPosition == [status |-> "none", strategy |-> {}, open |-> 0, entryIv |-> {}]
NoVerdict == [reason |-> "none", pnl |-> 0, sawPeak |-> FALSE]

(***************************************************************************)
(* _strategy_stop_rules: whether it is a credit comes from the structure.  *)
(***************************************************************************)
StopRules(s) ==
  IF s \in DOMAIN Rules THEN Rules[s] ELSE DefaultRules(s \in SellsPremium)

Held == The(pos.strategy)
HeldMid == ComboMid(Ratio[Held], snap.book)       \* empty: a leg is unquoted
Pnl == The(HeldMid) - pos.open
Abs(x) == Distance(x, 0)

(***************************************************************************)
(* _build_market_state_from_snap and _build_trade_context.  What is not    *)
(* read from the snapshot stays missing.  A spread is a fraction of the    *)
(* mid, rounded up to percents.                                            *)
(***************************************************************************)
SpreadPct(s) ==
  {(100 * (c.ask - c.bid) + Abs(m) - 1) \div Abs(m) :
     c \in ComboSides(Ratio[s], snap.book),
     m \in ComboMid(Ratio[s], snap.book) \ {0}}

MarketState(s, median) ==
  [iv |-> median, rv |-> {}, ivChange |-> {}, spread |-> SpreadPct(s),
   news |-> {}, fast |-> FALSE, dte |-> dte]

TradeContext(s, pin) ==
  [credit |-> s \in SellsPremium, hedge |-> FALSE, pin |-> pin,
   magnet |-> FALSE, event |-> FALSE, size |-> 0]

-----------------------------------------------------------------------------
(* The market *)

(***************************************************************************)
(* latest_snapshot reads the newest file: the quotes in it are arbitrary.  *)
(***************************************************************************)
SnapshotArrives ==
  /\ snap' \in Snapshot
  /\ fresh' = FALSE
  /\ verdict' = NoVerdict
  /\ UNCHANGED <<dte, pos, marks, best>>

DaysPass ==
  /\ dte' \in {d \in Days : d < dte}
  /\ fresh' = FALSE
  /\ verdict' = NoVerdict
  /\ UNCHANGED <<snap, pos, marks, best>>

-----------------------------------------------------------------------------
(* The trader *)

(***************************************************************************)
(* _handle_opening_rec: the policy admits the trade and the mid is known;  *)
(* a proposal it refuses leaves nothing behind.                            *)
(***************************************************************************)
Admit(s) ==
  /\ pos.status = "none"
  /\ \E median \in AtMostOne(Medians), pin \in BOOLEAN :
       /\ snap.chain # {} => median # {}
       /\ Admits(TradeContext(s, pin), MarketState(s, median))
  /\ \E mid \in ComboMid(Ratio[s], snap.book) :
       pos' = [status |-> "filling", strategy |-> {s}, open |-> mid, entryIv |-> {}]
  /\ fresh' = TRUE
  /\ UNCHANGED <<dte, snap, marks, best, verdict>>

(***************************************************************************)
(* _paper_fill: the entry context is read from the snapshot of the moment, *)
(* the price is the one of the snapshot the tick began with.               *)
(***************************************************************************)
Fill ==
  /\ pos.status = "filling"
  /\ pos' = [pos EXCEPT !.status = "open", !.entryIv = {v.iv : v \in snap.chain}]
  /\ UNCHANGED <<dte, snap, marks, fresh, best, verdict>>

(***************************************************************************)
(* _handle_closing_rec: in paper mode it closes at the mid, or waits for   *)
(* one; in draft and live mode the position is open again.                 *)
(***************************************************************************)
Close ==
  /\ pos.status = "closing"
  /\ HeldMid # {}
  /\ pos' = [pos EXCEPT !.status = "closed"]
  /\ UNCHANGED <<dte, snap, marks, fresh, best, verdict>>

Reopen ==
  /\ pos.status = "closing"
  /\ HeldMid # {}
  /\ pos' = [pos EXCEPT !.status = "open"]
  /\ UNCHANGED <<dte, snap, marks, fresh, best, verdict>>

-----------------------------------------------------------------------------
(* The position manager *)

WatchedEarly == {"filling", "open", "closing"}    \* mutant of Watched
Watched == {"open", "closing"}                    \* list_open_positions_full

LastMark(before, pnl) == {pnl}                    \* mutant of PeakOfMarks
PeakOfMarks(before, pnl) == {Max(before \cup {pnl})}

(***************************************************************************)
(* build_exit_context: a peak that cannot be read is the current P&L.      *)
(***************************************************************************)
ExitContext(readable) ==
  [entryIv |-> pos.entryIv,
   iv |-> {v.iv : v \in snap.chain},
   spot |-> {v.spot : v \in snap.chain},
   shortStrike |-> UNION {ShortStrike(Ratio[Held], Strike, v.spot) : v \in snap.chain},
   pnl |-> Pnl,
   peak |-> IF readable THEN Max(marks' \cup {Pnl}) ELSE Pnl,
   sides |-> ComboSides(Ratio[Held], snap.book)]

(***************************************************************************)
(* tick, for one position: an unquoted leg skips it altogether, and one    *)
(* that is closing is only marked.                                         *)
(***************************************************************************)
ManagerTick ==
  /\ pos.status \in Watched
  /\ HeldMid # {}
  /\ marks' = PeakOfMarks(marks, Pnl)
  /\ best' = {Max(best \cup {Pnl})}
  /\ IF pos.status = "closing"
       THEN UNCHANGED <<pos, verdict>>
       ELSE \E readable \in BOOLEAN :
              LET reason == ExitReason(StopRules(Held), Abs(pos.open), Abs(The(HeldMid)),
                                       dte, ExitContext(readable))
              IN  /\ verdict' = [reason |-> reason, pnl |-> Pnl, sawPeak |-> readable]
                  /\ pos' = [pos EXCEPT !.status = IF ShouldExit(reason) THEN "closing"
                                                                         ELSE @]
  /\ UNCHANGED <<dte, snap, fresh>>

-----------------------------------------------------------------------------

Init ==
  /\ dte \in Days
  /\ snap = NoSnapshot
  /\ pos = NoPosition
  /\ marks = {} /\ best = {}
  /\ fresh = FALSE
  /\ verdict = NoVerdict

Next ==
  \/ SnapshotArrives
  \/ DaysPass
  \/ \E s \in Strategies : Admit(s)
  \/ Fill
  \/ Close
  \/ Reopen
  \/ ManagerTick

Spec == Init /\ [][Next]_vars

-----------------------------------------------------------------------------
(* Properties *)

Reasons == {"none", "hold", "defer", "time_stop", "strike_tested", "vol_crush",
            "trail", "target", "stop"}

(***************************************************************************)
(* Types, and that the marks exist only for a position that was filled:    *)
(* the trader never writes position_marks, the manager only for open ones. *)
(***************************************************************************)
LifeTypeOK ==
  /\ dte \in Days
  /\ snap \in Snapshot
  /\ pos.status \in {"none", "filling", "open", "closing", "closed"}
  /\ pos.strategy \in AtMostOne(Strategies) /\ pos.open \in Int
  /\ pos.entryIv \in AtMostOne({v.iv : v \in Views})
  /\ Cardinality(marks) <= 1 /\ marks \subseteq Int
  /\ (pos.status \in {"none", "filling"} => marks = {})
  /\ fresh \in BOOLEAN
  /\ verdict \in [reason : Reasons, pnl : Int, sawPeak : BOOLEAN]

(***************************************************************************)
(* The combo is worth what a position of its kind is worth: a credit is    *)
(* still owed, a debit is still owned.  The rules compare absolute values, *)
(* so they say nothing sensible about a combo quoted through zero.         *)
(***************************************************************************)
KeepsSign ==
  HeldMid # {} /\ \A v \in HeldMid \cup {pos.open} :
    IF StopRules(Held).isCredit THEN v < 0 ELSE v > 0

(***************************************************************************)
(* An exit is called by its name: a profit target and a vol crush harvest  *)
(* a profit, a stop loss takes a loss, with credits and debits marked by   *)
(* one formula and judged by opposite ones (core/risk.py 135-202,          *)
(* mark_position).                                                         *)
(***************************************************************************)
ReasonsFitPnl ==
  verdict.reason # "none" /\ KeepsSign =>
    /\ verdict.reason \in {"target", "vol_crush", "defer"} => verdict.pnl > 0
    /\ verdict.reason = "stop" => verdict.pnl < 0

(***************************************************************************)
(* What a tick leaves open is within its risk limits, whatever the quotes, *)
(* the spread and the other rules say: before its time stop, a short       *)
(* strike nearest to the money not under test, its loss below the stop.    *)
(* Only a target is ever deferred (core/risk.py 93-105).  Of two strikes   *)
(* equally near the second may be under test: its buffer is the wider.     *)
(***************************************************************************)
HeldWithinRisk ==
  verdict.reason \in {"hold", "defer"} /\ pos.status = "open" =>
    LET rules  == StopRules(Held)
        shorts == {l \in Legs : Ratio[Held][l] < 0}
        far(l, v) == Distance(v.spot, Strike[l])
    IN  /\ dte > rules.timeStop
        /\ rules.isCredit /\ shorts # {} =>
             \A b \in rules.strikeBuffer, v \in snap.chain :
               \E l \in shorts : /\ \A k \in shorts : far(l, v) <= far(k, v)
                                /\ 1000 * far(l, v) > b * Strike[l]
        /\ KeepsSign => -100 * Pnl < rules.stop * Abs(pos.open)

(***************************************************************************)
(* Gains once made are kept: a position that a tick leaves open although   *)
(* it was once marked at the trailing stop's activation has not given back *)
(* its share of the best mark of its whole life, however many ticks, days  *)
(* and reopenings ago that was, unless the database would not tell         *)
(* (core/risk.py 158-185, get_peak_unrealized_pnl).                        *)
(***************************************************************************)
HeldKeepsGains ==
  /\ verdict.reason \in {"hold", "defer"} /\ verdict.sawPeak /\ pos.status = "open"
  /\ pos.open # 0
  => \A a \in StopRules(Held).trailActivate, g \in StopRules(Held).trailGiveback :
       \A b \in best :
         100 * b >= a * Abs(pos.open) /\ b > 0 =>
           100 * (b - Pnl) < g * b \/ Pnl = b

(***************************************************************************)
(* The admission and the exits agree: a position just opened, on the very  *)
(* snapshot and day that admitted it, is not sent back by the manager's    *)
(* next tick, except that its short strike is already under test.  The     *)
(* floors of settings.toml and the time stops of strategies.yaml are kept  *)
(* in two files that nothing compares.  A fill that cost nothing is left   *)
(* out: of nothing, every target is reached at once.                       *)
(***************************************************************************)
FreshNotExited ==
  fresh /\ pos.open # 0 => ~ShouldExit(verdict.reason) \/ verdict.reason \in {"none", "strike_tested"}

-----------------------------------------------------------------------------
(* The policy as an algorithm *)

AllTrades ==
  {t \in [credit : BOOLEAN, hedge : BOOLEAN, pin : BOOLEAN, magnet : BOOLEAN,
          event : BOOLEAN, size : {10, 90}] :
     (t.hedge => ~t.pin /\ ~t.event) /\ (t.magnet => t.pin)}

AllMarkets ==
  [iv : {{}, {40}, {60}, {90}}, rv : {{30}, {40}, {60}, {110}},
   ivChange : {{0}, {-4}}, spread : {{5}, {15}, {30}},
   news : {{}, {30}, {20}, {1}}, fast : BOOLEAN, dte : {dte}]

(***************************************************************************)
(* A worse market never lets a trade closer to expiry: a wider combo, a    *)
(* wilder underlying, news and newer news, each with the rest as it is,    *)
(* leave the floor where it is or raise it, for every kind of trade, known *)
(* IV or not (core/dte_policy.py 110-308).  Asked before the first         *)
(* snapshot, so once per DTE: the answer depends on nothing else.          *)
(***************************************************************************)
AdverseNeverHelps ==
  snap = NoSnapshot /\ pos = NoPosition =>
    \A t \in AllTrades, m \in AllMarkets :
      /\ \A v \in {30, 40, 60, 110} :
           The(m.rv) <= v => MinDte(t, m) <= MinDte(t, [m EXCEPT !.rv = {v}])
      /\ \A s \in {5, 15, 30} :
           The(m.spread) <= s => MinDte(t, m) <= MinDte(t, [m EXCEPT !.spread = {s}])
      /\ \A h \in {30, 20, 1} :
           (\A k \in m.news : h <= k) => MinDte(t, m) <= MinDte(t, [m EXCEPT !.news = {h}])
      /\ MinDte(t, m) <= MinDte(t, [m EXCEPT !.fast = TRUE])
      /\ The(m.ivChange) = 0 => MinDte(t, m) <= MinDte(t, [m EXCEPT !.ivChange = {-4}])

=============================================================================
