----------------------------- MODULE DtePolicy ------------------------------
(***************************************************************************)
(* core/dte_policy.py: how far from expiry a new position must be.         *)
(*                                                                         *)
(* A trade is [credit, hedge, pin, magnet, event : BOOLEAN, size : Nat]    *)
(* and a market is [iv, rv, ivChange, spread, news, fast, dte], where all  *)
(* but the last two may be missing (sets of at most one element).  IV, RV, *)
(* spread and size are percentages, ivChange is in vol points, news in     *)
(* hours since the last critical item.                                     *)
(***************************************************************************)
EXTENDS Integers

CONSTANT Config    \* DTEPolicyConfig, the [dte_policy] section of settings.toml

ConfigFields ==
  {"premium_sell_min_dte_calm", "premium_sell_min_dte_normal",
   "premium_sell_min_dte_high_vol", "long_debit_min_dte_normal",
   "long_debit_min_dte_high_iv", "long_debit_min_dte_wide_spread",
   "pin_trade_min_dte_normal", "pin_trade_min_dte_strong_magnet",
   "hedge_min_dte", "hedge_max_pct_of_book", "event_trade_min_dte",
   "refuse_when_realized_vol_above", "refuse_when_combo_spread_pct_above",
   "refuse_when_iv_change_60min_above", "recent_news_critical_block_hours",
   "recent_news_short_dte_block_hours"}

ASSUME PolicyAssumption == Config \in [ConfigFields -> Nat]

BlockAll == 9999

(***************************************************************************)
(* _check_hard_no                                                          *)
(***************************************************************************)
HardNo(market) ==
  \/ market.dte <= 0
  \/ \E v \in market.rv : v > Config.refuse_when_realized_vol_above
  \/ \E s \in market.spread : s > Config.refuse_when_combo_spread_pct_above
  \/ \E c \in market.ivChange : \/ c > Config.refuse_when_iv_change_60min_above
                                \/ -c > Config.refuse_when_iv_change_60min_above
  \/ market.fast
  \/ \E h \in market.news : h <= Config.recent_news_critical_block_hours

(***************************************************************************)
(* The scenarios of a trade that collects premium, and of one that pays.   *)
(***************************************************************************)
SellWhenWild(market) ==                        \* mutant of SellFloor
  IF \E i \in market.iv, v \in market.rv : i > 50 /\ v > 35
    THEN Config.premium_sell_min_dte_calm
  ELSE Config.premium_sell_min_dte_normal

SellFloor(market) ==
  IF \E h \in market.news : h <= Config.recent_news_short_dte_block_hours
    THEN Config.premium_sell_min_dte_high_vol + 4
  ELSE IF \E i \in market.iv, v \in market.rv : i > 80 /\ v > 50
    THEN Config.premium_sell_min_dte_high_vol
  ELSE IF \E i \in market.iv, v \in market.rv : i > 50 /\ v < 35
    THEN Config.premium_sell_min_dte_calm
  ELSE Config.premium_sell_min_dte_normal

DebitFloor(market) ==
  IF \E s \in market.spread : s > 10 THEN Config.long_debit_min_dte_wide_spread
  ELSE IF \E i \in market.iv : i > 80 THEN Config.long_debit_min_dte_high_iv
  ELSE Config.long_debit_min_dte_normal

(***************************************************************************)
(* min_dte_for_new_position: the first scenario that applies decides.      *)
(***************************************************************************)
MinDte(trade, market) ==
  IF HardNo(market) THEN BlockAll
  ELSE IF trade.hedge THEN IF trade.size > Config.hedge_max_pct_of_book
                             THEN BlockAll ELSE Config.hedge_min_dte
  ELSE IF trade.event THEN Config.event_trade_min_dte
  ELSE IF trade.pin THEN IF trade.magnet THEN Config.pin_trade_min_dte_strong_magnet
                                         ELSE Config.pin_trade_min_dte_normal
  ELSE IF trade.credit THEN SellFloor(market)
  ELSE DebitFloor(market)

NotBlocked(trade, market) == MinDte(trade, market) # BlockAll   \* mutant of Admits
Admits(trade, market) ==
  MinDte(trade, market) # BlockAll /\ market.dte >= MinDte(trade, market)

=============================================================================
