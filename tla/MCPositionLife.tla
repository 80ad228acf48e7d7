--------------------------- MODULE MCPositionLife ---------------------------
(***************************************************************************)
(* Two legs, which the condor, shown without its wings, sells both, with   *)
(* the limits of strategies.yaml and settings.toml.  At 200 both strikes   *)
(* are equally near, the lower outside its buffer, the higher inside.      *)
(***************************************************************************)
EXTENDS PositionLife, TLC

Settings ==
  [premium_sell_min_dte_calm |-> 5, premium_sell_min_dte_normal |-> 10,
   premium_sell_min_dte_high_vol |-> 14, long_debit_min_dte_normal |-> 5,
   long_debit_min_dte_high_iv |-> 7, long_debit_min_dte_wide_spread |-> 10,
   pin_trade_min_dte_normal |-> 5, pin_trade_min_dte_strong_magnet |-> 3,
   hedge_min_dte |-> 1, hedge_max_pct_of_book |-> 50, event_trade_min_dte |-> 1,
   refuse_when_realized_vol_above |-> 100,
   refuse_when_combo_spread_pct_above |-> 25,
   refuse_when_iv_change_60min_above |-> 3,
   recent_news_critical_block_hours |-> 1,
   recent_news_short_dte_block_hours |-> 24]

YamlRules ==
  [iron_condor |->
     [isCredit |-> TRUE, target |-> 50, stop |-> 100, timeStop |-> 3,
      volCrush |-> {10}, trailActivate |-> {60}, trailGiveback |-> {30},
      strikeBuffer |-> {15}, comboSpread |-> {35}],
   bear_call_credit |->
     [isCredit |-> TRUE, target |-> 50, stop |-> 150, timeStop |-> 3,
      volCrush |-> {10}, trailActivate |-> {60}, trailGiveback |-> {30},
      strikeBuffer |-> {15}, comboSpread |-> {35}],
   bull_call_debit |->
     [isCredit |-> FALSE, target |-> 75, stop |-> 50, timeStop |-> 2,
      volCrush |-> {}, trailActivate |-> {50}, trailGiveback |-> {30},
      strikeBuffer |-> {}, comboSpread |-> {35}]]

LegRatio ==
  [iron_condor |-> <<-1, -1>>, bear_call_credit |-> <<-1, 1>>,
   bull_call_debit |-> <<1, -1>>, unlisted |-> <<-1, 1>>]

LegStrike == <<197, 203>>

SomeQuotes ==
  {[bid |-> 1, ask |-> 1, last |-> 0], [bid |-> 5, ask |-> 7, last |-> 0],
   [bid |-> 0, ask |-> 4, last |-> 4]}

SomeViews == {[iv |-> 60, spot |-> 198], [iv |-> 45, spot |-> 200]}

=============================================================================
