SPECIFICATION Spec
CONSTANTS
  Config <- Settings
  Strategies = {"iron_condor", "bear_call_credit", "bull_call_debit", "unlisted"}
  Rules <- YamlRules
  SellsPremium = {"iron_condor", "bear_call_credit", "unlisted"}
  Ratio <- LegRatio
  Strike <- LegStrike
  Quotes <- SomeQuotes
  Views <- SomeViews
  Medians = {45, 90}
  Days = {0, 3, 5, 12}
INVARIANTS
  LifeTypeOK
  ReasonsFitPnl
  HeldWithinRisk
  HeldKeepsGains
  FreshNotExited
  AdverseNeverHelps
