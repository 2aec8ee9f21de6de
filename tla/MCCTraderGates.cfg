SPECIFICATION Spec
CONSTANTS
  Guards = {g1, g2}
  Callbacks <- MCCallbacks
  Lifetime = 2
  MaxTime = 4
  MaxParameters = 3
  MaxArmed = 2
  AccountLists <- MCAccountLists
  Unvouched <- MCUnvouched
  Titles = {"A", "B", "unsafe"}
  MaxId = 3
  Generation = 1
  Links <- MCLinks
  AccountAnswers <- MCAccountAnswers
  SymbolAnswers <- MCSymbolAnswers
  FullAnswers <- MCFullAnswers
  SubscriptionAnswers <- MCSubscriptionAnswers
  Spots <- MCSpots
  AccountIds <- MCAccountIds
  WireDigits = 2
  MaxScale = 3
  MaxUnits = 999
  MaxStamp = 60
  Multipliers <- MCMultipliers
  MaxAge = 3
  MaxFuture = 1
INVARIANTS CorrelationMatchedOnce SelectedAccountAuthenticated QuoteIsProven EndedHoldsNoSecret
PROPERTIES EndedStaysEnded
