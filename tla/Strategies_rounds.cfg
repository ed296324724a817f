SPECIFICATION Spec
CONSTANTS
  Missing = Missing
  Invalid = Invalid
  Spellings <- MCSpellings
  Watched <- MCWatched
  Asks <- MCAsks
  Exchanges = {"NYSE", "NASDAQ", "ARCA"}
INVARIANTS
  LimitsCoverTheAsk
  OrdersFollowTheClock
PROPERTIES
  RoundsGoOn
CHECK_DEADLOCK FALSE
