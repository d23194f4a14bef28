SPECIFICATION CacheSpec
CONSTANTS
  i1 = i1
  i2 = i2
  profile = profile
  preferences = preferences
  NoLoad = NoLoad
  NoEntry = NoEntry
  NoValue = NoValue
  Instances = {i1, i2}
  Keys = {profile, preferences}
  Asked <- MCAsked
  FallsBack <- MCFallsBack
  Loads = {l1, l2}
  l1 = l1
  l2 = l2
  l3 = l3
  MaxWrites = 2
INVARIANTS
  CacheTypeOK
  StaleOnlyIfRaced
  InflightRuns
PROPERTY CatchesUp
