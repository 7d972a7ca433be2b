\* Two rates over four blocks, of a trust unit in coins, of a trust unit in itself, and of two
\* pairs of coins whose keys collide.
SPECIFICATION Spec
CONSTANTS
  Pairs <- PairsOfAssets
  Scales = {0, 18, 19}
  Validities <- Durations
  Maxima = {1, 3}
  DefaultMaximum = 2
  Minute = 1
  MaxRates = 2
  MaxTime = 4
INVARIANTS
  TypeOK
  PairsIndexed
PROPERTIES
  ExpiredForGood
CHECK_DEADLOCK FALSE
