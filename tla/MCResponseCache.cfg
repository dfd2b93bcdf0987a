CONSTANTS
  Keys = {k1, k2, k3}
  Sizes = {0, 1, 2, 4, 5}
  Values <- MCValues
  MaxBytes = 4
SPECIFICATION MCSpec
INVARIANTS
  CacheTypeOK
  Consistent
  WithinBudget
  KeepsMostRecent
PROPERTY
  DropsNoMoreThanNeeded
