CONSTANTS
  Archetypes = {nurse, farmer}
  Sizes = {1, 2}
  MaxBytes = 2
  MaxSamples = 4
SPECIFICATION Spec
CHECK_DEADLOCK FALSE
INVARIANTS
  RetryIsAFreshSample
