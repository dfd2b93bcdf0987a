SPECIFICATION Spec
CONSTANTS
  None = None
  Unset = Unset
  app = app
  N = 4
  Workers = 2
  Proposals <- MCProposals
  People = {0, 1, 2, 3}
  Platforms = {app}
  Member <- MCMember
  MaxPosts = 2
  DayNight = TRUE
  HoursPerDay = 2
  StartHour = 0
  Fatigue = TRUE
  Designs <- MCDesigns
INVARIANTS
  ExperimentTypeOK
  CursorsFit
  GraphIsProposed
  ArmsArePaired
  ResultAddsUp
PROPERTIES
  RunnerFreed
