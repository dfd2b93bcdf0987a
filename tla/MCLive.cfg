SPECIFICATION Spec
CONSTANTS
  None = None
  p1 = p1
  p2 = p2
  app = app
  zero = zero
  Blank = zero
  People = {p1, p2}
  Platforms = {app}
  Member <- MCMember
  Ties <- MCTies
  Words <- MCWords
  AtRest <- MCRest
  News <- MCNews
  Minds = {{}}
  Controls <- MCControls
  DeltaCost = 4
  FullCost = 3
  MaxPosts = 1
  DayNight = FALSE
  HoursPerDay = 1
  StartHour = 0
  Fatigue = FALSE
  MaxSteps = 1
INVARIANTS
  ServerTypeOK
  NothingMissed
PROPERTIES
  LitByNews
  CatchesUp
  StepsAreTaken
CHECK_DEADLOCK FALSE
