SPECIFICATION Spec
CONSTANTS
  a = a
  b = b
  c = c
  d = d
  e = e
  Nodes <- MCNodes
  Ties <- MCTies
  Feeds <- MCFeeds
  Wakes <- MCWakes
  BaseThreshold <- MCBaseThreshold
  Places <- MCPlaces
  Eager <- MCEager
  Floor = 25
  Difficulties = {0, 150}
  MinReinforce = 2
  TransmitFor = 2
  MaxStep = 3
INVARIANTS TypeOK ClocksFit
PROPERTIES StalledIsFinal FeedCredit ImplementsCascade
