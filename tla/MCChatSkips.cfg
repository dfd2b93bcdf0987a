CONSTANTS
  ann = ann
  ben = ben
  cho = cho
  People = {ann, ben}
  Size = 2
  Cohorts <- OneDraw
  Stories = {flood, strike}
  StallLimit = 2
  MaxHistory = 2
  MaxTangents = 1
  MaxTurns = 2
  MaxActs = 2
  MaxChatter = 2
  Nobody = Nobody
SPECIFICATION FairSpec
PROPERTIES
  PassesOverOnlyTheUnreached
