CONSTANTS
  Callers = {warm, generate}
  Stories = {s1, s2}
  Archetypes = {a1, a2}
  MaxStory = 1
  Conc = 1
  None = None
SPECIFICATION FairSpec
PROPERTIES
  RunEnds
