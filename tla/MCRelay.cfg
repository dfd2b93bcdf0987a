CONSTANTS
  Callers = {warm, generate}
  Stories = {s1, s2, s3}
  Archetypes = {a1, a2}
  MaxStory = 2
  Conc = 2
  None = None
SPECIFICATION Spec
SYMMETRY Interchangeable
INVARIANTS
  TypeOK
  StoriesTracked
  RunCountsEveryArchetype
  FileNeverTorn
  DurableBetweenRuns
PROPERTIES
  EvictsWholeStories
