SPECIFICATION FairSpec
CONSTANTS
  Workers = {w1, w2, w3}
  MaxJobs = 3
  MaxSpurious = 2
INVARIANTS
  TypeOK
  NoneLeftBehind
  JobsDoneOnce
PROPERTIES
  PoolEnds
