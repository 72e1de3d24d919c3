SPECIFICATION Spec
CONSTANTS
  w1 = w1
  w2 = w2
  outer = outer
  inner = inner
  tested = tested
  job = job
  clock = clock
  none = none
  Threads <- Workers
  Guarded <- RunEnvs
  Unguarded <- RunTests
  Tasks <- Jobs
  Clock <- clock
  NoRun <- none
  MaxDepth = 3
  ClockPanics = FALSE
  LocalTasks = TRUE
INVARIANTS
  SpawnedPanicsLeftAlone
