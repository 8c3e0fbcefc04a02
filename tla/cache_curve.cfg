\* Working sets 4 .. 56 KiB stand for 4 KiB .. 128 MiB, a reference region of
\* 224 KiB for 1 GiB.
SPECIFICATION SweepSpec
CONSTANTS
  MaxKiB = 56
  Octaves = 4
  ReferenceKiB = 224
  Available <- Frees
  Answers <- Chases
  References <- Memories
  Words = 15
  Reference <- MCReference
  Cached = 0
  Rings <- MCRings
  PageLines = 2
  Latencies = {0, 1, 9}
  MinimumSteps = 2
  Budget = 9
INVARIANTS
  SampleCoversItsSet
  LastLevelCanCap
  FallsConfirmed
\* the measurement returns
CHECK_DEADLOCK FALSE
