\* A reference of eight lines, and a last level that holds three of them.
SPECIFICATION SweepSpec
CONSTANTS
  MaxKiB = 56
  Octaves = 4
  ReferenceKiB = 224
  Available <- Frees
  Answers <- Chases
  References <- Memories
  Words = 8
  Reference <- SmallReference
  Cached = 3
  Rings <- NoRings
  PageLines = 2
  Latencies = {1}
  MinimumSteps = 2
  Budget = 9
INVARIANT ReferenceIsCold
CHECK_DEADLOCK FALSE
