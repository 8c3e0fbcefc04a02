\* Two workers, two repetitions (the code defaults to more; the third adds no
\* new order of events), 64-bit sizes shrunk to 0 .. 15.
SPECIFICATION Spec
CONSTANTS
  N = 2
  Requests <- RequestSizes
  Block = 2
  MaxSize = 15
  IntMax = 4
  Repetitions = 2
INVARIANTS
  StreamsInsideAllocation
  FirstTouchStreams
  ReleasedOnEveryExit
PROPERTIES
  SampleOfItsRound
