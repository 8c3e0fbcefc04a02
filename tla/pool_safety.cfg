\* Three pinned workers and a client that mixes at most two submissions to the
\* queue with at most two rounds of tpool_run_all.
SPECIFICATION Spec
CONSTANTS
  N = 3
  Jobs = {j1, j2}
  NoJob = NoJob
  Readings <- AnyReading
  MaxRounds = 2
  MaxAdds = 2
  Spurious = TRUE
INVARIANTS
  TypeOK
  NoLostWakeup
  ParallelInWindow
  ModesSerialized
  MigrationReport
  UnpinnedNeverMeasured
PROPERTIES
  WindowCoversTheJob
  WaitDrains
  ContractSpec
