\* The same pool under the fairness of its threads.  The values that only the
\* migration report tells apart are reduced to one.
SPECIFICATION FairSpec
CONSTANTS
  N = 3
  Jobs = {j1}
  NoJob = NoJob
  Readings <- PinnedReading
  MaxRounds = 2
  MaxAdds = 2
  Spurious = FALSE
PROPERTIES
  CallsReturn
  WorkIsExecuted
