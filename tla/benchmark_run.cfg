\* Every command line of up to four arguments, on each back end.
SPECIFICATION Spec
CONSTANTS
  Backends = {"x64", "arm64", "riscv64"}
  Args <- SmallArgs
  MaxArgs = 4
  Catalog <- SmallCatalog
  Threads = 2
  PartOf <- Contained
INVARIANTS
  SelectionAsDocumented
  RowsObeyOptions
  LatencyPairedOnce
  SuccessMeansReported
