\* --mode=cache on riscv64.
SPECIFICATION Spec
CONSTANTS
  Backends = {"riscv64"}
  Args <- FewArgs
  MaxArgs = 2
  Catalog <- SmallCatalog
  Threads = 2
  PartOf <- Contained
INVARIANTS
  CacheRunObservesNothing
