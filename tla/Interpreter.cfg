\* Nested frames on a 4-bit machine with words of four bytes.
SPECIFICATION FairRunSpec
CONSTANTS
  Operations <- MCOperations
  Gases = {0, 1, 3}
  DynamicCosts = {1, 15}
  Offsets = {0, 14}
  Lengths = {0, 3}
  CallCreateDepth = 1
  StackLimit = 2
  KeepsOperation = {TRUE, FALSE}
  IsHomestead = TRUE
  IsEIP158 = TRUE
  IsIstanbul = TRUE
  IsLondon = TRUE
  IsShanghai = TRUE
  IsCancun = TRUE
  MaxU64 = 15
  U256 = 64
  MaxCodeSize = 2
  CreateDataGas = 1
  CodeSizes = {0, 1, 3}
  WordBytes = 4
  Depths = {1, 2}
  PCs = {0, 1}
  MinStacks = {0, 1, 2}
  Slots = 1
  MaxRegs = 5
INVARIANTS
  IndexUnique
  LoopsInOrder
  NestingRestricted
  ReadOnlyKept
  TracedOnce
  TracedGasIsReal
  StackSafe
  MemoryCovers
PROPERTIES
  ImplementsDeployment
  RunEnds
\* The run ends.
CHECK_DEADLOCK FALSE
