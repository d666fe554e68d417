\* The register as the source builds it, without its operation.
SPECIFICATION RunSpec
CONSTANTS
  Operations <- MCOperations
  Gases = {1, 3}
  DynamicCosts = {1}
  Offsets = {0, 14}
  Lengths = {0, 3}
  CallCreateDepth = 2
  StackLimit = 2
  KeepsOperation = {FALSE}
  IsHomestead = TRUE
  IsEIP158 = TRUE
  IsIstanbul = TRUE
  IsLondon = TRUE
  IsShanghai = TRUE
  IsCancun = TRUE
  MaxU64 = 15
  U256 = 64
  MaxCodeSize = 2
  CreateDataGas = 1
  CodeSizes = {0, 1, 3}
  WordBytes = 4
  Depths = {1, 2, 3}
  PCs = {0, 1}
  MinStacks = {0, 1, 2}
  Slots = 1
  MaxRegs = 4
INVARIANTS
  OperationExecuted
\* The process may end.
CHECK_DEADLOCK FALSE
